----------------------------- MODULE Semaphore -----------------------------
(***************************************************************************)
(* What a test may expect of a pool (packages/core/src/pool.ts:35-57): a   *)
(* counting semaphore with one permit per resource and a first-come        *)
(* first-served line, in which a permit that is given up goes straight to  *)
(* the head of the line.  Only stopAll takes anyone out of the line        *)
(* without a permit, and once the resources are gone nobody gets in.       *)
(***************************************************************************)
EXTENDS Naturals, Sequences, FiniteSets

CONSTANTS Clients, Permits

VARIABLES
  inside,  \* the clients that have a permit
  line,    \* the clients that wait, oldest first
  stage    \* "open", "closing" after stopAll, "closed" without resources

semVars == <<inside, line, stage>>

Init ==
  /\ inside = {}
  /\ line = <<>>
  /\ stage = "open"

InLine(c) == \E i \in DOMAIN line : line[i] = c

\* Nobody is let in while others wait.
Enter(c) ==
  /\ stage # "closed"
  /\ c \notin inside
  /\ line = <<>>
  /\ Cardinality(inside) < Permits
  /\ inside' = inside \cup {c}
  /\ UNCHANGED <<line, stage>>

\* Nobody waits while a permit is free.
Wait(c) ==
  /\ c \notin inside /\ ~InLine(c)
  /\ stage = "closed" \/ Cardinality(inside) = Permits
  /\ line' = Append(line, c)
  /\ UNCHANGED <<inside, stage>>

Leave(c) ==
  /\ c \in inside
  /\ \/ line = <<>> /\ inside' = inside \ {c} /\ UNCHANGED line
     \/ line # <<>> /\ inside' = (inside \ {c}) \cup {Head(line)} /\ line' = Tail(line)
  /\ UNCHANGED stage

\* The whole line is sent away.
Close ==
  /\ stage' = IF stage = "closed" THEN "closed" ELSE "closing"
  /\ line' = <<>>
  /\ UNCHANGED inside

\* The oldest of those that came later is sent away.
Drop ==
  /\ stage # "open"
  /\ line # <<>>
  /\ line' = Tail(line)
  /\ UNCHANGED <<inside, stage>>

Shut ==
  /\ stage = "closing"
  /\ stage' = "closed"
  /\ UNCHANGED <<inside, line>>

Next ==
  \/ \E c \in Clients : Enter(c) \/ Wait(c) \/ Leave(c)
  \/ Close \/ Drop \/ Shut

Spec == Init /\ [][Next]_semVars
=============================================================================
