---------------------------- MODULE JobLifecycle ----------------------------
(***************************************************************************)
(* What a test may expect of the sandbox queue: a worker of concurrency 1  *)
(* (packages/queue/src/sandbox-queue.ts:118) that takes each job from      *)
(* waiting to active to completed or failed, and sends a failed attempt    *)
(* back to waiting while attempts are left (:10-12).                       *)
(***************************************************************************)
EXTENDS Naturals

CONSTANTS Jobs, Attempts

VARIABLES
  state,   \* of each job
  runs,    \* attempts made
  budget,  \* attempts allowed
  halted   \* stop() was called

jlVars == <<state, runs, budget, halted>>

States == {"none", "queued", "running", "completed", "failed"}

TypeOK ==
  /\ state \in [Jobs -> States]
  /\ runs \in [Jobs -> Nat]
  /\ budget \in [Jobs -> Attempts \cup {0}]
  /\ halted \in BOOLEAN

Init ==
  /\ state = [j \in Jobs |-> "none"]
  /\ runs = [j \in Jobs |-> 0]
  /\ budget = [j \in Jobs |-> 0]
  /\ halted = FALSE

Enqueue(j, n) ==
  /\ ~halted
  /\ state[j] = "none"
  /\ state' = [state EXCEPT ![j] = "queued"]
  /\ budget' = [budget EXCEPT ![j] = n]
  /\ UNCHANGED <<runs, halted>>

\* One job at a time, and never more often than its budget allows.
Start(j) ==
  /\ ~halted
  /\ state[j] = "queued"
  /\ runs[j] < budget[j]
  /\ \A k \in Jobs : state[k] # "running"
  /\ state' = [state EXCEPT ![j] = "running"]
  /\ runs' = [runs EXCEPT ![j] = @ + 1]
  /\ UNCHANGED <<budget, halted>>

Finish(j) ==
  /\ state[j] = "running"
  /\ \/ state' = [state EXCEPT ![j] = "completed"]
     \/ runs[j] < budget[j] /\ state' = [state EXCEPT ![j] = "queued"]
     \/ runs[j] = budget[j] /\ state' = [state EXCEPT ![j] = "failed"]
  /\ UNCHANGED <<runs, budget, halted>>

Halt ==
  /\ halted' = TRUE
  /\ UNCHANGED <<state, runs, budget>>

Next ==
  \/ \E j \in Jobs : (\E n \in Attempts : Enqueue(j, n)) \/ Start(j) \/ Finish(j)
  \/ Halt

Spec == Init /\ [][Next]_jlVars
=============================================================================
