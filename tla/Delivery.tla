------------------------------ MODULE Delivery ------------------------------
(***************************************************************************)
(* What a test may expect of a queue with acknowledgements, whichever      *)
(* service it stands for: a message waits, or one consumer holds it, or it *)
(* is dead or gone.  It is given to a consumer again only when it came     *)
(* back, never once it is dead or gone; every delivery is counted, once;   *)
(* and the messages of a queue are first given in the order of their       *)
(* sends.                                                                  *)
(*                                                                         *)
(* A settlement and the deliveries that follow from it may be one step, so *)
(* a step moves any number of messages, but each of them once.             *)
(***************************************************************************)
EXTENDS Naturals, Sequences

VARIABLE message  \* [queue, place, given] of each message, oldest first

Init == message = <<>>

Stays(a, b) == b.place = a.place /\ b.given = a.given

\* Whoever is given the message holds it, or has it for good, as a poller that
\* need not acknowledge.
IsGiven(a, b) ==
  a.place = "waits" /\ b.place \in {"held", "gone"} /\ b.given = a.given + 1

\* It has expired, or its queue was emptied.
Lapses(a, b) == a.place = "waits" /\ b.place \in {"dead", "gone"} /\ b.given = a.given

\* Its holder settles it, or it comes back.
Leaves(a, b) == a.place = "held" /\ b.place # "held" /\ b.given = a.given

\* It comes back, and is the next that is given.
Returns(a, b) == a.place = "held" /\ b.place = "held" /\ b.given = a.given + 1

\* Dead letters can only be taken away.
IsDrained(a, b) == a.place = "dead" /\ b.place = "gone" /\ b.given = a.given

Becomes(a, b) ==
  /\ b.queue = a.queue
  /\ \/ Stays(a, b) \/ IsGiven(a, b) \/ Lapses(a, b)
     \/ Leaves(a, b) \/ Returns(a, b) \/ IsDrained(a, b)

\* A new message waits, or is given at once.
Arrives(b) ==
  \/ b.place = "waits" /\ b.given = 0
  \/ b.place = "held" /\ b.given = 1

IsFirstGiven(m) ==
  message'[m].given > 0 /\ (m \in DOMAIN message => message[m].given = 0)

\* Nobody on the queue of m has waited for a first delivery longer.
InTurn(m) ==
  \A n \in DOMAIN message' :
    n < m /\ message'[n].queue = message'[m].queue =>
      message'[n].given > 0 \/ message'[n].place \in {"dead", "gone"}

Moves ==
  /\ Len(message') \in {Len(message), Len(message) + 1}
  /\ \A m \in DOMAIN message' :
       IF m \in DOMAIN message THEN Becomes(message[m], message'[m]) ELSE Arrives(message'[m])

IsOrdered == \A m \in DOMAIN message' : IsFirstGiven(m) => InTurn(m)

Next == Moves /\ IsOrdered

Spec == Init /\ [][Next]_message

\* The same, in any order.
Unordered == Init /\ [][Moves]_message
=============================================================================
