------------------------------ MODULE OneStore ------------------------------
(***************************************************************************)
(* What a test may expect of a KeyDB cluster that replicates without a lag *)
(* (packages/cache/src/keydb/types.ts:108-111, "synchronous"): one store,  *)
(* whichever master is asked.  A value is the number of the write that     *)
(* made it.                                                                *)
(***************************************************************************)
EXTENDS Naturals, Sequences

CONSTANTS Keys

VARIABLES
  value,  \* what is read under each key: a write, or 0
  age     \* of each write: "forever", "timed", or "over"

storeVars == <<value, age>>

Init ==
  /\ value = [k \in Keys |-> 0]
  /\ age = <<>>

Put(k, timed) ==
  /\ age' = Append(age, IF timed THEN "timed" ELSE "forever")
  /\ value' = [value EXCEPT ![k] = Len(age')]

Remove(k) ==
  /\ value' = [value EXCEPT ![k] = 0]
  /\ UNCHANGED age

\* The time of write w is over: nobody reads it any more.
Lapse(w) ==
  /\ age[w] = "timed"
  /\ age' = [age EXCEPT ![w] = "over"]
  /\ value' = [k \in Keys |-> IF value[k] = w THEN 0 ELSE value[k]]

Clear ==
  /\ value' = [k \in Keys |-> 0]
  /\ UNCHANGED age

Next ==
  \/ \E k \in Keys : (\E timed \in BOOLEAN : Put(k, timed)) \/ Remove(k)
  \/ \E w \in DOMAIN age : Lapse(w)
  \/ Clear

Spec == Init /\ [][Next]_storeVars
=============================================================================
