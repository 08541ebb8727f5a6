----------------------------- MODULE PoolProofs -----------------------------
(***************************************************************************)
(* Exclusive leases, no leaked slot, no waiter next to a free slot and     *)
(* service in order, for any number of clients and slots of Pool.          *)
(***************************************************************************)
EXTENDS Pool, SequenceTheorems, FiniteSetTheorems, TLAPS

\* The inductive invariant: the safety invariants of Pool need each other.
\* Lowering a flag keeps Exclusive only because InUseIffHeld ties the flag to
\* one holder; handing a slot on keeps it only because the head of the list
\* is blocked, hence holds nothing (WaitersAreBlocked).
IInv ==
  /\ TypeOK
  /\ Exclusive
  /\ InUseIffHeld
  /\ WorkConserving
  /\ WaitersAreBlocked

\* What shifting the list of waiters yields.
LEMMA ShiftWaiters ==
  ASSUME TypeOK, waiters # <<>>
  PROVE  /\ Head(waiters) \in Clients
         /\ Head(waiters) = waiters[1]
         /\ 1 \in DOMAIN waiters
         /\ Tail(waiters) \in Seq(Clients)
         /\ DOMAIN Tail(waiters) = 1..(Len(waiters) - 1)
         /\ DOMAIN waiters = 1..Len(waiters)
         /\ Len(waiters) \in Nat \ {0}
         /\ \A i \in 1..(Len(waiters) - 1) : Tail(waiters)[i] = waiters[i + 1]
BY HeadTailProperties, LenProperties, EmptySeq DEF TypeOK

\* Whoever is left in the list after a shift was in it, behind the head.
LEMMA WokenAfterShift ==
  ASSUME TypeOK, waiters # <<>>, WaitersAreBlocked
  PROVE  /\ Range(Tail(waiters)) = Woken \ {Head(waiters)}
         /\ \A i, j \in DOMAIN Tail(waiters) :
              Tail(waiters)[i] = Tail(waiters)[j] => i = j
         /\ pc[Head(waiters)] = "waiting"
         /\ Woken \subseteq Clients
<1>1. Head(waiters) \in Woken
  BY ShiftWaiters DEF Woken, Range
<1>2. Woken \subseteq Clients
  BY ElementOfSeq, LenProperties DEF Woken, Range, TypeOK
<1>3. pc[Head(waiters)] = "waiting"
  BY <1>1, <1>2 DEF WaitersAreBlocked
<1>4. \A i, j \in DOMAIN Tail(waiters) :
        Tail(waiters)[i] = Tail(waiters)[j] => i = j
  BY ShiftWaiters DEF WaitersAreBlocked
<1>5. Range(Tail(waiters)) \subseteq Woken \ {Head(waiters)}
  <2> SUFFICES ASSUME NEW i \in 1..(Len(waiters) - 1)
               PROVE  waiters[i + 1] \in Woken \ {Head(waiters)}
    BY ShiftWaiters DEF Range
  <2>1. i + 1 \in DOMAIN waiters /\ i + 1 # 1
    BY ShiftWaiters
  <2>2. waiters[i + 1] # waiters[1]
    BY <2>1, ShiftWaiters DEF WaitersAreBlocked
  <2> QED
    BY <2>1, <2>2, ShiftWaiters DEF Woken, Range
<1>6. Woken \ {Head(waiters)} \subseteq Range(Tail(waiters))
  <2> SUFFICES ASSUME NEW i \in DOMAIN waiters, waiters[i] # waiters[1]
               PROVE  waiters[i] \in Range(Tail(waiters))
    BY ShiftWaiters DEF Woken, Range
  <2>1. i - 1 \in 1..(Len(waiters) - 1) /\ (i - 1) + 1 = i
    BY ShiftWaiters
  <2> QED
    BY <2>1, ShiftWaiters DEF Range
<1> QED
  BY <1>2, <1>3, <1>4, <1>5, <1>6

THEOREM InitIInv == Init => IInv
<1> SUFFICES ASSUME Init PROVE IInv
  OBVIOUS
<1>1. TypeOK
  BY DEF Init, TypeOK, Objects, Alias
<1>2. DOMAIN waiters = {} /\ Woken = {}
  BY DEF Init, Woken, Range
<1> QED
  BY <1>1, <1>2 DEF Init, IInv, Exclusive, InUseIffHeld, WorkConserving,
    WaitersAreBlocked, Holds

\* One lemma per action, for the actions that move a slot.
LEMMA BorrowFreeStep ==
  ASSUME IInv, NEW c \in Clients, BorrowFree(c)
  PROVE  IInv'
<1> USE DEF IInv
<1>1. PICK s \in Slots : /\ FirstFree(s)
                         /\ inUse' = [inUse EXCEPT ![s] = TRUE]
                         /\ pc' = [pc EXCEPT ![c] = "holding"]
                         /\ lease' = [lease EXCEPT ![c] = s]
  BY DEF BorrowFree
<1>2. pc[c] = "idle" /\ UNCHANGED <<kind, waiters, phase>>
  BY DEF BorrowFree
<1>3. TypeOK'
  BY <1>1, <1>2 DEF TypeOK, Objects
<1>4. waiters = <<>>
  BY <1>1 DEF WorkConserving, NoneFree, FirstFree
<1>5. \A d \in Clients : ~Holds(d, s)
  BY <1>1 DEF InUseIffHeld, FirstFree
<1>6. \A d \in Clients, t \in Slots :
        Holds(d, t)' <=> (d # c /\ Holds(d, t)) \/ (d = c /\ t = s)
  BY <1>1, <1>2 DEF Holds, TypeOK
<1>7. Exclusive'
  BY <1>5, <1>6 DEF Exclusive
<1>8. ~ \E t \in Slots : Holds(c, t)
  BY <1>2 DEF Holds
<1>9. InUseIffHeld'
  <2> SUFFICES ASSUME NEW t \in Slots
               PROVE  inUse'[t] <=> \E d \in Clients : Holds(d, t)'
    BY DEF InUseIffHeld, Holds
  <2>1. inUse'[t] <=> inUse[t] \/ t = s
    BY <1>1 DEF TypeOK
  <2> QED
    BY <2>1, <1>6, <1>8 DEF InUseIffHeld
<1>10. WorkConserving'
  BY <1>2, <1>4 DEF WorkConserving
<1>11. WaitersAreBlocked'
  BY <1>1, <1>2 DEF WaitersAreBlocked, Woken, TypeOK
<1> QED
  BY <1>3, <1>7, <1>9, <1>10, <1>11

LEMMA BorrowWaitStep ==
  ASSUME IInv, NEW c \in Clients, BorrowWait(c)
  PROVE  IInv'
<1> USE DEF IInv
<1>1. /\ pc[c] = "idle"
      /\ NoneFree
      /\ pc' = [pc EXCEPT ![c] = "waiting"]
      /\ waiters' = Append(waiters, c)
      /\ UNCHANGED <<kind, inUse, lease, phase>>
  BY DEF BorrowWait
<1>2. /\ waiters' \in Seq(Clients)
      /\ DOMAIN waiters' = 1..(Len(waiters) + 1)
      /\ DOMAIN waiters = 1..Len(waiters)
      /\ Len(waiters) \in Nat
      /\ \A i \in 1..Len(waiters) : waiters'[i] = waiters[i]
      /\ waiters'[Len(waiters) + 1] = c
  BY <1>1, AppendProperties, LenProperties DEF TypeOK
<1>3. TypeOK'
  BY <1>1, <1>2 DEF TypeOK
<1>4. \A d \in Clients, t \in Slots : Holds(d, t)' <=> Holds(d, t)
  BY <1>1 DEF Holds, TypeOK
<1>5. Exclusive' /\ InUseIffHeld'
  BY <1>1, <1>4 DEF Exclusive, InUseIffHeld
<1>6. WorkConserving'
  BY <1>1 DEF WorkConserving, NoneFree
<1>7. c \notin Woken
  BY <1>1 DEF WaitersAreBlocked
<1>8. Woken' = Woken \cup {c}
  BY <1>2 DEF Woken, Range
<1>9. \A i, j \in DOMAIN waiters' : waiters'[i] = waiters'[j] => i = j
  <2>1. \A i \in 1..Len(waiters) : waiters[i] # c
    BY <1>2, <1>7 DEF Woken, Range
  <2> QED
    BY <1>2, <2>1 DEF WaitersAreBlocked
<1>10. WaitersAreBlocked'
  BY <1>1, <1>8, <1>9 DEF WaitersAreBlocked, TypeOK
<1> QED
  BY <1>3, <1>5, <1>6, <1>10

LEMMA ReleaseStep ==
  ASSUME IInv, NEW c \in Clients, Release(c)
  PROVE  IInv'
<1> USE DEF IInv
<1>1. TypeOK'
  BY DEF Release, TypeOK
<1>2. \A d \in Clients, t \in Slots : Holds(d, t)' <=> Holds(d, t)
  BY DEF Release, Holds, TypeOK
<1>3. Exclusive' /\ InUseIffHeld'
  BY <1>2 DEF Release, Exclusive, InUseIffHeld
<1>4. WorkConserving' /\ WaitersAreBlocked'
  BY DEF Release, WorkConserving, NoneFree, WaitersAreBlocked, Woken, TypeOK
<1> QED
  BY <1>1, <1>3, <1>4

LEMMA GiveBackStep ==
  ASSUME IInv, NEW c \in Clients, GiveBack(c)
  PROVE  IInv'
<1> USE DEF IInv
<1>1. /\ pc[c] = "resetting"
      /\ waiters = <<>>
      /\ inUse' = FlagLowered(c)
      /\ pc' = [pc EXCEPT ![c] = "idle"]
      /\ lease' = [lease EXCEPT ![c] = Alias]
      /\ UNCHANGED <<kind, waiters, phase>>
  BY DEF GiveBack, Leave
<1>2. TypeOK'
  BY <1>1 DEF TypeOK, FlagLowered, Objects
<1>3. \A d \in Clients, t \in Slots : Holds(d, t)' <=> d # c /\ Holds(d, t)
  BY <1>1 DEF Holds, TypeOK
<1>4. Exclusive'
  BY <1>3 DEF Exclusive
<1>5. InUseIffHeld'
  <2> SUFFICES ASSUME NEW t \in Slots
               PROVE  inUse'[t] <=> \E d \in Clients : Holds(d, t)'
    BY DEF InUseIffHeld, Holds
  <2>1. CASE t = lease[c]
    <3>1. Holds(c, t)
      BY <1>1, <2>1 DEF Holds
    <3>2. ~ inUse'[t]
      BY <1>1, <2>1 DEF FlagLowered
    <3> QED
      BY <3>1, <3>2, <1>3 DEF Exclusive
  <2>2. CASE t # lease[c]
    <3>1. ~ Holds(c, t)
      BY <2>2 DEF Holds
    <3>2. inUse'[t] <=> inUse[t]
      BY <1>1, <2>2 DEF FlagLowered, TypeOK
    <3> QED
      BY <3>1, <3>2, <1>3 DEF InUseIffHeld
  <2> QED
    BY <2>1, <2>2
<1>6. WorkConserving' /\ WaitersAreBlocked'
  BY <1>1 DEF WorkConserving, WaitersAreBlocked, Woken, TypeOK
<1> QED
  BY <1>2, <1>4, <1>5, <1>6

LEMMA HandOverStep ==
  ASSUME IInv, NEW c \in Clients, HandOver(c)
  PROVE  IInv'
<1> DEFINE w == Head(waiters)
<1> USE DEF IInv
<1>1. /\ pc[c] = "resetting"
      /\ waiters # <<>>
      /\ waiters' = Tail(waiters)
      /\ pc' = [pc EXCEPT ![c] = "idle", ![w] = "holding"]
      /\ lease' = [lease EXCEPT ![c] = Alias, ![w] = lease[c]]
      /\ UNCHANGED <<kind, inUse, phase>>
  BY DEF HandOver, PassTo
<1>2. w \in Clients /\ pc[w] = "waiting" /\ w # c
  BY <1>1, ShiftWaiters, WokenAfterShift
<1>3. TypeOK'
  BY <1>1, <1>2, ShiftWaiters DEF TypeOK, Objects
<1>4. \A d \in Clients, t \in Slots :
        Holds(d, t)' <=> (d \notin {c, w} /\ Holds(d, t)) \/ (d = w /\ Holds(c, t))
  BY <1>1, <1>2 DEF Holds, TypeOK
<1>5. \A t \in Slots : ~ Holds(w, t)
  BY <1>2 DEF Holds
<1>6. Exclusive' /\ InUseIffHeld'
  BY <1>1, <1>2, <1>4, <1>5 DEF Exclusive, InUseIffHeld
<1>7. WorkConserving'
  BY <1>1 DEF WorkConserving, NoneFree
<1>8. Woken' = Woken \ {w}
  BY <1>1, WokenAfterShift DEF Woken
<1>9. WaitersAreBlocked'
  BY <1>1, <1>2, <1>8, WokenAfterShift DEF WaitersAreBlocked, TypeOK
<1> QED
  BY <1>3, <1>6, <1>7, <1>9

LEMMA StopStep ==
  ASSUME IInv, Stop
  PROVE  IInv'
<1> USE DEF IInv
<1>1. CASE StopCore
  <2>1. TypeOK'
    BY <1>1 DEF StopCore, TypeOK
  <2>2. \A d \in Clients, t \in Slots : Holds(d, t)' <=> Holds(d, t)
    BY <1>1 DEF StopCore, Holds, TypeOK, WaitersAreBlocked
  <2>3. Exclusive' /\ InUseIffHeld'
    BY <1>1, <2>2 DEF StopCore, Exclusive, InUseIffHeld
  <2>4. Woken' = {}
    BY <1>1 DEF StopCore, Woken, Range
  <2>5. WaitersAreBlocked'
    BY <1>1, <2>4 DEF StopCore, WaitersAreBlocked, TypeOK
  <2> QED
    BY <1>1, <2>1, <2>3, <2>5 DEF StopCore, WorkConserving
<1>2. CASE StopAnvil
  <2>1. TypeOK'
    BY <1>2 DEF StopAnvil, WakeAllWith, TypeOK, Objects
  <2>2. \A d \in Clients, t \in Slots : Holds(d, t)' <=> Holds(d, t)
    BY <1>2 DEF StopAnvil, WakeAllWith, Holds, TypeOK, WaitersAreBlocked,
      Alias, Slots
  <2>3. Exclusive' /\ InUseIffHeld'
    BY <1>2, <2>2 DEF StopAnvil, WakeAllWith, Exclusive, InUseIffHeld
  <2>4. Woken' = {}
    BY <1>2 DEF StopAnvil, WakeAllWith, Woken, Range
  <2>5. WaitersAreBlocked'
    BY <1>2, <2>4 DEF StopAnvil, WakeAllWith, WaitersAreBlocked, TypeOK
  <2> QED
    BY <1>2, <2>1, <2>3, <2>5 DEF StopAnvil, WakeAllWith, WorkConserving
<1>3. CASE StopAnvilThrows
  <2> DEFINE w == Head(waiters)
  <2>1. /\ waiters # <<>>
        /\ waiters' = Tail(waiters)
        /\ pc' = [pc EXCEPT ![w] = "abandoned"]
        /\ UNCHANGED <<kind, inUse, lease, phase>>
    BY <1>3 DEF StopAnvilThrows
  <2>2. w \in Clients /\ pc[w] = "waiting"
    BY <2>1, ShiftWaiters, WokenAfterShift
  <2>3. TypeOK'
    BY <2>1, <2>2, ShiftWaiters DEF TypeOK
  <2>4. \A d \in Clients, t \in Slots : Holds(d, t)' <=> Holds(d, t)
    BY <2>1, <2>2 DEF Holds, TypeOK
  <2>5. Exclusive' /\ InUseIffHeld'
    BY <2>1, <2>4 DEF Exclusive, InUseIffHeld
  <2>6. Woken' = Woken \ {w}
    BY <2>1, WokenAfterShift DEF Woken
  <2>7. WaitersAreBlocked'
    BY <2>1, <2>2, <2>6, WokenAfterShift DEF WaitersAreBlocked, TypeOK
  <2> QED
    BY <2>1, <2>3, <2>5, <2>7 DEF WorkConserving, NoneFree
<1> QED
  BY <1>1, <1>2, <1>3 DEF Stop

LEMMA StopSettlesStep ==
  ASSUME IInv, NEW ok \in BOOLEAN, StopSettles(ok)
  PROVE  IInv'
<1> USE DEF IInv
<1>1. TypeOK'
  BY DEF StopSettles, TypeOK
<1>2. Exclusive' /\ InUseIffHeld'
  BY DEF StopSettles, Exclusive, InUseIffHeld, Holds
<1>3. WorkConserving' /\ WaitersAreBlocked'
  BY DEF StopSettles, WorkConserving, NoneFree, WaitersAreBlocked, Woken
<1> QED
  BY <1>1, <1>2, <1>3

LEMMA NextIInv == IInv /\ [Next]_vars => IInv'
<1> SUFFICES ASSUME IInv, [Next]_vars PROVE IInv'
  OBVIOUS
<1>1. ASSUME NEW c \in Clients, ClientStep(c) PROVE IInv'
  BY <1>1, BorrowFreeStep, BorrowWaitStep, ReleaseStep, GiveBackStep, HandOverStep
    DEF ClientStep
<1>2. CASE Stop
  BY <1>2, StopStep
<1>3. ASSUME NEW ok \in BOOLEAN, StopSettles(ok) PROVE IInv'
  BY <1>3, StopSettlesStep
<1>4. CASE UNCHANGED vars
  BY <1>4 DEF vars, IInv, TypeOK, Exclusive, InUseIffHeld, WorkConserving,
    WaitersAreBlocked, Holds, NoneFree, Woken
<1> QED
  BY <1>1, <1>2, <1>3, <1>4 DEF Next

\* IInv holds in every reachable state, and with it each of its conjuncts.
THEOREM SpecIInv == Spec => []IInv
BY InitIInv, NextIInv, PTL DEF Spec

\* Types: leases are slots of the pool, and only clients wait.
THEOREM SpecTypeOK == Spec => []TypeOK
<1>1. IInv => TypeOK
  BY DEF IInv
<1> QED
  BY <1>1, SpecIInv, PTL

\* However many borrowers and slots: takeFree and the `finally` of release
\* never give a slot to a second client.
THEOREM SpecExclusive == Spec => []Exclusive
<1>1. IInv => Exclusive
  BY DEF IInv
<1> QED
  BY <1>1, SpecIInv, PTL

\* No slot leaks and none is free while used, also across stopAll.
THEOREM SpecInUseIffHeld == Spec => []InUseIffHeld
<1>1. IInv => InUseIffHeld
  BY DEF IInv
<1> QED
  BY <1>1, SpecIInv, PTL

\* No borrower waits next to a free slot.
THEOREM SpecWorkConserving == Spec => []WorkConserving
<1>1. IInv => WorkConserving
  BY DEF IInv
<1> QED
  BY <1>1, SpecIInv, PTL

\* The list of waiters is exactly the set of blocked borrowers.
THEOREM SpecWaitersAreBlocked == Spec => []WaitersAreBlocked
<1>1. IInv => WaitersAreBlocked
  BY DEF IInv
<1> QED
  BY <1>1, SpecIInv, PTL

\* Slots go to borrowers in the order of their calls.
THEOREM SpecNoBarging == Spec => NoBarging
<1> DEFINE Served(c) == pc[c] # "holding" /\ pc'[c] = "holding" /\ phase' # "stopping"
           InOrder == \A c \in Clients : Served(c) => waiters = <<>> \/ c = Head(waiters)
<1>1. IInv /\ [Next]_vars => InOrder
  <2> SUFFICES ASSUME IInv, [Next]_vars, NEW c \in Clients, Served(c)
               PROVE  waiters = <<>> \/ c = Head(waiters)
    OBVIOUS
  <2> USE DEF IInv
  <2>1. ASSUME NEW d \in Clients, BorrowFree(d) PROVE waiters = <<>>
    BY <2>1 DEF BorrowFree, WorkConserving, NoneFree, FirstFree
  <2>2. ASSUME NEW d \in Clients, HandOver(d) PROVE c = Head(waiters)
    BY <2>2, ShiftWaiters DEF HandOver, PassTo, TypeOK
  <2>3. ASSUME NEW d \in Clients, BorrowWait(d) \/ Release(d) \/ GiveBack(d) PROVE FALSE
    BY <2>3 DEF BorrowWait, Release, GiveBack, Leave, TypeOK
  <2>4. ASSUME Stop PROVE FALSE
    <3>1. CASE StopCore
      BY <3>1 DEF StopCore, TypeOK
    <3>2. CASE StopAnvil
      BY <3>2 DEF StopAnvil, WakeAllWith
    <3>3. CASE StopAnvilThrows
      BY <3>3 DEF StopAnvilThrows, TypeOK
    <3> QED
      BY <2>4, <3>1, <3>2, <3>3 DEF Stop
  <2>5. ASSUME NEW ok \in BOOLEAN, StopSettles(ok) PROVE FALSE
    BY <2>5 DEF StopSettles
  <2>6. CASE UNCHANGED vars
    BY <2>6 DEF vars
  <2> QED
    BY <2>1, <2>2, <2>3, <2>4, <2>5, <2>6 DEF Next, ClientStep
<1>2. [][InOrder]_vars => NoBarging
  BY PTL DEF NoBarging
<1> QED
  BY <1>1, <1>2, SpecIInv, PTL DEF Spec

\* A slot moves only from a client whose reset of it has settled.
THEOREM SpecResetBetweenLeases == Spec => ResetBetweenLeases
<1> DEFINE AfterReset ==
             \A s \in Slots : \A c, d \in Clients :
               Holds(c, s) /\ ~Holds(d, s) /\ Holds(d, s)' => pc[c] = "resetting"
<1>1. IInv /\ [Next]_vars => AfterReset
  <2> SUFFICES ASSUME IInv, [Next]_vars, NEW s \in Slots,
                      NEW c \in Clients, NEW d \in Clients,
                      Holds(c, s), ~Holds(d, s), Holds(d, s)'
               PROVE  pc[c] = "resetting"
    OBVIOUS
  <2> USE DEF IInv
  <2>1. ASSUME NEW e \in Clients, BorrowFree(e) PROVE FALSE
    <3>1. PICK t \in Slots : /\ ~inUse[t]
                             /\ pc' = [pc EXCEPT ![e] = "holding"]
                             /\ lease' = [lease EXCEPT ![e] = t]
      BY <2>1 DEF BorrowFree, FirstFree
    <3>2. t = s
      BY <3>1 DEF Holds, TypeOK
    <3> QED
      BY <3>1, <3>2 DEF InUseIffHeld
  <2>2. ASSUME NEW e \in Clients, HandOver(e) PROVE pc[c] = "resetting"
    <3>1. e # d /\ d = Head(waiters) /\ Holds(e, s)
      BY <2>2, ShiftWaiters, WokenAfterShift DEF HandOver, PassTo, TypeOK, Holds
    <3> QED
      BY <2>2, <3>1 DEF HandOver, Exclusive
  <2>3. ASSUME NEW e \in Clients, BorrowWait(e) \/ Release(e) \/ GiveBack(e) PROVE FALSE
    BY <2>3 DEF BorrowWait, Release, GiveBack, Leave, TypeOK, Holds, Alias
  <2>4. ASSUME Stop PROVE FALSE
    <3>1. CASE StopCore
      BY <3>1 DEF StopCore, TypeOK, Holds
    <3>2. CASE StopAnvil
      BY <3>2 DEF StopAnvil, WakeAllWith, TypeOK, Holds, Alias, Slots
    <3>3. CASE StopAnvilThrows
      BY <3>3, ShiftWaiters DEF StopAnvilThrows, TypeOK, Holds
    <3> QED
      BY <2>4, <3>1, <3>2, <3>3 DEF Stop
  <2>5. ASSUME NEW ok \in BOOLEAN, StopSettles(ok) PROVE FALSE
    BY <2>5 DEF StopSettles, Holds
  <2>6. CASE UNCHANGED vars
    BY <2>6 DEF vars, Holds
  <2> QED
    BY <2>1, <2>2, <2>3, <2>4, <2>5, <2>6 DEF Next, ClientStep
<1>2. [][AfterReset]_vars => ResetBetweenLeases
  BY PTL DEF ResetBetweenLeases
<1> QED
  BY <1>1, <1>2, SpecIInv, PTL DEF Spec

-----------------------------------------------------------------------------
\* Pool implements Semaphore.

\* An alias is leased only by the stopAll of the anvil pool.
AliasLate ==
  kind = "core" \/ phase = "open" =>
    \A c \in Clients : pc[c] \in {"holding", "resetting"} => lease[c] \in Slots

\* The clients inside and the slots in use are as many.
LEMMA Occupied ==
  ASSUME IInv
  PROVE  /\ IsFiniteSet(Inside) /\ Cardinality(Inside) \in Nat
         /\ Cardinality(Inside) <= Size
         /\ (\A s \in Slots : inUse[s]) => Cardinality(Inside) = Size
         /\ (\E s \in Slots : ~inUse[s]) => Cardinality(Inside) < Size
<1>1. Size \in Nat /\ IsFiniteSet(Slots) /\ Cardinality(Slots) = Size
  <2>1. Size \in Nat /\ 1 \in Int /\ Size \in Int
    BY PoolAssumption DEF PoolAssumption
  <2>2. IsFiniteSet(1..Size) /\ Cardinality(1..Size) = Size
    BY <2>1, FS_Interval
  <2> QED
    BY <2>1, <2>2 DEF Slots
<1>2. \A c \in Inside : c \in Clients /\ lease[c] \in Slots /\ Holds(c, lease[c])
  BY DEF Inside, Holds
<1>3. PICK f : f = [c \in Inside |-> lease[c]]
  OBVIOUS
<1>4. \A c, d \in Inside : f[c] = f[d] => c = d
  BY <1>2, <1>3 DEF IInv, Exclusive
<1>5. ASSUME NEW T, IsFiniteSet(T), \A c \in Inside : lease[c] \in T
      PROVE  IsFiniteSet(Inside) /\ Cardinality(Inside) <= Cardinality(T)
  <2>1. f \in [Inside -> T]
    BY <1>3, <1>5
  <2>2. f \in Injection(Inside, T)
    BY <1>4, <2>1 DEF Injection, IsInjective
  <2> QED
    BY <1>5, <2>2, FS_Injection
<1>6. IsFiniteSet(Inside) /\ Cardinality(Inside) <= Size
  BY <1>1, <1>2, <1>5
<1>7. Cardinality(Inside) \in Nat
  BY <1>6, FS_CardinalityType
<1>8. ASSUME \A s \in Slots : inUse[s] PROVE Cardinality(Inside) = Size
  <2>1. \A s \in Slots : \E c \in Inside : Holds(c, s)
    BY <1>8 DEF IInv, InUseIffHeld, Inside
  <2>2. PICK g : g = [s \in Slots |-> CHOOSE c \in Inside : Holds(c, s)]
    OBVIOUS
  <2>3. \A s \in Slots : g[s] \in Inside /\ Holds(g[s], s)
    BY <2>1, <2>2
  <2>4. \A s, t \in Slots : g[s] = g[t] => s = t
    BY <2>3 DEF Holds
  <2>5. g \in [Slots -> Inside]
    BY <2>2, <2>3
  <2>6. g \in Injection(Slots, Inside)
    BY <2>4, <2>5 DEF Injection, IsInjective
  <2>7. Size <= Cardinality(Inside)
    BY <1>1, <1>6, <2>6, FS_Injection
  <2> QED
    BY <1>1, <1>6, <1>7, <2>7
<1>9. ASSUME NEW s \in Slots, ~inUse[s] PROVE Cardinality(Inside) < Size
  <2>1. IsFiniteSet(Slots \ {s}) /\ Cardinality(Slots \ {s}) = Size - 1
    BY <1>1, FS_RemoveElement
  <2>2. \A c \in Inside : lease[c] \in Slots \ {s}
    BY <1>2, <1>9 DEF IInv, InUseIffHeld
  <2>3. Cardinality(Inside) <= Size - 1
    BY <1>5, <2>1, <2>2
  <2> QED
    BY <1>1, <1>7, <2>3
<1> QED
  BY <1>6, <1>7, <1>8, <1>9

\* The core pool leases its resources only, and so does either before stopAll.
LEMMA NextAliasLate ==
  ASSUME IInv, AliasLate, [Next]_vars
  PROVE  AliasLate'
<1> USE DEF IInv
<1>1. ASSUME NEW c \in Clients, BorrowFree(c) PROVE AliasLate'
  <2>1. PICK s \in Slots : /\ pc' = [pc EXCEPT ![c] = "holding"]
                           /\ lease' = [lease EXCEPT ![c] = s]
    BY <1>1 DEF BorrowFree
  <2> QED
    BY <1>1, <2>1 DEF BorrowFree, AliasLate, TypeOK
<1>2. ASSUME NEW c \in Clients, BorrowWait(c) \/ Release(c) \/ GiveBack(c) PROVE AliasLate'
  BY <1>2 DEF BorrowWait, Release, GiveBack, Leave, AliasLate, TypeOK
<1>3. ASSUME NEW c \in Clients, HandOver(c) PROVE AliasLate'
  <2>1. Head(waiters) \in Clients
    BY <1>3, ShiftWaiters DEF HandOver, PassTo
  <2> QED
    BY <1>3, <2>1 DEF HandOver, PassTo, AliasLate, TypeOK
<1>4. CASE Stop
  <2>1. CASE StopCore
    BY <2>1 DEF StopCore, AliasLate, TypeOK
  <2>2. CASE StopAnvil
    BY <2>2 DEF StopAnvil, WakeAllWith, AliasLate, TypeOK
  <2>3. CASE StopAnvilThrows
    BY <2>3 DEF StopAnvilThrows, AliasLate, TypeOK
  <2> QED
    BY <1>4, <2>1, <2>2, <2>3 DEF Stop
<1>5. ASSUME NEW ok \in BOOLEAN, StopSettles(ok) PROVE AliasLate'
  BY <1>5 DEF StopSettles, AliasLate, TypeOK
<1>6. CASE UNCHANGED vars
  BY <1>6 DEF vars, AliasLate
<1> QED
  BY <1>1, <1>2, <1>3, <1>4, <1>5, <1>6 DEF Next, ClientStep

\* Who is inside after a step.
LEMMA InsideAfter ==
  ASSUME NEW S \in SUBSET Clients,
         \A d \in Clients : (\E s \in Slots : Holds(d, s)') <=> d \in S
  PROVE  Inside' = S
BY DEF Inside, Holds

LEMMA InsideStays ==
  ASSUME \A d \in Clients, s \in Slots : Holds(d, s)' <=> Holds(d, s)
  PROVE  Inside' = Inside
<1>1. PICK S \in SUBSET Clients : S = Inside
  BY DEF Inside
<1>2. \A d \in Clients : (\E s \in Slots : Holds(d, s)') <=> d \in S
  BY <1>1 DEF Inside
<1> QED
  BY <1>1, <1>2, InsideAfter

\* The semaphore counts as the pool does: its module brings the library's
\* Cardinality along under a name of its own.
LEMMA SameCount ==
  ASSUME NEW S
  PROVE  FairSemaphore!Cardinality(S) = Cardinality(S)
BY DEF FairSemaphore!Cardinality, Cardinality

LEMMA BorrowFreeEnters ==
  ASSUME IInv, NEW c \in Clients, BorrowFree(c)
  PROVE  FairSemaphore!Next
<1> USE DEF IInv
<1>1. PICK s \in Slots : /\ ~inUse[s] /\ phase # "closed"
                         /\ pc' = [pc EXCEPT ![c] = "holding"]
                         /\ lease' = [lease EXCEPT ![c] = s]
                         /\ UNCHANGED <<waiters, phase>>
                         /\ pc[c] = "idle"
  BY DEF BorrowFree, FirstFree
<1>2. waiters = <<>>
  BY <1>1 DEF WorkConserving, NoneFree
<1>3. c \notin Inside
  BY <1>1 DEF Inside, Holds
<1>4. \A d \in Clients, t \in Slots :
        Holds(d, t)' <=> (d # c /\ Holds(d, t)) \/ (d = c /\ t = s)
  BY <1>1 DEF Holds, TypeOK
<1>5. Inside' = Inside \cup {c}
  <2>1. PICK S \in SUBSET Clients : S = Inside \cup {c}
    BY DEF Inside
  <2>2. \A d \in Clients : (\E t \in Slots : Holds(d, t)') <=> d \in S
    BY <1>3, <1>4, <2>1 DEF Inside
  <2> QED
    BY <2>1, <2>2, InsideAfter
<1>6. Cardinality(Inside) < Size
  BY <1>1, Occupied
<1>7. Stage # "closed" /\ Stage' = Stage
  BY <1>1 DEF Stage
<1>8. FairSemaphore!Enter(c)
  BY <1>1, <1>2, <1>3, <1>5, <1>6, <1>7, SameCount DEF FairSemaphore!Enter
<1> QED
  BY <1>8 DEF FairSemaphore!Next

LEMMA BorrowWaitWaits ==
  ASSUME IInv, NEW c \in Clients, BorrowWait(c)
  PROVE  FairSemaphore!Next
<1> USE DEF IInv
<1>1. /\ pc[c] = "idle"
      /\ NoneFree
      /\ pc' = [pc EXCEPT ![c] = "waiting"]
      /\ waiters' = Append(waiters, c)
      /\ UNCHANGED <<kind, inUse, lease, phase>>
  BY DEF BorrowWait
<1>2. \A d \in Clients, s \in Slots : Holds(d, s)' <=> Holds(d, s)
  BY <1>1 DEF Holds, TypeOK
<1>3. Inside' = Inside
  BY <1>2, InsideStays
<1>4. c \notin Inside
  BY <1>1 DEF Inside, Holds
<1>5. ~FairSemaphore!InLine(c)
  <2>1. c \notin Woken
    BY <1>1 DEF WaitersAreBlocked
  <2> QED
    BY <2>1 DEF FairSemaphore!InLine, Woken, Range
<1>6. Stage = "closed" \/ Cardinality(Inside) = Size
  BY <1>1, Occupied DEF NoneFree, Stage
<1>7. Stage' = Stage
  BY <1>1 DEF Stage
<1>8. FairSemaphore!Wait(c)
  BY <1>1, <1>3, <1>4, <1>5, <1>6, <1>7, SameCount DEF FairSemaphore!Wait
<1> QED
  BY <1>8 DEF FairSemaphore!Next

\* Whoever gives back an alias is not inside, and nothing happens inside.
LEMMA GiveBackLeaves ==
  ASSUME IInv, NEW c \in Clients, GiveBack(c)
  PROVE  [FairSemaphore!Next]_(FairSemaphore!semVars)
<1> USE DEF IInv
<1>1. /\ pc[c] = "resetting" /\ waiters = <<>>
      /\ pc' = [pc EXCEPT ![c] = "idle"]
      /\ lease' = [lease EXCEPT ![c] = Alias]
      /\ UNCHANGED <<waiters, phase>>
  BY DEF GiveBack, Leave
<1>2. \A d \in Clients, t \in Slots : Holds(d, t)' <=> d # c /\ Holds(d, t)
  BY <1>1 DEF Holds, TypeOK
<1>3. Inside' = Inside \ {c}
  <2>1. PICK S \in SUBSET Clients : S = Inside \ {c}
    BY DEF Inside
  <2>2. \A d \in Clients : (\E t \in Slots : Holds(d, t)') <=> d \in S
    BY <1>2, <2>1 DEF Inside
  <2> QED
    BY <2>1, <2>2, InsideAfter
<1>4. Stage' = Stage
  BY <1>1 DEF Stage
<1>5. CASE c \in Inside
  <2>1. FairSemaphore!Leave(c)
    BY <1>1, <1>3, <1>4, <1>5 DEF FairSemaphore!Leave
  <2> QED
    BY <2>1 DEF FairSemaphore!Next
<1>6. CASE c \notin Inside
  BY <1>1, <1>3, <1>4, <1>6 DEF FairSemaphore!semVars
<1> QED
  BY <1>5, <1>6

\* A slot goes to the head of the line; who is given an alias instead has left
\* the line for nothing, which does not happen before stopAll.
LEMMA HandOverLeaves ==
  ASSUME IInv, AliasLate, NEW c \in Clients, HandOver(c)
  PROVE  FairSemaphore!Next
<1> USE DEF IInv
<1>w. PICK w : w = Head(waiters)
  OBVIOUS
<1>1. /\ pc[c] = "resetting"
      /\ waiters # <<>>
      /\ waiters' = Tail(waiters)
      /\ pc' = [pc EXCEPT ![c] = "idle", ![w] = "holding"]
      /\ lease' = [lease EXCEPT ![c] = Alias, ![w] = lease[c]]
      /\ UNCHANGED <<kind, inUse, phase>>
  BY <1>w DEF HandOver, PassTo
<1>2. w \in Clients /\ pc[w] = "waiting" /\ w # c
  BY <1>1, <1>w, ShiftWaiters, WokenAfterShift
<1>3. \A d \in Clients, t \in Slots :
        Holds(d, t)' <=> (d \notin {c, w} /\ Holds(d, t)) \/ (d = w /\ Holds(c, t))
  BY <1>1, <1>2 DEF Holds, TypeOK
<1>4. w \notin Inside
  BY <1>2 DEF Inside, Holds
<1>5. Stage' = Stage
  BY <1>1 DEF Stage
<1>6. CASE c \in Inside
  <2>1. Inside' = (Inside \ {c}) \cup {w}
    <3>1. PICK S \in SUBSET Clients : S = (Inside \ {c}) \cup {w}
      BY <1>2 DEF Inside
    <3>2. \A d \in Clients : (\E t \in Slots : Holds(d, t)') <=> d \in S
      BY <1>2, <1>3, <1>6, <3>1 DEF Inside
    <3> QED
      BY <3>1, <3>2, InsideAfter
  <2>2. FairSemaphore!Leave(c)
    BY <1>w, <1>1, <1>5, <1>6, <2>1 DEF FairSemaphore!Leave
  <2> QED
    BY <2>2 DEF FairSemaphore!Next
<1>7. CASE c \notin Inside
  <2>1. \A t \in Slots : ~Holds(c, t) /\ ~Holds(w, t)
    BY <1>2, <1>4, <1>7 DEF Inside
  <2>2. Inside' = Inside
    BY <1>3, <2>1, InsideStays
  <2>3. Stage # "open"
    <3>1. lease[c] \notin Slots
      BY <1>1, <2>1 DEF Holds
    <3> QED
      BY <1>1, <3>1 DEF AliasLate, Stage
  <2>4. FairSemaphore!Drop
    BY <1>1, <1>5, <2>2, <2>3 DEF FairSemaphore!Drop
  <2> QED
    BY <2>4 DEF FairSemaphore!Next
<1> QED
  BY <1>6, <1>7

LEMMA StopCloses ==
  ASSUME IInv, Stop
  PROVE  FairSemaphore!Next
<1> USE DEF IInv
<1>1. CASE StopCore \/ StopAnvil
  <2>1. \A d \in Clients, t \in Slots : Holds(d, t)' <=> Holds(d, t)
    <3>1. CASE StopCore
      BY <3>1 DEF StopCore, Holds, TypeOK, WaitersAreBlocked
    <3>2. CASE StopAnvil
      BY <3>2 DEF StopAnvil, WakeAllWith, Holds, TypeOK, WaitersAreBlocked, Alias, Slots
    <3> QED
      BY <1>1, <3>1, <3>2
  <2>2. Inside' = Inside
    BY <2>1, InsideStays
  <2>3. waiters' = <<>>
    BY <1>1 DEF StopCore, StopAnvil, WakeAllWith
  <2>4. Stage' = IF Stage = "closed" THEN "closed" ELSE "closing"
    BY <1>1 DEF StopCore, StopAnvil, WakeAllWith, Stage
  <2>5. FairSemaphore!Close
    BY <2>2, <2>3, <2>4 DEF FairSemaphore!Close
  <2> QED
    BY <2>5 DEF FairSemaphore!Next
<1>2. CASE StopAnvilThrows
  <2>1. /\ phase = "closed" /\ waiters # <<>>
        /\ waiters' = Tail(waiters)
        /\ pc' = [pc EXCEPT ![Head(waiters)] = "abandoned"]
        /\ UNCHANGED <<kind, inUse, lease, phase>>
    BY <1>2 DEF StopAnvilThrows
  <2>2. Head(waiters) \in Clients /\ pc[Head(waiters)] = "waiting"
    BY <2>1, ShiftWaiters, WokenAfterShift
  <2>3. \A d \in Clients, t \in Slots : Holds(d, t)' <=> Holds(d, t)
    BY <2>1, <2>2 DEF Holds, TypeOK
  <2>4. Inside' = Inside
    BY <2>3, InsideStays
  <2>5. Stage' = Stage /\ Stage # "open"
    BY <2>1 DEF Stage
  <2>6. FairSemaphore!Drop
    BY <2>1, <2>4, <2>5 DEF FairSemaphore!Drop
  <2> QED
    BY <2>6 DEF FairSemaphore!Next
<1> QED
  BY <1>1, <1>2 DEF Stop

LEMMA QuietSteps ==
  ASSUME IInv,
         \/ \E c \in Clients : Release(c)
         \/ \E ok \in BOOLEAN : StopSettles(ok)
         \/ UNCHANGED vars
  PROVE  [FairSemaphore!Next]_(FairSemaphore!semVars)
<1> USE DEF IInv
<1>1. \A d \in Clients, t \in Slots : Holds(d, t)' <=> Holds(d, t)
  BY DEF Release, StopSettles, vars, Holds, TypeOK
<1>2. Inside' = Inside /\ waiters' = waiters
  BY <1>1, InsideStays DEF Release, StopSettles, vars
<1>3. CASE \E ok \in BOOLEAN : StopSettles(ok)
  <2>1. Stage = "closing" /\ Stage' \in {"closing", "closed"}
    BY <1>3 DEF StopSettles, Stage
  <2>2. CASE Stage' = "closed"
    <3>1. FairSemaphore!Shut
      BY <1>2, <2>1, <2>2 DEF FairSemaphore!Shut
    <3> QED
      BY <3>1 DEF FairSemaphore!Next
  <2>3. CASE Stage' = "closing"
    BY <1>2, <2>1, <2>3 DEF FairSemaphore!semVars
  <2> QED
    BY <2>1, <2>2, <2>3
<1>4. CASE (\E c \in Clients : Release(c)) \/ UNCHANGED vars
  <2>1. Stage' = Stage
    BY <1>4 DEF Release, vars, Stage
  <2> QED
    BY <1>2, <2>1 DEF FairSemaphore!semVars
<1> QED
  BY <1>3, <1>4

LEMMA NextImplements ==
  ASSUME IInv, AliasLate, [Next]_vars
  PROVE  [FairSemaphore!Next]_(FairSemaphore!semVars)
<1>1. ASSUME NEW c \in Clients, ClientStep(c)
      PROVE  [FairSemaphore!Next]_(FairSemaphore!semVars)
  BY <1>1, BorrowFreeEnters, BorrowWaitWaits, GiveBackLeaves, HandOverLeaves, QuietSteps
  DEF ClientStep
<1> QED
  BY <1>1, StopCloses, QuietSteps DEF Next

LEMMA InitImplements == Init => AliasLate /\ FairSemaphore!Init
<1> SUFFICES ASSUME Init PROVE AliasLate /\ FairSemaphore!Init
  OBVIOUS
<1>1. AliasLate
  BY DEF Init, AliasLate
<1>2. Inside = {} /\ waiters = <<>> /\ Stage = "open"
  BY DEF Init, Inside, Holds, Stage
<1> QED
  BY <1>1, <1>2 DEF FairSemaphore!Init

\* With any number of borrowers and resources both pools are counting
\* semaphores with a first-come first-served line: borrow() is let in only past
\* nobody and while a resource is free, release() passes its permit to the head
\* of the line, and only stopAll() sends anyone away.
THEOREM SpecImplementsSemaphore == Spec => ImplementsSemaphore
BY InitIInv, NextIInv, InitImplements, NextAliasLate, NextImplements, PTL
DEF Spec, ImplementsSemaphore, FairSemaphore!Spec

\* No more than `size` borrowers have a resource at a time, and if not all
\* resources are out, one is free for the next to take.
THEOREM SpecAtMostSize ==
  Spec => [](/\ Cardinality(Inside) <= Size
             /\ Cardinality(Inside) < Size => \E s \in Slots : ~inUse[s])
<1>1. IInv => /\ Cardinality(Inside) <= Size
              /\ Cardinality(Inside) < Size => \E s \in Slots : ~inUse[s]
  <2> SUFFICES ASSUME IInv
               PROVE  /\ Cardinality(Inside) <= Size
                      /\ Cardinality(Inside) < Size => \E s \in Slots : ~inUse[s]
    OBVIOUS
  <2>1. Size \in Nat
    BY PoolAssumption DEF PoolAssumption
  <2> QED
    BY <2>1, Occupied
<1> QED
  BY <1>1, SpecIInv, PTL

\* The alias that the anvil pool makes up is nobody's lease before stopAll(),
\* and the core pool has none: each lease is one of the resources.
THEOREM SpecAliasLate == Spec => []AliasLate
BY InitIInv, NextIInv, InitImplements, NextAliasLate, PTL DEF Spec
=============================================================================
