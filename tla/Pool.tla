-------------------------------- MODULE Pool --------------------------------
(***************************************************************************)
(* The borrow/release pool of expensive resources: createPool of           *)
(* packages/core/src/pool.ts, and its copy createAnvilPool of              *)
(* packages/dapp/src/anvil-pool.ts.  The two differ only in stopAll: the   *)
(* core pool forgets the borrowers that wait, the anvil pool wakes each of *)
(* them with a fresh slot object that aliases the first anvil.             *)
(*                                                                         *)
(* JavaScript runs to completion between awaits, so an action is the code  *)
(* from one await to the next.  A client is a test that borrows, uses and  *)
(* releases; it calls release once per lease.                              *)
(***************************************************************************)
EXTENDS Integers, Sequences, SequencesExt, Functions

CONSTANTS
  Clients,  \* the concurrent borrowers
  Size      \* number of resources, opts.size

ASSUME PoolAssumption == Size \in Nat \ {0}

Slots == 1..Size          \* entries of the array `slots`, in its order
Alias == 0                \* the slot object anvil's stopAll makes up
Objects == Slots \cup {Alias}

VARIABLES
  kind,     \* "core" or "anvil": which of the two pools this is
  inUse,    \* inUse[s]: the flag of slot s
  waiters,  \* borrowers whose promise is pending, oldest first
  pc,       \* what each client is doing
  lease,    \* the slot object a client holds or is giving back
  phase     \* "open", "stopping", "stopFailed" or "closed" (slots emptied)

vars == <<kind, inUse, waiters, pc, lease, phase>>

TypeOK ==
  /\ kind \in {"core", "anvil"}
  /\ inUse \in [Slots -> BOOLEAN]
  /\ waiters \in Seq(Clients)
  /\ pc \in [Clients -> {"idle", "waiting", "holding", "resetting", "abandoned"}]
  /\ lease \in [Clients -> Objects]
  /\ phase \in {"open", "stopping", "stopFailed", "closed"}

\* All resources have been acquired and no slot is in use.
Init ==
  /\ kind \in {"core", "anvil"}
  /\ inUse = [s \in Slots |-> FALSE]
  /\ waiters = <<>>
  /\ pc = [c \in Clients |-> "idle"]
  /\ lease = [c \in Clients |-> Alias]
  /\ phase = "open"

-----------------------------------------------------------------------------
\* Client c has object o in its hands, or is still resetting it.
Holds(c, o) == pc[c] \in {"holding", "resetting"} /\ lease[c] = o

\* takeFree finds nothing: every slot is taken, or the array is empty.
NoneFree == phase = "closed" \/ \A s \in Slots : inUse[s]

\* takeFree returns slot s, the first one whose flag is down.
FirstFree(s) ==
  /\ phase # "closed"
  /\ ~inUse[s]
  /\ \A t \in Slots : t < s => inUse[t]

\* borrow() when a slot is free: it is taken in the same turn.
BorrowFree(c) ==
  /\ pc[c] = "idle"
  /\ \E s \in Slots :
       /\ FirstFree(s)
       /\ inUse' = [inUse EXCEPT ![s] = TRUE]
       /\ pc' = [pc EXCEPT ![c] = "holding"]
       /\ lease' = [lease EXCEPT ![c] = s]
  /\ UNCHANGED <<kind, waiters, phase>>

\* Mutated BorrowWait: the newest borrower goes to the front of the list.
BorrowWaitInFront(c) ==
  /\ pc[c] = "idle"
  /\ NoneFree
  /\ pc' = [pc EXCEPT ![c] = "waiting"]
  /\ waiters' = <<c>> \o waiters
  /\ UNCHANGED <<kind, inUse, lease, phase>>

\* borrow() when nothing is free: the resolver of its promise is queued.
BorrowWait(c) ==
  /\ pc[c] = "idle"
  /\ NoneFree
  /\ pc' = [pc EXCEPT ![c] = "waiting"]
  /\ waiters' = Append(waiters, c)
  /\ UNCHANGED <<kind, inUse, lease, phase>>

\* `slot.inUse = false` for the slot that c gives back; nothing reads the flag
\* of an alias.
FlagLowered(c) == [s \in Slots |-> inUse[s] /\ s # lease[c]]

\* Mutated Release: the flag goes down before the reset is awaited.
ReleaseFlagFirst(c) ==
  /\ pc[c] = "holding"
  /\ inUse' = FlagLowered(c)
  /\ pc' = [pc EXCEPT ![c] = "resetting"]
  /\ UNCHANGED <<kind, waiters, lease, phase>>

\* lease.release() up to its await: reset starts, the slot stays in use.
Release(c) ==
  /\ pc[c] = "holding"
  /\ pc' = [pc EXCEPT ![c] = "resetting"]
  /\ UNCHANGED <<kind, inUse, waiters, lease, phase>>

\* c has given its slot back and takes no other.
Leave(c) ==
  /\ pc[c] = "resetting"
  /\ pc' = [pc EXCEPT ![c] = "idle"]
  /\ lease' = [lease EXCEPT ![c] = Alias]
  /\ UNCHANGED <<kind, waiters, phase>>

\* Mutated GiveBack: the code after the reset is not in a `finally`.
GiveBackNoFinally(c) == waiters = <<>> /\ Leave(c) /\ inUse' \in {inUse, FlagLowered(c)}

\* Mutated GiveBack: nobody looks at the waiters.
GiveBackNoWake(c) == Leave(c) /\ inUse' = FlagLowered(c)

\* The `finally` of release once the reset has settled, be it rejected, and
\* nobody waits: the flag goes down.
GiveBack(c) == waiters = <<>> /\ Leave(c) /\ inUse' = FlagLowered(c)

\* The slot object of c, reset or not, becomes the lease of the waiter w.
PassTo(c, w, rest) ==
  /\ waiters # <<>>
  /\ waiters' = rest
  /\ pc' = [pc EXCEPT ![c] = "idle", ![w] = "holding"]
  /\ lease' = [lease EXCEPT ![c] = Alias, ![w] = lease[c]]
  /\ UNCHANGED <<kind, inUse, phase>>

\* Mutated HandOver: the reset is not awaited; the newest waiter is popped.
HandOverNoAwait(c) == pc[c] = "holding" /\ PassTo(c, Head(waiters), Tail(waiters))
HandOverPop(c) == pc[c] = "resetting" /\ PassTo(c, Last(waiters), Front(waiters))

\* The same `finally` when somebody waits: the slot goes to the oldest waiter,
\* whether the reset succeeded or not.
HandOver(c) == pc[c] = "resetting" /\ PassTo(c, Head(waiters), Tail(waiters))

-----------------------------------------------------------------------------
Woken == Range(waiters)

\* stopAll() of the core pool up to its await: the waiters are dropped, and
\* their promises never settle.  (Calls of stopAll do not overlap here.)  When
\* the array is empty already there is nothing left to await.
StopCore ==
  /\ kind = "core"
  /\ phase # "stopping"
  /\ waiters' = <<>>
  /\ pc' = [c \in Clients |-> IF c \in Woken THEN "abandoned" ELSE pc[c]]
  /\ phase' = IF phase = "closed" THEN "closed" ELSE "stopping"
  /\ UNCHANGED <<kind, inUse, lease>>

\* Every waiter is resolved with object o, and the teardowns start.
WakeAllWith(o) ==
  /\ kind = "anvil"
  /\ phase \in {"open", "stopFailed"}
  /\ waiters' = <<>>
  /\ pc' = [c \in Clients |-> IF c \in Woken THEN "holding" ELSE pc[c]]
  /\ lease' = [c \in Clients |-> IF c \in Woken THEN o ELSE lease[c]]
  /\ phase' = "stopping"
  /\ UNCHANGED <<kind, inUse>>

\* Mutated StopAnvil: slots[slots.length] instead of a copy of slots[0].
StopAnvilPastEnd == WakeAllWith(Size + 1)

\* stopAll() of the anvil pool up to its await: each waiter is woken with an
\* alias of the first anvil.  (On a closed pool where nobody waits the call
\* changes nothing.)
StopAnvil == WakeAllWith(Alias)

\* stopAll() of an anvil pool that is already closed, with a borrower
\* waiting: slots[0] is undefined and the call rejects with a TypeError
\* after it has dropped the oldest waiter.
StopAnvilThrows ==
  /\ kind = "anvil"
  /\ phase = "closed"
  /\ waiters # <<>>
  /\ waiters' = Tail(waiters)
  /\ pc' = [pc EXCEPT ![Head(waiters)] = "abandoned"]
  /\ UNCHANGED <<kind, inUse, lease, phase>>

\* Every teardown has settled: the array of slots is emptied, unless a
\* teardown was rejected.
StopSettles(ok) ==
  /\ phase = "stopping"
  /\ phase' = IF ok THEN "closed" ELSE "stopFailed"
  /\ UNCHANGED <<kind, inUse, waiters, pc, lease>>

Stop == StopCore \/ StopAnvil \/ StopAnvilThrows

ClientStep(c) ==
  \/ BorrowFree(c)
  \/ BorrowWait(c)
  \/ Release(c)
  \/ GiveBack(c)
  \/ HandOver(c)

Next ==
  \/ \E c \in Clients : ClientStep(c)
  \/ Stop
  \/ \E ok \in BOOLEAN : StopSettles(ok)

Spec == Init /\ [][Next]_vars

\* Every lease is released in the end, and every reset and teardown settles.
Fairness ==
  /\ \A c \in Clients :
       /\ WF_vars(Release(c))
       /\ WF_vars(GiveBack(c) \/ HandOver(c))
  /\ WF_vars(\E ok \in BOOLEAN : StopSettles(ok))

FairSpec == Spec /\ Fairness

-----------------------------------------------------------------------------
\* A slot is never in the hands of two clients, neither while both use it nor
\* while one of them is still resetting it; pool.ts gives a slot away only
\* from takeFree and from the `finally` of release.
Exclusive ==
  \A s \in Slots : \A c, d \in Clients : Holds(c, s) /\ Holds(d, s) => c = d

\* The flag of a slot is up exactly while some client holds it or resets it:
\* no slot leaks when a reset rejects, and none is free while used.
InUseIffHeld ==
  \A s \in Slots : inUse[s] <=> \E c \in Clients : Holds(c, s)

\* A borrower waits only while every slot is taken: release never leaves a
\* free slot next to a waiting borrower.
WorkConserving ==
  waiters # <<>> => NoneFree

\* The clients blocked in borrow() are those in the list of waiters, each once:
\* no promise is resolved twice, and none that is still pending is forgotten.
WaitersAreBlocked ==
  /\ \A c \in Clients : pc[c] = "waiting" <=> c \in Woken
  /\ \A i, j \in DOMAIN waiters : waiters[i] = waiters[j] => i = j

\* A slot changes hands only from a client whose reset of it has settled:
\* nobody gets a resource while its last user still uses it, nor before a
\* reset was tried (the reset may have failed: pool.ts:43 is a `finally`).
ResetBetweenLeases ==
  [][\A s \in Slots : \A c, d \in Clients :
       Holds(c, s) /\ ~Holds(d, s) /\ Holds(d, s)' => pc[c] = "resetting"]_vars

\* Slots go to borrowers in the order of their calls: one that comes later
\* never takes a slot past one that waits (T-POOL-013).
NoBarging ==
  [][\A c \in Clients :
       pc[c] # "holding" /\ pc'[c] = "holding" /\ phase' # "stopping"
         => waiters = <<>> \/ c = Head(waiters)]_vars

\* A borrower that waits in an open pool gets a slot in the end, if leases are
\* released and resets settle; stopAll may take that away in the core pool
\* only, where the promise of a waiting borrower then stays pending.
WaiterSettles ==
  \A c \in Clients :
    pc[c] = "waiting" /\ phase = "open" ~>
      \/ pc[c] = "holding"
      \/ kind = "core" /\ pc[c] = "abandoned"

-----------------------------------------------------------------------------
\* The clients that have one of the resources.  An alias is none.
Inside == {c \in Clients : \E s \in Slots : Holds(c, s)}

Stage == IF phase \in {"open", "closed"} THEN phase ELSE "closing"

FairSemaphore == INSTANCE Semaphore WITH
  Permits <- Size, inside <- Inside, line <- waiters, stage <- Stage

\* A pool is a counting semaphore that serves its borrowers first come, first
\* served: T-POOL-013, and the `size` of createPool.
ImplementsSemaphore == FairSemaphore!Spec
=============================================================================
