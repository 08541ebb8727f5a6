---------------------------- MODULE KeyDBProofs ----------------------------
(***************************************************************************)
(* What holds of the in-process KeyDB for any masters, keys, subscriptions *)
(* and calls, with and without a lag.                                      *)
(***************************************************************************)
EXTENDS KeyDB, SequenceTheorems, TLAPS

\* What a master shows that holds version v.
Shown(v) == IF v = None \/ entry[v] = "over" THEN None ELSE v

\* The pending replications of key k come from one master and end in what
\* that master shows; without any, all masters show the same.
Replicated(k) ==
  /\ \A i, j \in PendingOf(k) : pending[i].from = pending[j].from
  /\ \A i \in PendingOf(k) : \A m \in Masters, v \in Nat :
       /\ ~stopped
       /\ \A j \in PendingOf(k) : j <= i
       /\ pending[i].from = m /\ pending[i].version = v
       => Visible(m, k) = Shown(v)
  /\ PendingOf(k) = {} => \A m, n \in Masters : Visible(m, k) = Visible(n, k)

Replicas == \A k \in Keys : k \notin raced => Replicated(k)

\* A subscription after n publishes: its messages are in order, what next()
\* has returned comes before what it has still to read, and until a next()
\* times out it has returned all that it has read.
Rising(q, n) ==
  /\ \A i \in DOMAIN q : q[i] \in 1..n
  /\ \A i, j \in DOMAIN q : i < j => q[i] < q[j]

InOrder(sub, n) ==
  /\ Rising(sub.history, n)
  /\ Rising(sub.got, n)
  /\ \A i \in DOMAIN sub.got, j \in DOMAIN sub.history :
       j > sub.cursor => sub.got[i] < sub.history[j]

Complete(sub) ==
  ~sub.timedOut =>
    /\ \A i \in DOMAIN sub.resolvers : sub.resolvers[i]
    /\ Len(sub.got) = sub.cursor
    /\ \A i \in DOMAIN sub.got : sub.got[i] = sub.history[i]
    /\ sub.resolvers # <<>> => sub.cursor = Len(sub.history)

SubOK(sub, n) ==
  /\ sub \in Slots
  /\ sub.cursor <= Len(sub.history)
  /\ InOrder(sub, n)
  /\ Complete(sub)

\* Whoever is open and was not evicted is in the Set that the Map has, and
\* has every message since it subscribed.
Heard(sub) ==
  sub.open /\ ~sub.evicted /\ ~stopped =>
    /\ channel # None
    /\ sub.home = channel
    /\ sub.since \in 0..published
    /\ Len(sub.history) = published - sub.since
    /\ \A i \in DOMAIN sub.history : sub.history[i] = sub.since + i

Subscriptions ==
  /\ published \in Nat
  /\ \A s \in DOMAIN slot : SubOK(slot[s], published) /\ Heard(slot[s])

StoreTypes ==
  /\ lag \in Lags
  /\ entry \in Seq({"forever", "timed", "over"})
  /\ store \in [Masters -> [Keys -> Versions \cup {None}]]
  /\ pending \in Seq([from : Masters, key : Keys, version : Versions \cup {None}])
  /\ pending # <<>> => lag
  /\ expiryTimer \in BOOLEAN
  /\ stopped => /\ \A m \in Masters, k \in Keys : store[m][k] = None
                /\ ~expiryTimer
  /\ raced \subseteq Keys

PubSubTypes ==
  /\ slot \in Seq(Slots)
  /\ channel \in 0..Len(slot)
  /\ stopped => channel = None

IInv ==
  /\ StoreTypes
  /\ PubSubTypes
  /\ Replicas
  /\ Subscriptions

-----------------------------------------------------------------------------
\* Stores and their replication.

LEMMA VersionsAreNumbers ==
  ASSUME StoreTypes
  PROVE  /\ Versions = 1..Len(entry)
         /\ Len(entry) \in Nat
         /\ None \notin Versions
BY LenProperties DEF StoreTypes, Versions, None

LEMMA PendingAt ==
  ASSUME StoreTypes, NEW i \in DOMAIN pending
  PROVE  /\ pending[i] \in [from : Masters, key : Keys, version : Versions \cup {None}]
         /\ pending[i].from \in Masters
         /\ pending[i].key \in Keys
         /\ pending[i].version \in Versions \cup {None}
         /\ i \in 1..Len(pending) /\ Len(pending) \in Nat
<1>1. pending[i] \in [from : Masters, key : Keys, version : Versions \cup {None}]
  BY ZenonT(60), ElementOfSeq, LenProperties DEF StoreTypes
<1>2. i \in 1..Len(pending) /\ Len(pending) \in Nat
  BY LenProperties DEF StoreTypes
<1> QED
  BY <1>1, <1>2

\* A key that no write touches: its pending replications stay, and what
\* masters show of it and what those replications bring become the same by
\* one function of versions.
LEMMA KeyStays ==
  ASSUME NEW k \in Keys, Replicated(k), StoreTypes, UNCHANGED <<pending, stopped>>,
         NEW v,
         \A m \in Masters : Visible(m, k)' = IF Visible(m, k) = v THEN None ELSE Visible(m, k),
         \A w \in Versions \cup {None} : Shown(w)' = IF Shown(w) = v THEN None ELSE Shown(w)
  PROVE  Replicated(k)'
<1>1. PendingOf(k)' = PendingOf(k)
  BY DEF PendingOf
<1>2. \A i \in PendingOf(k) : pending[i].from \in Masters /\ pending[i].version \in Versions \cup {None}
  BY PendingAt DEF PendingOf
<1>3. ASSUME NEW i \in PendingOf(k), NEW m \in Masters, NEW w \in Nat,
             ~stopped, \A j \in PendingOf(k) : j <= i,
             pending[i].from = m, pending[i].version = w
      PROVE  Visible(m, k)' = Shown(w)'
  BY <1>2, <1>3 DEF Replicated
<1>5. PendingOf(k) = {} => \A m, n \in Masters : Visible(m, k)' = Visible(n, k)'
  BY DEF Replicated
<1> QED
  BY <1>1, <1>3, <1>5 DEF Replicated

\* The write, or delete, of version v of key k on master m.
LEMMA ReplicateStores ==
  ASSUME StoreTypes, lag' = lag, stopped' = stopped, ~stopped,
         NEW m \in Masters, NEW k \in Keys, NEW v, v \in Versions' \cup {None},
         entry' \in Seq({"forever", "timed", "over"}),
         Versions \subseteq Versions', expiryTimer' \in BOOLEAN,
         Replicate(m, k, v)
  PROVE  /\ StoreTypes'
         /\ \A n \in Masters, l \in Keys :
              store'[n][l] = IF l = k /\ (~lag \/ n = m) THEN v ELSE store[n][l]
<1> DEFINE ms == IF lag THEN {m} ELSE Masters
<1>1. store' = [n \in Masters |-> IF n \in ms THEN [store[n] EXCEPT ![k] = v] ELSE store[n]]
  BY DEF Replicate, Stored
<1>2. \A n \in Masters : store[n] \in [Keys -> Versions' \cup {None}]
  BY DEF StoreTypes
<1>3. store' \in [Masters -> [Keys -> Versions' \cup {None}]]
  BY <1>1, <1>2
<1>4. \A n \in Masters, l \in Keys :
        store'[n][l] = IF l = k /\ (~lag \/ n = m) THEN v ELSE store[n][l]
  BY <1>1, <1>2
<1>5. /\ pending' \in Seq([from : Masters, key : Keys, version : Versions' \cup {None}])
      /\ pending' # <<>> => lag
  <2> DEFINE new == [from |-> m, key |-> k, version |-> v]
             T == [from : Masters, key : Keys, version : Versions' \cup {None}]
             U == [from : Masters, key : Keys, version : Versions \cup {None}]
  <2>1. new \in T
    OBVIOUS
  <2>2. U \subseteq T
    OBVIOUS
  <2>3. pending \in Seq(T)
    <3>1. pending \in Seq(U)
      BY DEF StoreTypes
    <3> HIDE DEF T, U
    <3> QED
      BY <2>2, <3>1, SeqMonotonic
  <2>4. pending' = IF lag THEN Append(pending, new) ELSE pending
    BY DEF Replicate
  <2> HIDE DEF T, new
  <2>5. Append(pending, new) \in Seq(T)
    BY <2>1, <2>3, AppendProperties
  <2>6. pending' \in Seq(T)
    BY <2>3, <2>4, <2>5
  <2>7. pending' # <<>> => lag
    BY <2>4 DEF StoreTypes
  <2> QED
    BY <2>6, <2>7 DEF T
<1>6. raced' \subseteq Keys
  BY DEF Replicate, Races, StoreTypes
<1>7. StoreTypes'
  BY <1>3, <1>5, <1>6 DEF StoreTypes
<1> QED
  BY <1>4, <1>7

LEMMA ReplicateReplicas ==
  ASSUME IInv, lag' = lag, stopped' = stopped, ~stopped,
         NEW m \in Masters, NEW k \in Keys, NEW v, v \in Versions' \cup {None},
         entry' \in Seq({"forever", "timed", "over"}),
         Versions \subseteq Versions', expiryTimer' \in BOOLEAN,
         \A w \in Versions : entry'[w] = entry[w],
         Replicate(m, k, v)
  PROVE  StoreTypes' /\ Replicas'
<1>1. /\ StoreTypes'
      /\ \A n \in Masters, l \in Keys :
           store'[n][l] = IF l = k /\ (~lag \/ n = m) THEN v ELSE store[n][l]
  BY ReplicateStores DEF IInv
<1>2. \A w \in Versions \cup {None} : Shown(w)' = Shown(w)
  BY DEF Shown
<1>3. \A n \in Masters, l \in Keys : store[n][l] \in Versions \cup {None}
  BY DEF IInv, StoreTypes
<1>4. \A n \in Masters, l \in Keys :
        ~(l = k /\ (~lag \/ n = m)) => Visible(n, l)' = Visible(n, l)
  BY <1>1, <1>2, <1>3 DEF Visible, Missing, Shown
<1>5. \A n \in Masters : ~lag \/ n = m => Visible(n, k)' = Shown(v)'
  BY <1>1 DEF Visible, Missing, Shown
<1>6. CASE ~lag
  <2>1. pending = <<>> /\ pending' = <<>> /\ DOMAIN pending = {} /\ DOMAIN pending' = {}
    BY <1>6, EmptySeq DEF IInv, StoreTypes, Replicate
  <2>2. \A l : PendingOf(l) = {} /\ PendingOf(l)' = {}
    BY <2>1 DEF PendingOf
  <2>3. raced' = raced \ {k}
    BY <2>2 DEF Replicate, Races
  <2> SUFFICES ASSUME NEW l \in Keys, l \notin raced' PROVE Replicated(l)'
    BY <1>1 DEF Replicas
  <2>4. CASE l = k
    BY <2>2, <2>4, <1>5, <1>6 DEF Replicated
  <2>5. CASE l # k
    BY <2>2, <2>3, <2>5, <1>4 DEF Replicated, IInv, Replicas
  <2> QED
    BY <2>4, <2>5
<1>7. CASE lag
  <2> DEFINE new == [from |-> m, key |-> k, version |-> v]
  <2>1. pending' = Append(pending, new)
    BY <1>7 DEF Replicate
  <2>2. PICK e : e = Len(pending) + 1
    OBVIOUS
  <2>3. /\ DOMAIN pending = 1..Len(pending) /\ Len(pending) \in Nat
        /\ DOMAIN pending' = 1..e
        /\ pending'[e] = new
        /\ \A i \in DOMAIN pending : pending'[i] = pending[i]
    BY <2>1, <2>2, AppendProperties, LenProperties DEF IInv, StoreTypes
  <2>4. PendingOf(k)' = PendingOf(k) \cup {e}
    BY <2>2, <2>3 DEF PendingOf
  <2>5. \A l : l # k => PendingOf(l)' = PendingOf(l)
    BY <2>2, <2>3 DEF PendingOf
  <2>6. \A l : \A i \in PendingOf(l) :
          i \in Nat /\ e \in Nat /\ ~(e <= i) /\ pending'[i] = pending[i]
    BY <2>2, <2>3 DEF PendingOf
  <2>7. \A l \in Keys : \A i \in PendingOf(l) :
          /\ pending[i].from \in Masters
          /\ pending[i].version \in Versions \cup {None}
    BY PendingAt DEF PendingOf, IInv
  <2> SUFFICES ASSUME NEW l \in Keys, l \notin raced' PROVE Replicated(l)'
    BY <1>1 DEF Replicas
  <2>8. CASE l = k
    <3>1. \A i \in PendingOf(k) : pending[i].from = m
      BY <2>8 DEF Replicate, Races
    <3>2. \A i \in PendingOf(k)' : pending'[i].from = m
      BY <3>1, <2>3, <2>4, <2>6
    <3>3. \A i \in PendingOf(k)' : (\A j \in PendingOf(k)' : j <= i) => i = e
      BY <2>2, <2>3, <2>4, <2>6
    <3>4. pending'[e].version = v /\ Visible(m, k)' = Shown(v)'
      BY <1>5, <2>3
    <3>5. PendingOf(k)' # {}
      BY <2>4
    <3> QED
      BY <2>8, <3>2, <3>3, <3>4, <3>5 DEF Replicated
  <2>9. CASE l # k
    <3>1. Replicated(l)
      BY <2>9 DEF IInv, Replicas, Replicate, Races
    <3>2. \A n \in Masters : Visible(n, l)' = Visible(n, l)
      BY <2>9, <1>4
    <3> QED
      BY <2>5, <2>6, <2>7, <2>9, <3>1, <3>2, <1>2 DEF Replicated
  <2> QED
    BY <2>8, <2>9
<1> QED
  BY <1>6, <1>7, <1>1 DEF IInv, StoreTypes, KeyDBAssumption

\* A step after which the masters show what they showed of every key, but that
\* version v, if any, is over.
LEMMA KeysStay ==
  ASSUME IInv, UNCHANGED <<pending, stopped, raced>>,
         NEW v,
         \A m \in Masters, k \in Keys :
           Visible(m, k)' = IF Visible(m, k) = v THEN None ELSE Visible(m, k),
         \A w \in Versions \cup {None} : Shown(w)' = IF Shown(w) = v THEN None ELSE Shown(w)
  PROVE  Replicas'
<1> SUFFICES ASSUME NEW k \in Keys, k \notin raced PROVE Replicated(k)'
  BY DEF Replicas
<1>1. Replicated(k) /\ StoreTypes
  BY DEF IInv, Replicas
<1>2. \A m \in Masters : Visible(m, k)' = IF Visible(m, k) = v THEN None ELSE Visible(m, k)
  OBVIOUS
<1> QED
  BY <1>1, <1>2, KeyStays

LEMMA GetStore ==
  ASSUME IInv, NEW m \in Masters, NEW k \in Keys, Get(m, k)
  PROVE  StoreTypes' /\ Replicas'
<1>1. /\ store' = [n \in Masters |-> IF n \in {m} THEN [store[n] EXCEPT ![k] = None] ELSE store[n]]
      /\ UNCHANGED <<lag, entry, pending, expiryTimer, raced, stopped>>
      /\ Missing(m, k)
      /\ ~stopped
  BY DEF Get, Stored
<1>2. \A n \in Masters : store[n] \in [Keys -> Versions \cup {None}]
  BY DEF IInv, StoreTypes
<1>3. \A n \in Masters, l \in Keys :
        store'[n][l] = IF n = m /\ l = k THEN None ELSE store[n][l]
  BY <1>1, <1>2
<1>4. store' \in [Masters -> [Keys -> Versions \cup {None}]]
  BY <1>1, <1>2
<1>5. StoreTypes'
  BY <1>1, <1>4 DEF IInv, StoreTypes, Versions
<1>6. \A n \in Masters, l \in Keys : Visible(n, l)' = Visible(n, l)
  BY <1>1, <1>3 DEF Visible, Missing
<1>7. \A w : Shown(w)' = Shown(w)
  BY <1>1 DEF Shown
<1> QED
  BY <1>1, <1>5, <1>6, <1>7, KeysStay

LEMMA ClockStore ==
  ASSUME IInv, NEW v \in Versions, Clock(v)
  PROVE  StoreTypes' /\ Replicas'
<1>1. /\ entry' = [entry EXCEPT ![v] = "over"]
      /\ entry[v] = "timed"
      /\ UNCHANGED <<lag, store, pending, expiryTimer, raced, stopped>>
  BY DEF Clock
<1>2. /\ entry' \in Seq({"forever", "timed", "over"})
      /\ DOMAIN entry' = DOMAIN entry
      /\ \A w \in Versions : entry'[w] = IF w = v THEN "over" ELSE entry[w]
  <2>1. v \in 1..Len(entry) /\ DOMAIN entry = 1..Len(entry)
    BY VersionsAreNumbers DEF IInv, Versions
  <2>2. entry \in Seq({"forever", "timed", "over"})
    BY DEF IInv, StoreTypes
  <2> QED
    BY <1>1, <2>1, <2>2, ExceptSeq DEF Versions
<1>3. StoreTypes'
  BY <1>1, <1>2 DEF IInv, StoreTypes, Versions
<1>4. None \notin Versions
  BY VersionsAreNumbers DEF IInv
<1>5. \A w \in Versions \cup {None} : Shown(w)' = IF Shown(w) = v THEN None ELSE Shown(w)
  BY <1>1, <1>2, <1>4 DEF Shown
<1>6. \A m \in Masters, k \in Keys : store[m][k] \in Versions \cup {None}
  BY DEF IInv, StoreTypes
<1>7. \A m \in Masters, k \in Keys :
        Visible(m, k)' = IF Visible(m, k) = v THEN None ELSE Visible(m, k)
  BY <1>1, <1>2, <1>4, <1>6 DEF Visible, Missing
<1> QED
  BY <1>1, <1>3, <1>5, <1>7, KeysStay

LEMMA ExpiryTickStore ==
  ASSUME IInv, ExpiryTick
  PROVE  StoreTypes' /\ Replicas'
<1>1. /\ store' = [m \in Masters |-> [k \in Keys |-> IF Missing(m, k) THEN None ELSE store[m][k]]]
      /\ expiryTimer /\ expiryTimer' \in BOOLEAN
      /\ UNCHANGED <<lag, entry, pending, raced, stopped>>
  BY DEF ExpiryTick, Rearms
<1>2. \A m \in Masters, k \in Keys :
        /\ store'[m][k] = IF Missing(m, k) THEN None ELSE store[m][k]
        /\ store[m][k] \in Versions \cup {None}
  BY <1>1 DEF IInv, StoreTypes
<1>3. store' \in [Masters -> [Keys -> Versions \cup {None}]]
  BY <1>1, <1>2
<1>4. StoreTypes'
  BY <1>1, <1>3 DEF IInv, StoreTypes, Versions
<1>5. \A m \in Masters, k \in Keys : Visible(m, k)' = Visible(m, k)
  BY <1>1, <1>2 DEF Visible, Missing
<1>6. \A w : Shown(w)' = Shown(w)
  BY <1>1 DEF Shown
<1> QED
  BY <1>1, <1>4, <1>5, <1>6, KeysStay

\* Stores that were emptied agree.
LEMMA Emptied ==
  ASSUME IInv, store' = [m \in Masters |-> [k \in Keys |-> None]],
         UNCHANGED <<lag, entry, pending>>, expiryTimer' \in BOOLEAN,
         stopped' => ~expiryTimer',
         raced' \subseteq Keys,
         \A k \in Keys : k \notin raced' => PendingOf(k) = {} \/ (stopped' /\ k \notin raced)
  PROVE  StoreTypes' /\ Replicas'
<1>1. StoreTypes'
  BY DEF IInv, StoreTypes, Versions
<1>2. \A m \in Masters, k \in Keys : Visible(m, k)' = None
  BY DEF Visible, Missing
<1>3. Replicas'
  <2> SUFFICES ASSUME NEW k \in Keys, k \notin raced' PROVE Replicated(k)'
    BY DEF Replicas
  <2>1. PendingOf(k)' = PendingOf(k)
    BY DEF PendingOf
  <2>2. CASE PendingOf(k) = {}
    BY <1>2, <2>1, <2>2 DEF Replicated
  <2>3. CASE stopped' /\ k \notin raced
    BY <1>2, <2>1, <2>3 DEF Replicated, IInv, Replicas
  <2> QED
    BY <2>2, <2>3
<1> QED
  BY <1>1, <1>3

LEMMA FlushAllStore ==
  ASSUME IInv, FlushAll
  PROVE  StoreTypes' /\ Replicas'
BY Emptied DEF FlushAll, IInv, StoreTypes

LEMMA StopStore ==
  ASSUME IInv, Stop
  PROVE  StoreTypes' /\ Replicas'
<1>1. \A k \in Keys : k \notin raced' => stopped' /\ k \notin raced
  BY DEF Stop
<1> QED
  BY <1>1, Emptied DEF Stop, IInv, StoreTypes

\* The oldest replication goes: what is left keeps its order.
LEMMA PendingTail ==
  ASSUME StoreTypes, pending # <<>>, pending' = Tail(pending)
  PROVE  /\ pending' \in Seq([from : Masters, key : Keys, version : Versions \cup {None}])
         /\ 1 \in DOMAIN pending /\ Head(pending) = pending[1]
         /\ \A k : PendingOf(k)' = {i \in DOMAIN pending' : i + 1 \in PendingOf(k)}
         /\ \A k : \A i \in PendingOf(k) :
              i # 1 => i - 1 \in PendingOf(k)' /\ pending'[i - 1] = pending[i]
         /\ \A k : \A i \in PendingOf(k) : i \in Nat \ {0}
         /\ \A k : \A i \in PendingOf(k)' : i \in Nat /\ pending'[i] = pending[i + 1]
<1> DEFINE T == [from : Masters, key : Keys, version : Versions \cup {None}]
<1>1. pending \in Seq(T)
  BY DEF StoreTypes
<1> HIDE DEF T
<1>2. /\ pending' \in Seq(T)
      /\ Len(pending) \in Nat \ {0}
      /\ Len(pending') = Len(pending) - 1
      /\ DOMAIN pending = 1..Len(pending)
      /\ DOMAIN pending' = 1..Len(pending')
      /\ \A i \in 1..Len(pending') : pending'[i] = pending[i + 1]
      /\ Head(pending) = pending[1]
  BY <1>1, HeadTailProperties, LenProperties, EmptySeq
<1>3. \A k : PendingOf(k)' = {i \in DOMAIN pending' : i + 1 \in PendingOf(k)}
  BY <1>2 DEF PendingOf
<1> QED
  BY <1>2, <1>3 DEF PendingOf, T

LEMMA ReplicationFiresStore ==
  ASSUME IInv, ReplicationFires
  PROVE  StoreTypes' /\ Replicas'
<1>1. PICK p : p = Head(pending)
  OBVIOUS
<1>2. /\ pending # <<>> /\ pending' = Tail(pending)
      /\ UNCHANGED <<lag, entry, raced, stopped>>
      /\ IF ~stopped
         THEN /\ store' = Stored(Others(p.from), p.key, p.version)
              /\ expiryTimer' \in BOOLEAN
         ELSE UNCHANGED <<store, expiryTimer>>
  BY <1>1 DEF ReplicationFires, Fires
<1>3. /\ pending' \in Seq([from : Masters, key : Keys, version : Versions \cup {None}])
      /\ 1 \in DOMAIN pending /\ p = pending[1]
      /\ \A k : PendingOf(k)' = {i \in DOMAIN pending' : i + 1 \in PendingOf(k)}
      /\ \A k : \A i \in PendingOf(k) :
           i # 1 => i - 1 \in PendingOf(k)' /\ pending'[i - 1] = pending[i]
      /\ \A k : \A i \in PendingOf(k) : i \in Nat \ {0}
      /\ \A k : \A i \in PendingOf(k)' : i \in Nat /\ pending'[i] = pending[i + 1]
  BY <1>1, <1>2, PendingTail DEF IInv
<1>4. p.from \in Masters /\ p.key \in Keys /\ p.version \in Versions \cup {None}
  BY <1>3, PendingAt DEF IInv
<1>5. pending' # <<>> => lag'
  BY <1>2 DEF IInv, StoreTypes
<1>6. CASE stopped
  <2>0. UNCHANGED <<lag, entry, raced, stopped, store, expiryTimer>>
    BY <1>2, <1>6
  <2>1. StoreTypes'
    BY <1>3, <1>5, <2>0 DEF IInv, StoreTypes, Versions
  <2>2. \A m \in Masters, k \in Keys : Visible(m, k)' = None
    BY <1>2, <1>6 DEF IInv, StoreTypes, Visible, Missing
  <2>3. ASSUME NEW k \in Keys, k \notin raced PROVE Replicated(k)'
    <3>1. Replicated(k)
      BY <2>3 DEF IInv, Replicas
    <3>2. \A i, j \in PendingOf(k)' : pending'[i].from = pending'[j].from
      BY SMTT(30), <1>3, <3>1 DEF Replicated
    <3> QED
      BY <1>2, <1>6, <2>2, <3>2 DEF Replicated
  <2> QED
    BY <1>2, <2>1, <2>3 DEF Replicas
<1>7. CASE ~stopped
  <2>1. store' = [m \in Masters |-> IF m \in Masters \ {p.from}
                                    THEN [store[m] EXCEPT ![p.key] = p.version]
                                    ELSE store[m]]
    BY <1>2, <1>7 DEF Stored, Others
  <2>2. \A m \in Masters : store[m] \in [Keys -> Versions \cup {None}]
    BY DEF IInv, StoreTypes
  <2>3. store' \in [Masters -> [Keys -> Versions \cup {None}]]
    BY <1>4, <2>1, <2>2
  <2>4. StoreTypes'
    BY <1>2, <1>3, <1>5, <1>7, <2>3 DEF IInv, StoreTypes, Versions
  <2>5. \A m \in Masters, k \in Keys :
          store'[m][k] = IF k = p.key /\ m # p.from THEN p.version ELSE store[m][k]
    BY <1>4, <2>1, <2>2
  <2>6. \A m \in Masters, k \in Keys :
          Visible(m, k)' = IF k = p.key /\ m # p.from THEN Shown(p.version) ELSE Visible(m, k)
    BY <1>2, <2>5 DEF Visible, Missing, Shown
  <2>7. \A w : Shown(w)' = Shown(w)
    BY <1>2 DEF Shown
  <2>8. ASSUME NEW k \in Keys, k \notin raced PROVE Replicated(k)'
    <3>1. Replicated(k)
      BY <2>8 DEF IInv, Replicas
    <3>2. \A i, j \in PendingOf(k)' : pending'[i].from = pending'[j].from
      BY SMTT(30), <1>3, <3>1 DEF Replicated
    <3>3. ASSUME NEW i \in PendingOf(k)', \A j \in PendingOf(k)' : j <= i,
                 NEW m \in Masters, NEW v \in Nat,
                 pending'[i].from = m, pending'[i].version = v
          PROVE  Visible(m, k)' = Shown(v)'
      <4>1. i + 1 \in PendingOf(k) /\ pending[i + 1] = pending'[i]
        BY <1>3, <3>3
      <4>2. \A j \in PendingOf(k) : j <= i + 1
        BY <1>3, <3>3
      <4>3. Visible(m, k) = Shown(v)
        BY <1>7, <3>1, <3>3, <4>1, <4>2 DEF Replicated
      <4>4. k = p.key => p.from = m
        <5>1. k = p.key => 1 \in PendingOf(k)
          BY <1>3 DEF PendingOf
        <5> QED
          BY <1>3, <3>1, <3>3, <4>1, <5>1 DEF Replicated
      <4> QED
        BY <2>6, <2>7, <4>3, <4>4
    <3>4. PendingOf(k)' = {} => \A m, n \in Masters : Visible(m, k)' = Visible(n, k)'
      <4>1. CASE k # p.key
        <5>1. 1 \notin PendingOf(k)
          BY <1>3, <4>1 DEF PendingOf
        <5>2. PendingOf(k)' = {} => PendingOf(k) = {}
          BY <1>3, <5>1
        <5> QED
          BY <3>1, <5>2, <2>6, <4>1 DEF Replicated
      <4>2. CASE k = p.key /\ PendingOf(k)' = {}
        <5>1. 1 \in PendingOf(k)
          BY <1>3, <4>2 DEF PendingOf
        <5>2. \A j \in PendingOf(k) : j <= 1
          BY <1>3, <4>2
        <5>3. p.version \in Nat
          BY <1>4, VersionsAreNumbers DEF IInv, None
        <5>4. Visible(p.from, k) = Shown(p.version)
          BY <1>3, <1>4, <1>7, <3>1, <5>1, <5>2, <5>3 DEF Replicated
        <5> QED
          BY <2>6, <4>2, <5>4
      <4> QED
        BY <4>1, <4>2
    <3> QED
      BY <3>2, <3>3, <3>4 DEF Replicated
  <2> QED
    BY <1>2, <2>4, <2>8 DEF Replicas
<1> QED
  BY <1>6, <1>7

LEMMA WriteStore ==
  ASSUME IInv, ~stopped, NEW m \in Masters, NEW k \in Keys, NEW timed \in BOOLEAN,
         Write(m, k, timed)
  PROVE  StoreTypes' /\ Replicas'
<1> DEFINE kind == IF timed THEN "timed" ELSE "forever"
<1>1. /\ entry' = Append(entry, kind)
      /\ UNCHANGED <<lag, stopped>>
      /\ expiryTimer' \in BOOLEAN
  BY DEF Write, IInv, StoreTypes
<1>2. PICK v : v = Len(entry) + 1
  OBVIOUS
<1>3. kind \in {"forever", "timed", "over"}
  OBVIOUS
<1> HIDE DEF kind
<1>4. /\ entry' \in Seq({"forever", "timed", "over"})
      /\ Len(entry') = v
      /\ v \in Versions' /\ Versions \subseteq Versions'
      /\ \A w \in Versions : entry'[w] = entry[w]
  BY <1>1, <1>2, <1>3, AppendProperties, LenProperties DEF IInv, StoreTypes, Versions
<1>5. Replicate(m, k, v)
  BY <1>4 DEF Write
<1> QED
  BY <1>1, <1>4, <1>5, ReplicateReplicas

LEMMA DeleteStore ==
  ASSUME IInv, NEW k \in Keys, Delete(k)
  PROVE  StoreTypes' /\ Replicas'
<1>1. /\ ~stopped
      /\ Replicate(Primary, k, None)
      /\ UNCHANGED <<lag, entry, expiryTimer, stopped>>
  BY DEF Delete, Called
<1>2. /\ Primary \in Masters
      /\ entry' \in Seq({"forever", "timed", "over"})
      /\ Versions' = Versions
      /\ expiryTimer' \in BOOLEAN
  BY <1>1, KeyDBAssumption DEF KeyDBAssumption, IInv, StoreTypes, Versions
<1> QED
  BY <1>1, <1>2, ReplicateReplicas

-----------------------------------------------------------------------------
\* Subscriptions.

Shape(sub) ==
  /\ sub.home \in Nat
  /\ sub.history \in Seq(Nat) /\ Len(sub.history) \in Nat
  /\ DOMAIN sub.history = 1..Len(sub.history)
  /\ sub.got \in Seq(Nat) /\ Len(sub.got) \in Nat
  /\ DOMAIN sub.got = 1..Len(sub.got)
  /\ sub.resolvers \in Seq(BOOLEAN) /\ Len(sub.resolvers) \in Nat
  /\ DOMAIN sub.resolvers = 1..Len(sub.resolvers)
  /\ sub.cursor \in Nat /\ sub.since \in Nat
  /\ sub.open \in BOOLEAN /\ sub.timedOut \in BOOLEAN /\ sub.evicted \in BOOLEAN

LEMMA SlotTypes ==
  ASSUME NEW sub \in Slots
  PROVE  Shape(sub)
<1>1. /\ sub.home \in Nat
      /\ sub.history \in Seq(Nat)
      /\ sub.got \in Seq(Nat)
      /\ sub.resolvers \in Seq(BOOLEAN)
      /\ sub.cursor \in Nat /\ sub.since \in Nat
      /\ sub.open \in BOOLEAN /\ sub.timedOut \in BOOLEAN /\ sub.evicted \in BOOLEAN
  BY DEF Slots
<1> QED
  BY <1>1, LenProperties DEF Shape

\* A new message rises above those before it.
Appended(p, q, n, size) ==
  /\ p \in Seq(Nat)
  /\ size \in Nat /\ Len(q) \in Nat /\ size = Len(q) + 1
  /\ DOMAIN p = 1..size /\ DOMAIN q = 1..Len(q)
  /\ p[size] = n + 1
  /\ \A i \in DOMAIN q : i \in Nat /\ i < size /\ i \in DOMAIN p /\ p[i] = q[i]
  /\ \A i \in DOMAIN p : i \in DOMAIN q \/ i = size
  /\ Rising(p, n + 1)

LEMMA RisingAppend ==
  ASSUME NEW n \in Nat, NEW q \in Seq(Nat), Rising(q, n)
  PROVE  Appended(Append(q, n + 1), q, n, Len(Append(q, n + 1)))
<1>0. PICK p : p = Append(q, n + 1)
  OBVIOUS
<1> DEFINE size == Len(p)
<1>1. /\ p \in Seq(Nat)
      /\ size \in Nat /\ Len(q) \in Nat /\ size = Len(q) + 1
      /\ DOMAIN p = 1..size /\ DOMAIN q = 1..Len(q)
      /\ p[size] = n + 1
      /\ \A i \in 1..Len(q) : p[i] = q[i]
  BY <1>0, AppendProperties, LenProperties
<1>2. \A i \in DOMAIN q : i \in Nat /\ i < size /\ i \in DOMAIN p /\ p[i] = q[i]
  BY <1>1
<1> HIDE DEF size
<1>3. \A i \in DOMAIN p : i \in DOMAIN q \/ i = size
  BY <1>1
<1>4. \A i \in DOMAIN p : p[i] \in 1..(n + 1)
  <2> SUFFICES ASSUME NEW i \in DOMAIN p PROVE p[i] \in 1..(n + 1)
    OBVIOUS
  <2>1. CASE i \in DOMAIN q
    <3>1. p[i] \in 1..n
      BY <1>2, <2>1 DEF Rising
    <3> QED
      BY <3>1
  <2>2. CASE i = size
    BY <1>1, <2>2
  <2> QED
    BY <1>3, <2>1, <2>2
<1>5. ASSUME NEW i \in DOMAIN p, NEW j \in DOMAIN p, i < j PROVE p[i] < p[j]
  <2>1. i \in DOMAIN q
    BY <1>1, <1>5
  <2>2. p[i] = q[i] /\ q[i] \in 1..n
    BY <1>2, <2>1 DEF Rising
  <2>3. CASE j \in DOMAIN q
    BY <1>2, <1>5, <2>1, <2>2, <2>3 DEF Rising
  <2>4. CASE j = size
    BY <1>1, <2>2, <2>4
  <2> QED
    BY <1>3, <2>3, <2>4
<1>6. Rising(p, n + 1)
  BY <1>4, <1>5 DEF Rising
<1>7. Appended(p, q, n, size)
  BY <1>1, <1>2, <1>3, <1>6 DEF Appended
<1> QED
  BY <1>0, <1>7 DEF size

\* A message is pushed, and maybe the first resolver takes it.
LEMMA PushedOK ==
  ASSUME NEW n \in Nat, NEW sub, SubOK(sub, n), NEW new, new = Pushed(sub, n + 1)
  PROVE  /\ SubOK(new, n + 1)
         /\ new.history = Append(sub.history, n + 1)
         /\ new.home = sub.home /\ new.open = sub.open
         /\ new.since = sub.since /\ new.evicted = sub.evicted
<1>1. PICK h : h = Append(sub.history, n + 1)
  OBVIOUS
<1>2. /\ sub \in Slots
      /\ sub.cursor <= Len(sub.history)
      /\ InOrder(sub, n)
      /\ Complete(sub)
      /\ Shape(sub)
  BY SlotTypes DEF SubOK
<1>3. PICK size : size = Len(h)
  OBVIOUS
<1>4. /\ h \in Seq(Nat)
      /\ size \in Nat /\ size = Len(sub.history) + 1
      /\ DOMAIN h = 1..size
      /\ h[size] = n + 1
      /\ \A i \in DOMAIN sub.history :
           i \in Nat /\ i < size /\ i \in DOMAIN h /\ h[i] = sub.history[i]
      /\ \A i \in DOMAIN h : i \in DOMAIN sub.history \/ i = size
      /\ Rising(h, n + 1)
  <2>1. Rising(sub.history, n) /\ sub.history \in Seq(Nat)
    BY <1>2 DEF InOrder, Shape
  <2>2. Appended(h, sub.history, n, size)
    BY <1>1, <1>3, <2>1, RisingAppend
  <2> QED
    BY <2>2 DEF Appended
<1>5. CASE sub.resolvers = <<>> \/ ~Head(sub.resolvers)
  <2>1. PICK r \in Seq(BOOLEAN) :
          /\ new = [home |-> sub.home, open |-> sub.open, history |-> h, cursor |-> sub.cursor,
                    resolvers |-> r, since |-> sub.since, got |-> sub.got,
                    timedOut |-> sub.timedOut, evicted |-> sub.evicted]
          /\ ~sub.timedOut => r = <<>>
    <3>1. CASE sub.resolvers = <<>>
      <4>1. new = [sub EXCEPT !.history = h]
        BY <1>1, <3>1 DEF Pushed
      <4> QED
        BY <1>2, <3>1, <4>1 DEF Slots, Shape
    <3>2. CASE sub.resolvers # <<>> /\ ~Head(sub.resolvers)
      <4>1. PICK r : r = Tail(sub.resolvers)
        OBVIOUS
      <4>2. new = [[sub EXCEPT !.history = h] EXCEPT !.resolvers = r]
        <5>1. new = [[sub EXCEPT !.history = Append(@, n + 1)] EXCEPT !.resolvers = Tail(@)]
          BY <3>2 DEF Pushed
        <5>2. PICK x : x = [sub EXCEPT !.history = h]
          OBVIOUS
        <5>3. new = [x EXCEPT !.resolvers = Tail(@)]
          BY <1>1, <5>1, <5>2
        <5>4. x.resolvers = sub.resolvers
          BY <1>2, <5>2 DEF Slots
        <5> QED
          BY <5>2, <5>3, <5>4, <4>1
      <4>3. r \in Seq(BOOLEAN) /\ Head(sub.resolvers) = sub.resolvers[1] /\ 1 \in DOMAIN sub.resolvers
        <5>1. PICK q : q = sub.resolvers
          OBVIOUS
        <5>2. q \in Seq(BOOLEAN) /\ q # <<>>
          BY <1>2, <3>2, <5>1 DEF Shape
        <5>3. Len(q) # 0 /\ Len(q) \in Nat /\ DOMAIN q = 1..Len(q)
          BY <5>2, LenProperties, EmptySeq
        <5>4. Tail(q) \in Seq(BOOLEAN)
          BY <5>2, HeadTailProperties
        <5>5. Head(q) = q[1]
          BY SMT
        <5> QED
          BY <4>1, <5>1, <5>3, <5>4, <5>5
      <4>4. sub.timedOut
        BY <1>2, <3>2, <4>3 DEF Complete, Shape
      <4> QED
        BY <1>2, <4>2, <4>3, <4>4 DEF Slots
    <3> QED
      BY <1>5, <3>1, <3>2
  <2>2. /\ new \in Slots
        /\ new.home = sub.home /\ new.open = sub.open /\ new.history = h
        /\ new.cursor = sub.cursor /\ new.resolvers = r /\ new.since = sub.since
        /\ new.got = sub.got /\ new.timedOut = sub.timedOut /\ new.evicted = sub.evicted
    BY <1>2, <1>4, <2>1 DEF Shape, Slots
  <2>3. InOrder(new, n + 1)
    <3>1. \A i \in DOMAIN sub.got : sub.got[i] \in 1..n
      BY <1>2 DEF InOrder, Rising
    <3>2. Rising(sub.got, n + 1)
      BY <1>2, <3>1 DEF InOrder, Rising
    <3>3. ASSUME NEW i \in DOMAIN sub.got, NEW j \in DOMAIN h, j > sub.cursor
          PROVE  sub.got[i] < h[j]
      <4>1. CASE j \in DOMAIN sub.history
        BY <1>2, <1>4, <3>3, <4>1 DEF InOrder
      <4>2. CASE j = size
        BY <1>4, <3>1, <4>2
      <4> QED
        BY <1>4, <4>1, <4>2
    <3> QED
      BY <1>4, <2>2, <3>2, <3>3 DEF InOrder
  <2>4. Complete(new)
    <3>1. ASSUME ~sub.timedOut
          PROVE  \A i \in DOMAIN sub.got : sub.got[i] = h[i]
      <4>1. /\ Len(sub.got) = sub.cursor
            /\ \A i \in DOMAIN sub.got : sub.got[i] = sub.history[i]
        BY <1>2, <3>1 DEF Complete
      <4>2. \A i \in DOMAIN sub.got : i \in DOMAIN sub.history
        BY <1>2, <4>1 DEF Shape
      <4> QED
        BY <1>4, <4>1, <4>2
    <3>2. ~sub.timedOut => r = <<>> /\ DOMAIN r = {}
      BY <2>1, EmptySeq
    <3>3. ~sub.timedOut => Len(sub.got) = sub.cursor
      BY <1>2 DEF Complete
    <3> QED
      BY <2>2, <3>1, <3>2, <3>3 DEF Complete
  <2>5. new.cursor <= Len(new.history)
    <3>1. sub.cursor \in Nat /\ Len(sub.history) \in Nat
      BY <1>2 DEF Shape
    <3>2. sub.cursor <= size
      BY <1>2, <1>4, <3>1
    <3> QED
      BY <1>3, <2>2, <3>2
  <2> QED
    BY <1>1, <2>2, <2>3, <2>4, <2>5 DEF SubOK
<1>6. CASE sub.resolvers # <<>> /\ Head(sub.resolvers)
  <2>1. PICK r : r = Tail(sub.resolvers)
    OBVIOUS
  <2>2. PICK g : g = Append(sub.got, n + 1)
    OBVIOUS
  <2>3. /\ r \in Seq(BOOLEAN)
        /\ \A i \in DOMAIN r : i + 1 \in DOMAIN sub.resolvers /\ r[i] = sub.resolvers[i + 1]
    <3>1. PICK q : q = sub.resolvers
      OBVIOUS
    <3>2. q \in Seq(BOOLEAN) /\ q # <<>>
      BY <1>2, <1>6, <3>1 DEF Shape
    <3>3. /\ r \in Seq(BOOLEAN)
          /\ Len(r) = Len(q) - 1 /\ Len(q) \in Nat
          /\ \A i \in 1..Len(r) : r[i] = q[i + 1]
      BY <2>1, <3>1, <3>2, HeadTailProperties, LenProperties
    <3>4. DOMAIN r = 1..Len(r) /\ DOMAIN q = 1..Len(q)
      BY <3>2, <3>3, LenProperties
    <3> QED
      BY <3>1, <3>3, <3>4
  <2>4. PICK count : count = Len(g)
    OBVIOUS
  <2>11. /\ g \in Seq(Nat)
         /\ count \in Nat /\ count = Len(sub.got) + 1
         /\ DOMAIN g = 1..count
         /\ g[count] = n + 1
         /\ \A i \in DOMAIN sub.got : i \in Nat /\ i < count /\ i \in DOMAIN g /\ g[i] = sub.got[i]
         /\ \A i \in DOMAIN g : i \in DOMAIN sub.got \/ i = count
         /\ Rising(g, n + 1)
    <3>1. Rising(sub.got, n) /\ sub.got \in Seq(Nat)
      BY <1>2 DEF InOrder, Shape
    <3>2. Appended(g, sub.got, n, count)
      BY <2>2, <2>4, <3>1, RisingAppend
    <3> QED
      BY <3>2 DEF Appended
  <2>5. new = [home |-> sub.home, open |-> sub.open, history |-> h, cursor |-> Len(h),
               resolvers |-> r, since |-> sub.since, got |-> g,
               timedOut |-> sub.timedOut, evicted |-> sub.evicted]
    <3>1. PICK u : u = [[sub EXCEPT !.history = h] EXCEPT !.resolvers = r]
      OBVIOUS
    <3>2. u = [home |-> sub.home, open |-> sub.open, history |-> h, cursor |-> sub.cursor,
               resolvers |-> r, since |-> sub.since, got |-> sub.got,
               timedOut |-> sub.timedOut, evicted |-> sub.evicted]
      BY <1>2, <3>1 DEF Slots
    <3>3. u = [[sub EXCEPT !.history = Append(@, n + 1)] EXCEPT !.resolvers = Tail(@)]
      BY <1>1, <1>2, <2>1, <3>1 DEF Slots
    <3>4. new = Resolved(u, n + 1)
      BY <1>6, <3>3 DEF Pushed
    <3>5. new = [u EXCEPT !.cursor = Len(h), !.got = g]
      BY <2>2, <3>2, <3>4 DEF Resolved
    <3> QED
      BY <3>2, <3>5
  <2>6. /\ new \in Slots
        /\ new.home = sub.home /\ new.open = sub.open /\ new.history = h
        /\ new.cursor = Len(h) /\ new.resolvers = r /\ new.since = sub.since
        /\ new.got = g /\ new.timedOut = sub.timedOut /\ new.evicted = sub.evicted
    BY <1>2, <1>3, <1>4, <2>3, <2>11, <2>5 DEF Shape, Slots
  <2>7. InOrder(new, n + 1)
    <3>1. \A j \in DOMAIN h : ~(j > Len(h))
      BY <1>3, <1>4
    <3> QED
      BY <1>4, <2>6, <2>11, <3>1 DEF InOrder
  <2>8. Complete(new)
    <3> SUFFICES ASSUME ~sub.timedOut
                 PROVE  /\ \A i \in DOMAIN r : r[i]
                        /\ Len(g) = Len(h)
                        /\ \A i \in DOMAIN g : g[i] = h[i]
      BY <2>6 DEF Complete
    <3>1. /\ Len(sub.got) = Len(sub.history)
          /\ \A i \in DOMAIN sub.got : sub.got[i] = sub.history[i]
          /\ \A i \in DOMAIN sub.resolvers : sub.resolvers[i]
      BY <1>2, <1>6 DEF Complete
    <3>2. \A i \in DOMAIN r : r[i]
      BY <2>3, <3>1
    <3>3. count = size
      BY <1>4, <2>11, <3>1
    <3>4. \A i \in DOMAIN sub.got : i \in DOMAIN sub.history
      BY <1>2, <3>1 DEF Shape
    <3>5. ASSUME NEW i \in DOMAIN g PROVE g[i] = h[i]
      <4>1. CASE i \in DOMAIN sub.got
        BY <1>4, <2>11, <3>1, <3>4, <4>1
      <4>2. CASE i = count
        BY <1>4, <2>11, <3>3, <4>2
      <4> QED
        BY <2>11, <4>1, <4>2
    <3> QED
      BY <1>3, <2>4, <3>2, <3>3, <3>5
  <2>9. new.cursor <= Len(new.history)
    BY <1>3, <1>4, <2>6
  <2> QED
    BY <1>1, <2>6, <2>7, <2>8, <2>9 DEF SubOK
<1> QED
  BY <1>5, <1>6

LEMMA ReadOK ==
  ASSUME NEW n \in Nat, NEW sub, SubOK(sub, n), sub.cursor < Len(sub.history),
         NEW new, new = Read(sub)
  PROVE  /\ SubOK(new, n)
         /\ new.history = sub.history
         /\ new.home = sub.home /\ new.open = sub.open
         /\ new.since = sub.since /\ new.evicted = sub.evicted
<1>1. /\ sub \in Slots
      /\ InOrder(sub, n)
      /\ Complete(sub)
      /\ Shape(sub)
  BY SlotTypes DEF SubOK
<1>2. PICK c : c = sub.cursor + 1
  OBVIOUS
<1>3. c \in DOMAIN sub.history /\ c \in Nat /\ c <= Len(sub.history)
  BY SMTT(30), <1>1, <1>2 DEF Shape
<1>4. PICK msg : msg = sub.history[c]
  OBVIOUS
<1>5. msg \in 1..n /\ \A i \in DOMAIN sub.got : sub.got[i] \in 1..n /\ sub.got[i] < msg
  <2>1. msg \in 1..n
    BY <1>1, <1>3, <1>4 DEF InOrder, Rising
  <2>2. c > sub.cursor
    BY <1>1, <1>2 DEF Shape
  <2>3. \A i \in DOMAIN sub.got : sub.got[i] \in 1..n
    BY <1>1 DEF InOrder, Rising
  <2>4. \A i \in DOMAIN sub.got : sub.got[i] < msg
    BY <1>1, <1>3, <1>4, <2>2 DEF InOrder
  <2> QED
    BY <2>1, <2>3, <2>4
<1>6. PICK g : g = Append(sub.got, msg)
  OBVIOUS
<1>7. PICK count : count = Len(sub.got) + 1
  OBVIOUS
<1>8. /\ g \in Seq(Nat) /\ count \in Nat
      /\ Len(g) = count /\ DOMAIN g = 1..count
      /\ g[count] = msg
      /\ \A i \in DOMAIN sub.got : i \in Nat /\ i < count /\ g[i] = sub.got[i]
      /\ \A i \in DOMAIN g : i \in DOMAIN sub.got \/ i = count
  <2>1. sub.got \in Seq(Nat) /\ msg \in Nat /\ Len(sub.got) \in Nat
        /\ DOMAIN sub.got = 1..Len(sub.got)
    BY <1>1, <1>5 DEF Shape
  <2>2. /\ g \in Seq(Nat)
        /\ Len(g) = count
        /\ g[count] = msg
        /\ \A i \in 1..Len(sub.got) : g[i] = sub.got[i]
    BY <1>6, <1>7, <2>1, AppendProperties
  <2>3. DOMAIN g = 1..count
    BY <2>2, LenProperties
  <2> QED
    BY SMTT(30), <1>7, <2>1, <2>2, <2>3
<1>9. new = [home |-> sub.home, open |-> sub.open, history |-> sub.history, cursor |-> c,
             resolvers |-> sub.resolvers, since |-> sub.since, got |-> g,
             timedOut |-> sub.timedOut, evicted |-> sub.evicted]
  <2>1. new = [sub EXCEPT !.cursor = c, !.got = g]
    BY <1>2, <1>4, <1>6 DEF Read
  <2> QED
    BY <1>1, <2>1 DEF Slots
<1>10. /\ new \in Slots
       /\ new.home = sub.home /\ new.open = sub.open /\ new.history = sub.history
       /\ new.cursor = c /\ new.resolvers = sub.resolvers /\ new.since = sub.since
       /\ new.got = g /\ new.timedOut = sub.timedOut /\ new.evicted = sub.evicted
  BY <1>1, <1>3, <1>8, <1>9 DEF Shape, Slots
<1>11. InOrder(new, n)
  <2>1. \A i \in DOMAIN g : g[i] \in 1..n
    BY <1>5, <1>8
  <2>2. ASSUME NEW i \in DOMAIN g, NEW j \in DOMAIN g, i < j PROVE g[i] < g[j]
    <3>1. i \in DOMAIN sub.got /\ g[i] = sub.got[i]
      BY <1>8, <2>2
    <3>2. CASE j \in DOMAIN sub.got
      BY <1>1, <1>8, <2>2, <3>1, <3>2 DEF InOrder, Rising
    <3>3. CASE j = count
      BY <1>5, <1>8, <3>1, <3>3
    <3> QED
      BY <1>8, <3>2, <3>3
  <2>3. ASSUME NEW i \in DOMAIN g, NEW j \in DOMAIN sub.history, j > c
        PROVE  g[i] < sub.history[j]
    <3>1. CASE i \in DOMAIN sub.got
      <4>1. j > sub.cursor
        BY <1>1, <1>2, <2>3 DEF Shape
      <4> QED
        BY <1>1, <1>8, <3>1, <4>1 DEF InOrder
    <3>2. CASE i = count
      <4>1. c < j
        BY <1>1, <1>3, <2>3 DEF Shape
      <4> QED
        BY <1>1, <1>3, <1>4, <1>8, <3>2, <4>1 DEF InOrder, Rising
    <3> QED
      BY <1>8, <3>1, <3>2
  <2>4. Rising(g, n)
    BY <2>1, <2>2 DEF Rising
  <2> QED
    BY <1>1, <1>10, <2>3, <2>4 DEF InOrder
<1>12. Complete(new)
  <2> SUFFICES ASSUME ~sub.timedOut
               PROVE  /\ \A i \in DOMAIN sub.resolvers : sub.resolvers[i]
                      /\ Len(g) = c
                      /\ \A i \in DOMAIN g : g[i] = sub.history[i]
                      /\ sub.resolvers # <<>> => c = Len(sub.history)
    BY <1>10 DEF Complete
  <2>1. /\ \A i \in DOMAIN sub.resolvers : sub.resolvers[i]
        /\ Len(sub.got) = sub.cursor
        /\ \A i \in DOMAIN sub.got : sub.got[i] = sub.history[i]
        /\ sub.resolvers # <<>> => sub.cursor = Len(sub.history)
    BY <1>1 DEF Complete
  <2>2. sub.resolvers = <<>>
    BY <1>1, <2>1 DEF Shape
  <2>3. count = c
    BY <1>2, <1>7, <2>1
  <2> QED
    BY <1>4, <1>8, <2>1, <2>2, <2>3
<1> QED
  BY <1>3, <1>10, <1>11, <1>12 DEF SubOK

LEMMA WaitsOK ==
  ASSUME NEW n \in Nat, NEW sub, SubOK(sub, n), ~(sub.cursor < Len(sub.history)),
         NEW new, new = Waits(sub)
  PROVE  /\ SubOK(new, n)
         /\ new.history = sub.history
         /\ new.home = sub.home /\ new.open = sub.open
         /\ new.since = sub.since /\ new.evicted = sub.evicted
<1>1. /\ sub \in Slots
      /\ sub.cursor <= Len(sub.history)
      /\ InOrder(sub, n)
      /\ Complete(sub)
      /\ Shape(sub)
  BY SlotTypes DEF SubOK
<1>2. PICK q : q = sub.resolvers
  OBVIOUS
<1>3. PICK r : r = Append(q, TRUE)
  OBVIOUS
<1>4. /\ r \in Seq(BOOLEAN)
      /\ (\A i \in DOMAIN q : q[i]) => \A i \in DOMAIN r : r[i]
  <2>1. q \in Seq(BOOLEAN) /\ Len(q) \in Nat /\ DOMAIN q = 1..Len(q)
    BY <1>1, <1>2 DEF Shape
  <2>2. /\ r \in Seq(BOOLEAN)
        /\ Len(r) = Len(q) + 1
        /\ r[Len(q) + 1] = TRUE
        /\ \A i \in 1..Len(q) : r[i] = q[i]
    BY <1>3, <2>1, AppendProperties
  <2>3. DOMAIN r = 1..(Len(q) + 1)
    BY <2>2, LenProperties
  <2> QED
    BY <2>1, <2>2, <2>3
<1>5. new = [home |-> sub.home, open |-> sub.open, history |-> sub.history,
             cursor |-> sub.cursor, resolvers |-> r, since |-> sub.since, got |-> sub.got,
             timedOut |-> sub.timedOut, evicted |-> sub.evicted]
  <2>1. new = [sub EXCEPT !.resolvers = r]
    BY <1>2, <1>3 DEF Waits
  <2> QED
    BY <1>1, <2>1 DEF Slots
<1>6. /\ new \in Slots
      /\ new.home = sub.home /\ new.open = sub.open /\ new.history = sub.history
      /\ new.cursor = sub.cursor /\ new.resolvers = r /\ new.since = sub.since
      /\ new.got = sub.got /\ new.timedOut = sub.timedOut /\ new.evicted = sub.evicted
  BY <1>1, <1>4, <1>5 DEF Shape, Slots
<1>7. sub.cursor = Len(sub.history)
  BY <1>1 DEF Shape
<1> QED
  BY <1>1, <1>2, <1>4, <1>6, <1>7 DEF SubOK, InOrder, Complete

LEMMA GivenUpOK ==
  ASSUME NEW n \in Nat, NEW sub, SubOK(sub, n), NEW k \in DOMAIN sub.resolvers,
         NEW new, new = GivenUp(sub, k)
  PROVE  /\ SubOK(new, n)
         /\ new.history = sub.history
         /\ new.home = sub.home /\ new.open = sub.open
         /\ new.since = sub.since /\ new.evicted = sub.evicted
<1>1. /\ sub \in Slots
      /\ sub.cursor <= Len(sub.history)
      /\ InOrder(sub, n)
      /\ Shape(sub)
  BY SlotTypes DEF SubOK
<1>2. PICK q : q = sub.resolvers
  OBVIOUS
<1>3. PICK r : r = [q EXCEPT ![k] = FALSE]
  OBVIOUS
<1>4. r \in Seq(BOOLEAN)
  <2>1. q \in Seq(BOOLEAN) /\ Len(q) \in Nat /\ DOMAIN q = 1..Len(q)
    BY <1>1, <1>2 DEF Shape
  <2> QED
    BY <1>2, <1>3, <2>1, ExceptSeq
<1>5. new = [home |-> sub.home, open |-> sub.open, history |-> sub.history,
             cursor |-> sub.cursor, resolvers |-> r, since |-> sub.since, got |-> sub.got,
             timedOut |-> TRUE, evicted |-> sub.evicted]
  <2>1. new = [sub EXCEPT !.resolvers = r, !.timedOut = TRUE]
    BY <1>2, <1>3 DEF GivenUp
  <2> QED
    BY <1>1, <2>1 DEF Slots
<1>6. /\ new \in Slots
      /\ new.home = sub.home /\ new.open = sub.open /\ new.history = sub.history
      /\ new.cursor = sub.cursor /\ new.since = sub.since
      /\ new.got = sub.got /\ new.timedOut = TRUE /\ new.evicted = sub.evicted
  BY <1>1, <1>4, <1>5 DEF Shape, Slots
<1> QED
  BY <1>1, <1>6 DEF SubOK, InOrder, Complete

\* A close() of its own or of another subscription changes flags only.
LEMMA FlagsOK ==
  ASSUME NEW n \in Nat, NEW sub, SubOK(sub, n), NEW b \in BOOLEAN, NEW new,
         new = [sub EXCEPT !.open = b] \/ new = [sub EXCEPT !.evicted = b]
  PROVE  /\ SubOK(new, n)
         /\ new.history = sub.history
         /\ new.home = sub.home /\ new.since = sub.since
         /\ new = [sub EXCEPT !.open = b] => new.open = b
         /\ new = [sub EXCEPT !.evicted = b] => new.open = sub.open /\ new.evicted = b
<1>1. /\ sub \in Slots
      /\ sub.cursor <= Len(sub.history)
      /\ InOrder(sub, n)
      /\ Complete(sub)
  BY DEF SubOK
<1>2. /\ new \in Slots
      /\ new.home = sub.home /\ new.history = sub.history
      /\ new.cursor = sub.cursor /\ new.resolvers = sub.resolvers /\ new.since = sub.since
      /\ new.got = sub.got /\ new.timedOut = sub.timedOut
  BY <1>1 DEF Slots
<1>3. /\ new = [sub EXCEPT !.open = b] => new.open = b
      /\ new = [sub EXCEPT !.evicted = b] => new.open = sub.open /\ new.evicted = b
  BY <1>1 DEF Slots
<1> QED
  BY <1>1, <1>2, <1>3 DEF SubOK, InOrder, Complete

LEMMA LaterOK ==
  ASSUME NEW n \in Nat, NEW sub, SubOK(sub, n)
  PROVE  SubOK(sub, n + 1)
<1>1. \A q : Rising(q, n) => Rising(q, n + 1)
  BY DEF Rising
<1> QED
  BY <1>1 DEF SubOK, InOrder

-----------------------------------------------------------------------------
\* The actions on the subscriptions, and those that leave them alone.

LEMMA StoreOnly ==
  ASSUME IInv, UNCHANGED <<pubSubVars, stopped>>
  PROVE  PubSubTypes' /\ Subscriptions'
<1>1. UNCHANGED <<slot, channel, published, stopped>>
  BY DEF pubSubVars
<1>2. PubSubTypes /\ Subscriptions
  BY DEF IInv
<1> QED
  BY <1>1, <1>2 DEF PubSubTypes, Subscriptions, Heard

LEMMA PubSubOnly ==
  ASSUME IInv, UNCHANGED <<lag, storeVars, stopped>>
  PROVE  StoreTypes' /\ Replicas'
<1>1. UNCHANGED <<lag, entry, store, pending, expiryTimer, raced, stopped>>
  BY DEF storeVars
<1>2. StoreTypes /\ Replicas
  BY DEF IInv
<1>3. StoreTypes'
  BY <1>1, <1>2 DEF StoreTypes, Versions
<1>4. \A k \in Keys : Replicated(k) => Replicated(k)'
  BY <1>1 DEF Replicated, PendingOf, Visible, Missing, Shown
<1> QED
  BY <1>1, <1>2, <1>3, <1>4 DEF Replicas

LEMMA StopPubSub ==
  ASSUME IInv, Stop
  PROVE  PubSubTypes' /\ Subscriptions'
<1>1. slot' = slot /\ published' = published /\ stopped' = TRUE /\ channel' = 0
  BY DEF Stop, None
<1>2. PubSubTypes /\ Subscriptions
  BY DEF IInv
<1>3. Len(slot) \in Nat
  BY <1>2, LenProperties DEF PubSubTypes
<1> QED
  BY <1>1, <1>2, <1>3 DEF PubSubTypes, Subscriptions, Heard, None

\* A sequence whose every element is replaced.
LEMMA Replaced ==
  ASSUME NEW q \in Seq(Slots), NEW r, r = [s \in DOMAIN q |-> r[s]],
         \A s \in DOMAIN q : r[s] \in Slots
  PROVE  r \in Seq(Slots) /\ DOMAIN r = DOMAIN q /\ Len(r) = Len(q)
<1>1. PICK size \in Nat : size = Len(q) /\ DOMAIN q = 1..size
  BY LenProperties
<1>2. r \in [1..size -> Slots]
  BY <1>1
<1>3. r \in Seq(Slots)
  BY <1>2, SeqDef
<1>4. Len(r) \in Nat /\ DOMAIN r = 1..Len(r)
  BY <1>3, LenProperties
<1>5. DOMAIN r = 1..size
  BY <1>2
<1>6. Len(r) = size
  BY <1>4, <1>5
<1> QED
  BY <1>1, <1>3, <1>5, <1>6

LEMMA OneChanges ==
  ASSUME IInv, NEW s \in DOMAIN slot, NEW new, slot' = [slot EXCEPT ![s] = new],
         UNCHANGED <<channel, published, stopped>>,
         SubOK(new, published),
         new.history = slot[s].history,
         new.home = slot[s].home, new.open = slot[s].open,
         new.since = slot[s].since, new.evicted = slot[s].evicted
  PROVE  PubSubTypes' /\ Subscriptions'
<1>1. PubSubTypes /\ Subscriptions
  BY DEF IInv
<1>2. slot \in Seq(Slots) /\ new \in Slots
  BY <1>1 DEF PubSubTypes, SubOK
<1>3. s \in 1..Len(slot) /\ DOMAIN slot = 1..Len(slot)
  BY <1>2, LenProperties
<1>4. /\ slot' \in Seq(Slots) /\ Len(slot') = Len(slot)
      /\ \A t \in 1..Len(slot) : slot'[t] = IF t = s THEN new ELSE slot[t]
  <2>1. PICK q : q = slot
    OBVIOUS
  <2>2. /\ [q EXCEPT ![s] = new] \in Seq(Slots)
        /\ Len([q EXCEPT ![s] = new]) = Len(q)
        /\ \A j \in 1..Len(q) : [q EXCEPT ![s] = new][j] = IF j = s THEN new ELSE q[j]
    BY <1>2, <1>3, <2>1, ExceptSeq
  <2> QED
    BY <2>1, <2>2
<1>5. DOMAIN slot' = DOMAIN slot
  BY <1>3
<1>6. PubSubTypes'
  BY <1>1, <1>4 DEF PubSubTypes
<1>7. ASSUME NEW t \in DOMAIN slot
      PROVE  SubOK(slot'[t], published) /\ Heard(slot[t])
             /\ slot'[t].history = slot[t].history
             /\ slot'[t].home = slot[t].home /\ slot'[t].open = slot[t].open
             /\ slot'[t].since = slot[t].since /\ slot'[t].evicted = slot[t].evicted
  BY <1>1, <1>3, <1>4 DEF Subscriptions
<1> QED
  BY <1>1, <1>5, <1>6, <1>7 DEF Subscriptions, Heard

LEMMA NextMessagePubSub ==
  ASSUME IInv, NEW s \in DOMAIN slot, NextMessage(s)
  PROVE  PubSubTypes' /\ Subscriptions'
<1>1. UNCHANGED <<channel, published, stopped>>
  BY DEF NextMessage
<1>2. published \in Nat /\ SubOK(slot[s], published)
  BY DEF IInv, Subscriptions
<1>3. CASE slot[s].cursor < Len(slot[s].history)
  <2>1. PICK new : new = Read(slot[s])
    OBVIOUS
  <2>2. slot' = [slot EXCEPT ![s] = new]
    BY <1>3, <2>1 DEF NextMessage
  <2> QED
    BY <1>1, <1>2, <1>3, <2>1, <2>2, ReadOK, OneChanges
<1>4. CASE ~(slot[s].cursor < Len(slot[s].history))
  <2>1. PICK new : new = Waits(slot[s])
    OBVIOUS
  <2>2. slot' = [slot EXCEPT ![s] = new]
    BY <1>4, <2>1 DEF NextMessage
  <2> QED
    BY <1>1, <1>2, <1>4, <2>1, <2>2, WaitsOK, OneChanges
<1> QED
  BY <1>3, <1>4

LEMMA NextTimesOutPubSub ==
  ASSUME IInv, NEW s \in DOMAIN slot, NextTimesOut(s)
  PROVE  PubSubTypes' /\ Subscriptions'
<1>1. UNCHANGED <<channel, published, stopped>>
  BY DEF NextTimesOut
<1>2. published \in Nat /\ SubOK(slot[s], published)
  BY DEF IInv, Subscriptions
<1>3. PICK i \in DOMAIN slot[s].resolvers : slot' = [slot EXCEPT ![s] = GivenUp(slot[s], i)]
  BY DEF NextTimesOut
<1>4. PICK new : new = GivenUp(slot[s], i)
  OBVIOUS
<1>5. slot' = [slot EXCEPT ![s] = new]
  BY <1>3, <1>4
<1> QED
  BY ZenonT(60), <1>1, <1>2, <1>4, <1>5, GivenUpOK, OneChanges

LEMMA SubscribePubSub ==
  ASSUME IInv, Subscribe
  PROVE  PubSubTypes' /\ Subscriptions'
<1>1. PICK home : home = IF channel = None THEN Len(slot) + 1 ELSE channel
  OBVIOUS
<1>2. PICK new : new = [home |-> home, open |-> TRUE, history |-> <<>>, cursor |-> 0,
              resolvers |-> <<>>, since |-> published, got |-> <<>>,
              timedOut |-> FALSE, evicted |-> FALSE]
  OBVIOUS
<1>3. /\ slot' = Append(slot, new)
      /\ channel' = home
      /\ UNCHANGED <<published, stopped>>
      /\ ~stopped
  BY <1>1, <1>2 DEF Subscribe, Called
<1>4. /\ slot \in Seq(Slots)
      /\ channel \in 0..Len(slot)
      /\ published \in Nat
      /\ \A s \in DOMAIN slot : SubOK(slot[s], published) /\ Heard(slot[s])
  BY DEF IInv, PubSubTypes, Subscriptions
<1>5. Len(slot) \in Nat /\ DOMAIN slot = 1..Len(slot)
  BY <1>4, LenProperties
<1>6. home \in Nat /\ home # None /\ home <= Len(slot) + 1
  BY <1>1, <1>4, <1>5 DEF None
<1>7. /\ <<>> \in Seq(Nat) /\ <<>> \in Seq(BOOLEAN)
      /\ Len(<<>>) = 0 /\ DOMAIN <<>> = {}
  BY EmptySeq
<1>8. /\ new \in Slots
      /\ new.home = home /\ new.since = published /\ new.history = <<>> /\ new.got = <<>>
      /\ new.resolvers = <<>> /\ new.cursor = 0
  BY <1>2, <1>4, <1>6, <1>7 DEF Slots
<1>9. SubOK(new, published)
  BY <1>7, <1>8 DEF SubOK, InOrder, Rising, Complete
<1>10. /\ slot' \in Seq(Slots)
       /\ Len(slot') = Len(slot) + 1
       /\ \A s \in 1..Len(slot) : slot'[s] = slot[s]
       /\ slot'[Len(slot) + 1] = new
  BY <1>3, <1>4, <1>8, AppendProperties
<1>11. DOMAIN slot' = 1..(Len(slot) + 1)
  BY <1>10, LenProperties
<1>12. PubSubTypes'
  BY <1>3, <1>5, <1>6, <1>10 DEF PubSubTypes
<1>13. ASSUME NEW s \in DOMAIN slot PROVE SubOK(slot[s], published) /\ Heard(slot[s])'
  <2>1. SubOK(slot[s], published) /\ Heard(slot[s]) /\ slot'[s] = slot[s]
    BY <1>4, <1>5, <1>10
  <2>2. channel # None => channel' = channel
    BY <1>1, <1>3
  <2> QED
    BY <1>3, <2>1, <2>2 DEF Heard
<1>14. ASSUME NEW s, s = Len(slot) + 1 PROVE Heard(slot[s])'
  <2>1. slot'[s] = new
    BY <1>10, <1>14
  <2> QED
    BY <1>3, <1>4, <1>6, <1>7, <1>8, <2>1 DEF Heard
<1>15. ASSUME NEW s \in DOMAIN slot' PROVE SubOK(slot'[s], published') /\ Heard(slot[s])'
  <2>1. CASE s \in DOMAIN slot
    BY <1>3, <1>5, <1>10, <1>13, <2>1
  <2>2. CASE s = Len(slot) + 1
    BY <1>3, <1>9, <1>10, <1>14, <2>2
  <2>3. s \in DOMAIN slot \/ s = Len(slot) + 1
    BY <1>5, <1>11, <1>15
  <2> QED
    BY <2>1, <2>2, <2>3
<1> QED
  BY <1>3, <1>4, <1>12, <1>15 DEF Subscriptions

LEMMA PublishPubSub ==
  ASSUME IInv, Publish
  PROVE  PubSubTypes' /\ Subscriptions'
<1>1. PICK n : n = published + 1
  OBVIOUS
<1>2. /\ published' = n
      /\ slot' = [s \in DOMAIN slot |->
                   IF channel # None /\ s \in Members(channel)
                   THEN Pushed(slot[s], n) ELSE slot[s]]
      /\ UNCHANGED <<channel, stopped>>
      /\ ~stopped
  BY <1>1 DEF Publish, Called
<1>3. /\ slot \in Seq(Slots)
      /\ channel \in 0..Len(slot)
      /\ published \in Nat /\ n \in Nat
      /\ \A s \in DOMAIN slot : SubOK(slot[s], published) /\ Heard(slot[s])
  BY <1>1 DEF IInv, PubSubTypes, Subscriptions
<1>4. DOMAIN slot' = DOMAIN slot
  BY <1>2
<1>5. ASSUME NEW s \in DOMAIN slot PROVE SubOK(slot'[s], n) /\ Heard(slot[s])'
  <2>1. SubOK(slot[s], published) /\ Heard(slot[s])
    BY <1>3
  <2>2. CASE channel # None /\ s \in Members(channel)
    <3>1. PICK sub : sub = slot[s]
      OBVIOUS
    <3>2. PICK new : new = Pushed(sub, published + 1)
      OBVIOUS
    <3>3. slot'[s] = new
      BY <1>1, <1>2, <2>2, <3>1, <3>2
    <3>4. /\ SubOK(new, n)
          /\ new.history = Append(sub.history, n)
          /\ new.home = sub.home /\ new.open = sub.open
          /\ new.since = sub.since /\ new.evicted = sub.evicted
      <4>1. PICK p \in Nat : p = published
        BY <1>3
      <4>2. SubOK(sub, p) /\ new = Pushed(sub, p + 1)
        BY <2>1, <3>1, <3>2, <4>1
      <4>3. /\ SubOK(new, p + 1)
            /\ new.history = Append(sub.history, p + 1)
            /\ new.home = sub.home /\ new.open = sub.open
            /\ new.since = sub.since /\ new.evicted = sub.evicted
        BY <4>2, PushedOK
      <4> QED
        BY <1>1, <4>1, <4>3
    <3>5. Shape(sub)
      BY <2>1, <3>1, SlotTypes DEF SubOK
    <3>6. PICK q : q = sub.history
      OBVIOUS
    <3>7. q \in Seq(Nat) /\ Len(q) \in Nat /\ DOMAIN q = 1..Len(q)
      BY <3>5, <3>6 DEF Shape
    <3>8. PICK r : r = Append(q, n)
      OBVIOUS
    <3>9. /\ r \in Seq(Nat)
          /\ Len(r) = Len(q) + 1
          /\ r[Len(q) + 1] = n
          /\ \A i \in 1..Len(q) : r[i] = q[i]
      BY <1>3, <3>7, <3>8, AppendProperties
    <3>10. DOMAIN r = 1..(Len(q) + 1)
      BY <3>9, LenProperties
    <3>11. sub.open /\ ~sub.evicted =>
             /\ channel # None /\ sub.home = channel
             /\ sub.since \in 0..published
             /\ Len(q) = published - sub.since
             /\ \A i \in DOMAIN q : q[i] = sub.since + i
      BY <1>2, <2>1, <3>1, <3>6 DEF Heard
    <3>12. sub.open /\ ~sub.evicted =>
             /\ sub.since \in 0..n
             /\ Len(r) = n - sub.since
             /\ \A i \in DOMAIN r : r[i] = sub.since + i
      <4> SUFFICES ASSUME sub.open /\ ~sub.evicted
                   PROVE  /\ sub.since \in 0..n
                          /\ Len(r) = n - sub.since
                          /\ \A i \in DOMAIN r : r[i] = sub.since + i
        OBVIOUS
      <4>1. sub.since \in 0..n /\ Len(r) = n - sub.since
        BY SMTT(30), <1>1, <1>3, <3>7, <3>9, <3>11
      <4>2. ASSUME NEW i \in DOMAIN r PROVE r[i] = sub.since + i
        <5>1. CASE i \in DOMAIN q
          BY <3>7, <3>9, <3>11, <5>1
        <5>2. CASE i = Len(q) + 1
          BY SMTT(30), <1>1, <1>3, <3>7, <3>9, <3>11, <5>2
        <5>3. i \in DOMAIN q \/ i = Len(q) + 1
          BY <3>7, <3>10
        <5> QED
          BY <5>1, <5>2, <5>3
      <4> QED
        BY <4>1, <4>2
    <3>13. new.history = r
      BY <3>4, <3>6, <3>8
    <3> QED
      BY <1>2, <3>3, <3>4, <3>11, <3>12, <3>13 DEF Heard
  <2>3. CASE ~(channel # None /\ s \in Members(channel))
    <3>1. slot'[s] = slot[s]
      BY <1>2, <2>3
    <3>2. SubOK(slot[s], n)
      BY <1>1, <1>3, <2>1, LaterOK
    <3>3. ~(slot[s].open /\ ~slot[s].evicted)
      BY <1>2, <2>1, <2>3 DEF Heard, Members
    <3> QED
      BY <3>1, <3>2, <3>3 DEF Heard
  <2> QED
    BY <2>2, <2>3
<1>6. slot' = [s \in DOMAIN slot |-> slot'[s]]
  BY <1>2
<1>7. \A s \in DOMAIN slot : slot'[s] \in Slots
  BY <1>5 DEF SubOK
<1>8. slot' \in Seq(Slots) /\ Len(slot') = Len(slot)
  <2>1. PICK r : r = slot'
    OBVIOUS
  <2> QED
    BY <1>3, <1>6, <1>7, <2>1, Replaced
<1>9. PubSubTypes'
  BY <1>2, <1>3, <1>8 DEF PubSubTypes
<1> QED
  BY <1>2, <1>3, <1>4, <1>5, <1>9 DEF Subscriptions

LEMMA ClosePubSub ==
  ASSUME IInv, NEW s \in DOMAIN slot, Close(s)
  PROVE  PubSubTypes' /\ Subscriptions'
<1>1. PICK empty \in BOOLEAN :
        /\ empty <=> Members(slot[s].home) \subseteq {s}
        /\ slot' = [t \in DOMAIN slot |->
             IF t = s THEN [slot[t] EXCEPT !.open = FALSE]
             ELSE [slot[t] EXCEPT !.evicted = @ \/ (empty /\ t \in Members(channel))]]
        /\ channel' = IF empty THEN 0 ELSE channel
        /\ UNCHANGED <<published, stopped>>
  <2>1. PICK empty \in BOOLEAN : empty = (Members(slot[s].home) \subseteq {s})
    OBVIOUS
  <2> QED
    BY <2>1 DEF Close, None
<1>2. /\ slot \in Seq(Slots)
      /\ channel \in 0..Len(slot)
      /\ stopped => channel = None
      /\ published \in Nat
      /\ \A t \in DOMAIN slot : SubOK(slot[t], published) /\ Heard(slot[t])
  BY DEF IInv, PubSubTypes, Subscriptions
<1>3. DOMAIN slot' = DOMAIN slot
  BY <1>1
<1>4. ASSUME NEW t \in DOMAIN slot PROVE SubOK(slot'[t], published) /\ Heard(slot[t])'
  <2>1. SubOK(slot[t], published) /\ Heard(slot[t])
    BY <1>2
  <2>2. CASE t = s
    <3>1. slot'[t] = [slot[t] EXCEPT !.open = FALSE]
      BY <1>1, <2>2
    <3>2. SubOK(slot'[t], published) /\ slot'[t].open = FALSE
      <4>1. PICK sub, new : sub = slot[t] /\ new = slot'[t]
        OBVIOUS
      <4> QED
        BY ZenonT(60), <1>2, <2>1, <3>1, <4>1, FlagsOK
    <3> QED
      BY <3>2 DEF Heard
  <2>3. CASE t # s
    <3>1. PICK sub, new : sub = slot[t] /\ new = slot'[t]
      OBVIOUS
    <3>2. PICK b \in BOOLEAN : b <=> (sub.evicted \/ (empty /\ t \in Members(channel)))
      OBVIOUS
    <3>3. sub.evicted \in BOOLEAN
      BY <2>1, <3>1, SlotTypes DEF SubOK, Shape
    <3>4. new = [sub EXCEPT !.evicted = b]
      BY <1>1, <2>3, <3>1, <3>2, <3>3
    <3>5. /\ SubOK(new, published)
          /\ new.history = sub.history /\ new.home = sub.home /\ new.since = sub.since
          /\ new.open = sub.open /\ new.evicted = b
      BY <1>2, <2>1, <3>1, <3>4, FlagsOK
    <3>6. ASSUME sub.open, ~b, ~stopped PROVE channel' = channel
      <4>1. channel # None /\ sub.home = channel /\ t \in Members(channel)
        BY <2>1, <3>1, <3>2, <3>6 DEF Heard, Members
      <4>2. ~empty
        BY <3>2, <3>6, <4>1
      <4> QED
        BY <1>1, <4>2
    <3>7. ~sub.evicted \/ b
      BY <3>2, <3>3
    <3> QED
      BY <1>1, <2>1, <3>1, <3>5, <3>6, <3>7 DEF Heard
  <2> QED
    BY <2>2, <2>3
<1>5. slot' = [t \in DOMAIN slot |-> slot'[t]]
  BY <1>1
<1>6. \A t \in DOMAIN slot : slot'[t] \in Slots
  BY <1>4 DEF SubOK
<1>7. slot' \in Seq(Slots) /\ Len(slot') = Len(slot)
  <2>1. PICK r : r = slot'
    OBVIOUS
  <2> QED
    BY <1>2, <1>5, <1>6, <2>1, Replaced
<1>8. PubSubTypes'
  <2>1. Len(slot) \in Nat
    BY <1>2, LenProperties
  <2> QED
    BY <1>1, <1>2, <1>7, <2>1 DEF PubSubTypes, None
<1> QED
  BY <1>1, <1>2, <1>3, <1>4, <1>8 DEF Subscriptions

-----------------------------------------------------------------------------
\* The invariant, and what follows from it.

LEMMA InitIInv == Init => IInv
<1> SUFFICES ASSUME Init PROVE IInv
  OBVIOUS
<1>1. /\ lag \in Lags /\ entry = <<>> /\ pending = <<>> /\ slot = <<>>
      /\ store = [m \in Masters |-> [k \in Keys |-> None]]
      /\ expiryTimer = FALSE /\ channel = None /\ published = 0 /\ stopped = FALSE
      /\ raced = {}
  BY DEF Init
<1>2. \A S : <<>> \in Seq(S)
  BY EmptySeq
<1>3. Len(<<>>) = 0 /\ DOMAIN <<>> = {}
  BY EmptySeq
<1>4. StoreTypes
  BY <1>1, <1>2, <1>3 DEF StoreTypes, Versions, None
<1>5. PubSubTypes /\ Subscriptions
  BY <1>1, <1>2, <1>3 DEF PubSubTypes, Subscriptions, None
<1>6. Replicas
  <2> SUFFICES ASSUME NEW k \in Keys PROVE Replicated(k)
    BY DEF Replicas
  <2>1. PendingOf(k) = {}
    BY <1>1, <1>3 DEF PendingOf
  <2>2. \A m \in Masters : Visible(m, k) = None
    BY <1>1 DEF Visible, Missing
  <2> QED
    BY <2>1, <2>2 DEF Replicated
<1> QED
  BY <1>4, <1>5, <1>6 DEF IInv

LEMMA NextIInv == IInv /\ [Next]_vars => IInv'
<1> SUFFICES ASSUME IInv, [Next]_vars PROVE IInv'
  OBVIOUS
<1>1. (StoreTypes' /\ Replicas') /\ (PubSubTypes' /\ Subscriptions') => IInv'
  BY DEF IInv
<1>2. ASSUME NEW k \in Keys, NEW m \in Masters, Get(m, k) PROVE IInv'
  <2>1. UNCHANGED <<pubSubVars, stopped>>
    BY <1>2 DEF Get
  <2> QED
    BY <1>1, <1>2, <2>1, GetStore, StoreOnly
<1>3. ASSUME NEW k \in Keys, NEW m \in Masters, NEW timed \in BOOLEAN, Set(m, k, timed)
      PROVE  IInv'
  <2>1. Write(m, k, timed) /\ ~stopped /\ UNCHANGED <<pubSubVars, stopped>>
    BY <1>3 DEF Set, Called, Write
  <2> QED
    BY <1>1, <2>1, WriteStore, StoreOnly
<1>4. ASSUME NEW k \in Keys, Expire(k) PROVE IInv'
  <2>1. /\ Write(Primary, k, TRUE) /\ ~stopped /\ UNCHANGED <<pubSubVars, stopped>>
        /\ Primary \in Masters
    BY <1>4, KeyDBAssumption DEF Expire, Called, Write, KeyDBAssumption
  <2> QED
    BY <1>1, <2>1, WriteStore, StoreOnly
<1>5. ASSUME NEW k \in Keys, Delete(k) PROVE IInv'
  <2>1. UNCHANGED <<pubSubVars, stopped>>
    BY <1>5 DEF Delete
  <2> QED
    BY <1>1, <1>5, <2>1, DeleteStore, StoreOnly
<1>6. CASE ReplicationFires
  <2>1. UNCHANGED <<pubSubVars, stopped>>
    BY <1>6 DEF ReplicationFires
  <2> QED
    BY <1>1, <1>6, <2>1, ReplicationFiresStore, StoreOnly
<1>7. ASSUME NEW v \in Versions, Clock(v) PROVE IInv'
  <2>1. UNCHANGED <<pubSubVars, stopped>>
    BY <1>7 DEF Clock
  <2> QED
    BY <1>1, <1>7, <2>1, ClockStore, StoreOnly
<1>8. CASE ExpiryTick
  <2>1. UNCHANGED <<pubSubVars, stopped>>
    BY <1>8 DEF ExpiryTick
  <2> QED
    BY <1>1, <1>8, <2>1, ExpiryTickStore, StoreOnly
<1>9. CASE FlushAll
  <2>1. UNCHANGED <<pubSubVars, stopped>>
    BY <1>9 DEF FlushAll
  <2> QED
    BY <1>1, <1>9, <2>1, FlushAllStore, StoreOnly
<1>10. CASE Subscribe
  <2>1. UNCHANGED <<lag, storeVars, stopped>>
    BY <1>10 DEF Subscribe
  <2> QED
    BY <1>1, <1>10, <2>1, SubscribePubSub, PubSubOnly
<1>11. CASE Publish
  <2>1. UNCHANGED <<lag, storeVars, stopped>>
    BY <1>11 DEF Publish
  <2> QED
    BY <1>1, <1>11, <2>1, PublishPubSub, PubSubOnly
<1>12. ASSUME NEW s \in DOMAIN slot, NextMessage(s) PROVE IInv'
  <2>1. UNCHANGED <<lag, storeVars, stopped>>
    BY <1>12 DEF NextMessage
  <2> QED
    BY <1>1, <1>12, <2>1, NextMessagePubSub, PubSubOnly
<1>13. ASSUME NEW s \in DOMAIN slot, NextTimesOut(s) PROVE IInv'
  <2>1. UNCHANGED <<lag, storeVars, stopped>>
    BY <1>13 DEF NextTimesOut
  <2> QED
    BY <1>1, <1>13, <2>1, NextTimesOutPubSub, PubSubOnly
<1>14. ASSUME NEW s \in DOMAIN slot, Close(s) PROVE IInv'
  <2>1. UNCHANGED <<lag, storeVars, stopped>>
    BY <1>14 DEF Close
  <2> QED
    BY <1>1, <1>14, <2>1, ClosePubSub, PubSubOnly
<1>15. CASE Stop
  BY <1>1, <1>15, StopStore, StopPubSub
<1>16. CASE UNCHANGED vars
  <2>1. UNCHANGED <<lag, storeVars, pubSubVars, stopped>>
    BY <1>16 DEF vars
  <2> QED
    BY <1>1, <2>1, StoreOnly, PubSubOnly
<1>17. CASE Next
  BY <1>2, <1>3, <1>4, <1>5, <1>6, <1>7, <1>8, <1>9, <1>10, <1>11, <1>12, <1>13, <1>14,
     <1>15, <1>17 DEF Next
<1> QED
  BY <1>16, <1>17

\* The stores, the pending replications and the subscriptions keep what the
\* comments at the parts of IInv say, for any masters, keys and calls.
THEOREM SpecIInv == Spec => []IInv
BY InitIInv, NextIInv, PTL DEF Spec

\* Every variable has its type, whatever was called and whatever fired.
THEOREM SpecTypeOK == Spec => []TypeOK
<1>1. IInv => TypeOK
  <2> SUFFICES ASSUME IInv PROVE TypeOK
    OBVIOUS
  <2>1. StoreTypes /\ PubSubTypes /\ Subscriptions
    BY DEF IInv
  <2>2. \A s \in DOMAIN slot : slot[s].cursor <= Len(slot[s].history)
    BY <2>1 DEF Subscriptions, SubOK
  <2> QED
    BY <2>1, <2>2 DEF StoreTypes, PubSubTypes, TypeOK
<1> QED
  BY <1>1, SpecIInv, PTL

\* Eventual consistency for any masters: when no replication of a key is
\* pending, and none was raced, every master shows the same of it.
THEOREM SpecConverged == Spec => []Converged
<1>1. IInv => Converged
  BY DEF IInv, Replicas, Replicated, Converged
<1> QED
  BY <1>1, SpecIInv, PTL

LEMMA SubCaptured ==
  ASSUME NEW n \in Nat, NEW sub, SubOK(sub, n)
  PROVE  /\ /\ sub.since \in 0..n
            /\ Len(sub.history) = n - sub.since
            /\ \A i \in DOMAIN sub.history : sub.history[i] = sub.since + i
            => sub.history = [i \in 1..(n - sub.since) |-> sub.since + i]
         /\ \A i, j \in DOMAIN sub.got : i < j => sub.got[i] < sub.got[j]
         /\ ~sub.timedOut =>
              /\ sub.got = SubSeq(sub.history, 1, sub.cursor)
              /\ sub.resolvers # <<>> => sub.cursor = Len(sub.history)
<1>1. /\ sub.cursor <= Len(sub.history)
      /\ InOrder(sub, n)
      /\ Complete(sub)
      /\ Shape(sub)
  BY SlotTypes DEF SubOK
<1>2. PICK q, g, c : q = sub.history /\ g = sub.got /\ c = sub.cursor
  OBVIOUS
<1>3. /\ q \in Seq(Nat) /\ Len(q) \in Nat /\ DOMAIN q = 1..Len(q)
      /\ g \in Seq(Nat) /\ Len(g) \in Nat /\ DOMAIN g = 1..Len(g)
      /\ c \in Nat /\ c <= Len(q) /\ sub.since \in Nat
  BY <1>1, <1>2 DEF Shape
<1>4. ASSUME Len(q) = n - sub.since, \A i \in DOMAIN q : q[i] = sub.since + i
      PROVE  q = [i \in 1..(n - sub.since) |-> sub.since + i]
  <2>1. q \in [1..Len(q) -> Nat]
    BY <1>3, LenProperties
  <2>2. q = [i \in 1..Len(q) |-> q[i]]
    BY <2>1
  <2> QED
    BY <1>3, <1>4, <2>2
<1>5. ASSUME ~sub.timedOut PROVE g = SubSeq(q, 1, c)
  <2>1. Len(g) = c /\ \A i \in DOMAIN g : g[i] = q[i]
    BY <1>1, <1>2, <1>5 DEF Complete
  <2>2. PICK p : p = SubSeq(q, 1, c)
    OBVIOUS
  <2>3. p \in Seq(Nat) /\ Len(p) = c /\ \A i \in 1..c : p[i] = q[i]
    <3>1. \A i \in 1..c : q[i] \in Nat
      BY <1>3, ElementOfSeq
    <3>2. p = [i \in 1..c |-> q[i]]
      BY <1>3, <2>2
    <3>3. p \in Seq(Nat)
      <4>1. p \in [1..c -> Nat]
        BY <3>1, <3>2
      <4> QED
        BY <1>3, <4>1, SeqDef
    <3>4. Len(p) \in Nat /\ DOMAIN p = 1..Len(p)
      BY <3>3, LenProperties
    <3>5. DOMAIN p = 1..c
      BY <3>2
    <3>6. Len(p) = c
      <4>1. PICK size \in Nat : size = Len(p) /\ 1..size = 1..c
        BY <3>4, <3>5
      <4>2. size \in 1..size <=> size \in 1..c
        BY <4>1
      <4>3. c \in 1..size <=> c \in 1..c
        BY <4>1
      <4> QED
        BY <1>3, <4>1, <4>2, <4>3
    <3> QED
      BY <3>2, <3>3, <3>6
  <2>4. g = p
    BY <1>3, <2>1, <2>3, SeqEqual
  <2> QED
    BY <2>2, <2>4
<1>6. \A i, j \in DOMAIN sub.got : i < j => sub.got[i] < sub.got[j]
  BY <1>1 DEF InOrder, Rising
<1> QED
  BY <1>1, <1>2, <1>4, <1>5, <1>6 DEF Complete

\* For any subscriptions, closes and timeouts: what the members of the Set
\* that the Map has capture is every publish since, in order, and next()
\* returns it in order, all of it until a next() times out.
THEOREM SpecCaptured == Spec => []Captured
<1>1. IInv => Captured
  <2> SUFFICES ASSUME IInv, NEW s \in DOMAIN slot
               PROVE  LET sub == slot[s] IN
                 /\ sub.open /\ ~sub.evicted /\ ~stopped =>
                      sub.history = [i \in 1..(published - sub.since) |-> sub.since + i]
                 /\ \A i, j \in DOMAIN sub.got : i < j => sub.got[i] < sub.got[j]
                 /\ ~sub.timedOut =>
                      /\ sub.got = SubSeq(sub.history, 1, sub.cursor)
                      /\ sub.resolvers # <<>> => sub.cursor = Len(sub.history)
    BY DEF Captured
  <2>1. PICK sub, n : sub = slot[s] /\ n = published
    OBVIOUS
  <2>2. n \in Nat /\ SubOK(sub, n) /\ Heard(sub)
    BY <2>1 DEF IInv, Subscriptions
  <2>3. sub.open /\ ~sub.evicted /\ ~stopped =>
          /\ sub.since \in 0..n
          /\ Len(sub.history) = n - sub.since
          /\ \A i \in DOMAIN sub.history : sub.history[i] = sub.since + i
    BY <2>1, <2>2 DEF Heard
  <2>4. /\ sub.open /\ ~sub.evicted /\ ~stopped =>
             sub.history = [i \in 1..(n - sub.since) |-> sub.since + i]
        /\ \A i, j \in DOMAIN sub.got : i < j => sub.got[i] < sub.got[j]
        /\ ~sub.timedOut =>
             /\ sub.got = SubSeq(sub.history, 1, sub.cursor)
             /\ sub.resolvers # <<>> => sub.cursor = Len(sub.history)
    <3>1. /\ /\ sub.since \in 0..n
             /\ Len(sub.history) = n - sub.since
             /\ \A i \in DOMAIN sub.history : sub.history[i] = sub.since + i
             => sub.history = [i \in 1..(n - sub.since) |-> sub.since + i]
          /\ \A i, j \in DOMAIN sub.got : i < j => sub.got[i] < sub.got[j]
          /\ ~sub.timedOut =>
               /\ sub.got = SubSeq(sub.history, 1, sub.cursor)
               /\ sub.resolvers # <<>> => sub.cursor = Len(sub.history)
      BY <2>2, SubCaptured
    <3> QED
      BY <2>3, <3>1
  <2> QED
    BY <2>1, <2>4
<1> QED
  BY <1>1, SpecIInv, PTL

-----------------------------------------------------------------------------
\* Without a lag the masters are one store.

\* Nothing is ever raced: a race takes a pending replication.
Synchronous == ~lag => raced = {}

LEMMA NothingPending ==
  ASSUME IInv, ~lag
  PROVE  pending = <<>> /\ \A k \in Keys : PendingOf(k) = {}
<1>1. pending = <<>>
  BY DEF IInv, StoreTypes
<1>2. DOMAIN pending = {}
  BY <1>1
<1> QED
  BY <1>1, <1>2 DEF PendingOf

LEMMA NextSynchronous ==
  ASSUME IInv, Synchronous, [Next]_vars
  PROVE  Synchronous' /\ lag' = lag
<1>1. lag' = lag
  BY DEF Next, Set, Expire, Write, Delete, Get, ReplicationFires, Clock, ExpiryTick,
         FlushAll, Subscribe, Publish, NextMessage, NextTimesOut, Close, Stop, vars
<1>2. SUFFICES ASSUME ~lag, raced = {}, \A k \in Keys : PendingOf(k) = {}
               PROVE  raced' = {}
  BY <1>1, NothingPending DEF Synchronous
<1>3. ASSUME NEW m \in Masters, NEW k \in Keys, NEW v, Replicate(m, k, v)
      PROVE  raced' = {}
  BY <1>2, <1>3 DEF Replicate, Races
<1>4. CASE FlushAll
  BY <1>2, <1>4 DEF FlushAll
<1>5. ASSUME NEW m \in Masters, NEW k \in Keys, NEW timed \in BOOLEAN, Write(m, k, timed)
      PROVE  raced' = {}
  BY <1>3, <1>5 DEF Write
<1>6. CASE UNCHANGED raced
  BY <1>2, <1>6
<1>7. Primary \in Masters
  BY KeyDBAssumption DEF KeyDBAssumption
<1> QED
  BY <1>3, <1>4, <1>5, <1>6, <1>7
  DEF Next, Set, Expire, Delete, Get, ReplicationFires, Clock, ExpiryTick,
      Subscribe, Publish, NextMessage, NextTimesOut, Close, Stop, vars, storeVars

LEMMA MastersAgree ==
  ASSUME IInv, Synchronous, ~lag, NEW k \in Keys, NEW m \in Masters
  PROVE  Visible(m, k) = Agreed[k]
<1>1. \A n \in Masters : Visible(n, k) = Visible(Primary, k)
  BY NothingPending, KeyDBAssumption
  DEF KeyDBAssumption, IInv, Replicas, Replicated, Synchronous
<1> QED
  BY <1>1 DEF Agreed

\* What masters agree on after a step in which each comes to show f.
LEMMA AgreedAfter ==
  ASSUME NEW f, f = [k \in Keys |-> f[k]],
         \A m \in Masters, k \in Keys : Visible(m, k)' = f[k]
  PROVE  Agreed' = f
BY KeyDBAssumption DEF KeyDBAssumption, Agreed

LEMMA AgreedStays ==
  ASSUME IInv, Synchronous, ~lag,
         \A m \in Masters, k \in Keys : Visible(m, k)' = Visible(m, k)
  PROVE  Agreed' = Agreed
<1>1. PICK f : f = Agreed
  OBVIOUS
<1>2. f = [k \in Keys |-> f[k]]
  BY <1>1 DEF Agreed
<1>3. \A m \in Masters, k \in Keys : Visible(m, k)' = f[k]
  BY <1>1, MastersAgree
<1> QED
  BY <1>1, <1>2, <1>3, AgreedAfter

\* A write or delete through any master changes what all of them show.
LEMMA StoredEverywhere ==
  ASSUME IInv, Synchronous, ~lag, NEW m \in Masters, NEW k \in Keys,
         NEW v, v \in Versions' \cup {None}, v # None => entry'[v] # "over",
         Versions \subseteq Versions', \A w \in Versions : entry'[w] = entry[w],
         Replicate(m, k, v)
  PROVE  Agreed' = [Agreed EXCEPT ![k] = v]
<1>1. store' = [n \in Masters |-> [store[n] EXCEPT ![k] = v]]
  BY DEF Replicate, Stored
<1>2. \A n \in Masters : store[n] \in [Keys -> Versions \cup {None}]
  BY DEF IInv, StoreTypes
<1>3. \A n \in Masters, l \in Keys :
        store'[n][l] = IF l = k THEN v ELSE store[n][l]
  BY <1>1, <1>2
<1>4. \A n \in Masters, l \in Keys :
        Visible(n, l)' = IF l = k THEN v ELSE Visible(n, l)
  BY <1>2, <1>3 DEF Visible, Missing
<1>5. PICK f : f = [Agreed EXCEPT ![k] = v]
  OBVIOUS
<1>6. /\ f = [l \in Keys |-> f[l]]
      /\ \A l \in Keys : f[l] = IF l = k THEN v ELSE Agreed[l]
  BY <1>5 DEF Agreed
<1>7. \A n \in Masters, l \in Keys : Visible(n, l)' = f[l]
  BY <1>4, <1>6, MastersAgree
<1> QED
  BY <1>5, <1>6, <1>7, AgreedAfter

LEMMA WriteIsPut ==
  ASSUME IInv, Synchronous, ~lag, NEW m \in Masters, NEW k \in Keys, NEW timed \in BOOLEAN,
         Write(m, k, timed)
  PROVE  Cluster!Next
<1>1. PICK kind \in {"forever", "timed"} :
        /\ kind = IF timed THEN "timed" ELSE "forever"
        /\ entry' = Append(entry, kind)
  BY DEF Write
<1>2. PICK v : v = Len(entry) + 1
  OBVIOUS
<1>3. /\ Len(entry') = v /\ v \in Nat \ {0}
      /\ v \in Versions' /\ Versions \subseteq Versions'
      /\ entry'[v] = kind
      /\ \A w \in Versions : entry'[w] = entry[w]
  BY <1>1, <1>2, AppendProperties, LenProperties DEF IInv, StoreTypes, Versions
<1>4. Replicate(m, k, v)
  BY <1>3 DEF Write
<1>5. Agreed' = [Agreed EXCEPT ![k] = v]
  <2>1. v \in Versions' \cup {None} /\ entry'[v] # "over"
    BY <1>3
  <2>2. Versions \subseteq Versions' /\ \A w \in Versions : entry'[w] = entry[w]
    BY <1>3
  <2> HIDE <1>3
  <2> QED
    BY <1>4, <2>1, <2>2, StoredEverywhere
<1>6. Cluster!Put(k, timed)
  BY <1>1, <1>3, <1>5 DEF Cluster!Put
<1> QED
  BY <1>6 DEF Cluster!Next

LEMMA DeleteIsRemove ==
  ASSUME IInv, Synchronous, ~lag, NEW k \in Keys, Delete(k)
  PROVE  Cluster!Next
<1>1. /\ Replicate(Primary, k, None) /\ Primary \in Masters
      /\ entry' = entry /\ Versions' = Versions
  BY KeyDBAssumption DEF KeyDBAssumption, Delete, Versions
<1>2. Agreed' = [Agreed EXCEPT ![k] = None]
  BY <1>1, StoredEverywhere
<1>3. Cluster!Remove(k)
  BY <1>1, <1>2 DEF Cluster!Remove, None
<1> QED
  BY <1>3 DEF Cluster!Next

LEMMA ClockIsLapse ==
  ASSUME IInv, Synchronous, ~lag, NEW v \in Versions, Clock(v)
  PROVE  Cluster!Next
<1>1. /\ entry' = [entry EXCEPT ![v] = "over"]
      /\ entry[v] = "timed"
      /\ store' = store
  BY DEF Clock
<1>2. \A w \in Versions : entry'[w] = IF w = v THEN "over" ELSE entry[w]
  BY <1>1, VersionsAreNumbers DEF IInv, StoreTypes, Versions
<1>3. None \notin Versions
  BY VersionsAreNumbers DEF IInv
<1>4. \A m \in Masters, k \in Keys : store[m][k] \in Versions \cup {None}
  BY DEF IInv, StoreTypes
<1>5. \A m \in Masters, k \in Keys :
        Visible(m, k)' = IF Visible(m, k) = v THEN None ELSE Visible(m, k)
  BY <1>1, <1>2, <1>3, <1>4 DEF Visible, Missing
<1>6. PICK f : f = [k \in Keys |-> IF Agreed[k] = v THEN 0 ELSE Agreed[k]]
  OBVIOUS
<1>7. \A m \in Masters, k \in Keys : Visible(m, k)' = f[k]
  BY <1>5, <1>6, MastersAgree DEF None
<1>8. Agreed' = f
  BY <1>6, <1>7, AgreedAfter
<1>9. Cluster!Lapse(v)
  BY <1>1, <1>6, <1>8 DEF Cluster!Lapse
<1> QED
  BY <1>9 DEF Cluster!Next, Versions

LEMMA EmptiedIsClear ==
  ASSUME store' = [m \in Masters |-> [k \in Keys |-> None]], entry' = entry
  PROVE  Cluster!Next
<1>1. \A m \in Masters, k \in Keys : Visible(m, k)' = 0
  BY DEF Visible, Missing, None
<1>2. PICK f : f = [k \in Keys |-> 0]
  OBVIOUS
<1>3. Agreed' = f
  BY <1>1, <1>2, AgreedAfter
<1> QED
  BY <1>2, <1>3 DEF Cluster!Next, Cluster!Clear

\* Deleting what is over changes nothing that anybody sees.
LEMMA OverIsInvisible ==
  ASSUME IInv, Synchronous, ~lag, entry' = entry,
         \A m \in Masters, k \in Keys :
           store'[m][k] = store[m][k] \/ (Missing(m, k) /\ store'[m][k] = None)
  PROVE  UNCHANGED (Cluster!storeVars)
<1>1. \A m \in Masters, k \in Keys : Visible(m, k)' = Visible(m, k)
  BY DEF Visible, Missing
<1> QED
  BY <1>1, AgreedStays DEF Cluster!storeVars

LEMMA NextIsOneStore ==
  ASSUME IInv, Synchronous, [Next]_vars
  PROVE  [lag \/ Cluster!Next]_(Cluster!storeVars)
<1> SUFFICES ASSUME ~lag PROVE [Cluster!Next]_(Cluster!storeVars)
  OBVIOUS
<1>1. Primary \in Masters
  BY KeyDBAssumption DEF KeyDBAssumption
<1>2. ASSUME NEW k \in Keys, NEW m \in Masters, Get(m, k)
      PROVE  UNCHANGED (Cluster!storeVars)
  <2>1. /\ store' = [n \in Masters |-> IF n \in {m} THEN [store[n] EXCEPT ![k] = None] ELSE store[n]]
        /\ entry' = entry
        /\ Missing(m, k)
    BY <1>2 DEF Get, Stored
  <2>2. \A n \in Masters : store[n] \in [Keys -> Versions \cup {None}]
    BY DEF IInv, StoreTypes
  <2>3. \A n \in Masters, l \in Keys :
          store'[n][l] = IF n = m /\ l = k THEN None ELSE store[n][l]
    BY <2>1, <2>2
  <2> QED
    BY <2>1, <2>3, OverIsInvisible
<1>3. ASSUME NEW k \in Keys, NEW m \in Masters, NEW timed \in BOOLEAN, Set(m, k, timed)
      PROVE  Cluster!Next
  BY <1>3, WriteIsPut DEF Set
<1>4. ASSUME NEW k \in Keys, Expire(k) PROVE Cluster!Next
  BY <1>1, <1>4, WriteIsPut DEF Expire
<1>5. ASSUME NEW k \in Keys, Delete(k) PROVE Cluster!Next
  BY <1>5, DeleteIsRemove
<1>6. ~ReplicationFires
  BY NothingPending DEF ReplicationFires
<1>7. ASSUME NEW v \in Versions, Clock(v) PROVE Cluster!Next
  BY <1>7, ClockIsLapse
<1>8. CASE ExpiryTick
  BY <1>8, OverIsInvisible DEF ExpiryTick
<1>9. CASE FlushAll \/ Stop
  BY <1>9, EmptiedIsClear DEF FlushAll, Stop
<1>10. CASE UNCHANGED <<entry, store>>
  BY <1>10, OverIsInvisible
<1> QED
  BY <1>2, <1>3, <1>4, <1>5, <1>6, <1>7, <1>8, <1>9, <1>10
  DEF Next, Subscribe, Publish, NextMessage, NextTimesOut, Close, vars, storeVars

LEMMA InitIsOneStore ==
  ASSUME Init
  PROVE  Cluster!Init
<1>1. \A m \in Masters, k \in Keys : Visible(m, k) = 0
  BY DEF Init, Visible, Missing, None
<1>2. Agreed = [k \in Keys |-> 0]
  BY <1>1, KeyDBAssumption DEF Agreed, KeyDBAssumption
<1> QED
  BY <1>2 DEF Init, Cluster!Init

\* A cluster without a lag implements a single store, for any masters and
\* keys: reads through any master see the latest write or delete.
THEOREM SpecSynchronousIsOneStore == Spec => SynchronousIsOneStore
<1>1. Init => Synchronous
  BY DEF Init, Synchronous
<1>2. IInv /\ Synchronous /\ [Next]_vars => Synchronous'
  BY NextSynchronous
<1>3. Spec => []Synchronous
  BY <1>1, <1>2, SpecIInv, PTL DEF Spec
<1>4. Init => (~lag => Cluster!Init)
  BY InitIsOneStore
<1>5. IInv /\ Synchronous /\ [Next]_vars => [lag \/ Cluster!Next]_(Cluster!storeVars)
  BY NextIsOneStore
<1> QED
  BY <1>3, <1>4, <1>5, SpecIInv, PTL DEF Spec, SynchronousIsOneStore

\* Without a lag no two masters ever show different values (T-KDB-025).
THEOREM MastersAgreeWithoutLag ==
  Spec => [](~lag => \A m, n \in Masters, k \in Keys : Visible(m, k) = Visible(n, k))
<1>1. Init => Synchronous
  BY DEF Init, Synchronous
<1>2. IInv /\ Synchronous /\ [Next]_vars => Synchronous'
  BY NextSynchronous
<1>3. IInv /\ Synchronous =>
        (~lag => \A m, n \in Masters, k \in Keys : Visible(m, k) = Visible(n, k))
  <2> SUFFICES ASSUME IInv, Synchronous, ~lag, NEW m \in Masters, NEW n \in Masters,
                      NEW k \in Keys
               PROVE  Visible(m, k) = Visible(n, k)
    OBVIOUS
  <2> QED
    BY MastersAgree
<1> QED
  BY <1>1, <1>2, <1>3, SpecIInv, PTL DEF Spec

-----------------------------------------------------------------------------
\* Subscriptions that are closed once.

Undisturbed == \A s \in DOMAIN slot : slot[s].home # None /\ ~slot[s].evicted

\* No subscription is closed again.
ClosedOnce == [][\A s \in DOMAIN slot : Close(s) => slot[s].open]_vars

LEMMA NextUndisturbed ==
  ASSUME IInv, Undisturbed, [Next]_vars, \A s \in DOMAIN slot : Close(s) => slot[s].open
  PROVE  Undisturbed'
<1>1. /\ slot \in Seq(Slots) /\ published \in Nat
      /\ channel \in 0..Len(slot)
      /\ stopped => channel = None
      /\ \A s \in DOMAIN slot : SubOK(slot[s], published) /\ Heard(slot[s])
  BY DEF IInv, PubSubTypes, Subscriptions
<1>2. Len(slot) \in Nat /\ DOMAIN slot = 1..Len(slot)
  BY <1>1, LenProperties
<1>3. ASSUME NEW s \in DOMAIN slot, NEW new, slot' = [slot EXCEPT ![s] = new],
             new.home = slot[s].home, new.evicted = slot[s].evicted
      PROVE  Undisturbed'
  BY <1>3 DEF Undisturbed
<1>4. ASSUME NEW s \in DOMAIN slot, NextMessage(s) PROVE Undisturbed'
  <2>1. CASE slot[s].cursor < Len(slot[s].history)
    <3>1. PICK new : new = Read(slot[s])
      OBVIOUS
    <3>2. slot' = [slot EXCEPT ![s] = new]
      BY <1>4, <2>1, <3>1 DEF NextMessage
    <3>3. new.home = slot[s].home /\ new.evicted = slot[s].evicted
      BY <1>1, <2>1, <3>1, ReadOK
    <3> QED
      BY <1>3, <3>2, <3>3
  <2>2. CASE ~(slot[s].cursor < Len(slot[s].history))
    <3>1. PICK new : new = Waits(slot[s])
      OBVIOUS
    <3>2. slot' = [slot EXCEPT ![s] = new]
      BY <1>4, <2>2, <3>1 DEF NextMessage
    <3>3. new.home = slot[s].home /\ new.evicted = slot[s].evicted
      BY <1>1, <2>2, <3>1, WaitsOK
    <3> QED
      BY <1>3, <3>2, <3>3
  <2> QED
    BY <2>1, <2>2
<1>5. ASSUME NEW s \in DOMAIN slot, NextTimesOut(s) PROVE Undisturbed'
  <2>1. PICK i \in DOMAIN slot[s].resolvers : slot' = [slot EXCEPT ![s] = GivenUp(slot[s], i)]
    BY <1>5 DEF NextTimesOut
  <2>2. PICK new : new = GivenUp(slot[s], i)
    OBVIOUS
  <2>3. new.home = slot[s].home /\ new.evicted = slot[s].evicted
    BY <1>1, <2>2, GivenUpOK
  <2> QED
    BY <1>3, <2>1, <2>2, <2>3
<1>6. CASE Subscribe
  <2>1. PICK home, new :
          /\ home = IF channel = None THEN Len(slot) + 1 ELSE channel
          /\ new = [home |-> home, open |-> TRUE, history |-> <<>>, cursor |-> 0,
                    resolvers |-> <<>>, since |-> published, got |-> <<>>,
                    timedOut |-> FALSE, evicted |-> FALSE]
          /\ slot' = Append(slot, new)
    BY <1>6 DEF Subscribe
  <2>2. new.home # None /\ ~new.evicted
    BY <1>1, <1>2, <2>1 DEF None
  <2>3. /\ \A t \in DOMAIN slot' : t \in DOMAIN slot \/ t = Len(slot) + 1
        /\ \A t \in DOMAIN slot : slot'[t] = slot[t]
        /\ slot'[Len(slot) + 1] = new
    BY <1>1, <1>2, <2>1
  <2> QED
    BY <2>2, <2>3 DEF Undisturbed
<1>7. CASE Publish
  <2>1. slot' = [s \in DOMAIN slot |->
               IF channel # None /\ s \in Members(channel)
               THEN Pushed(slot[s], published + 1) ELSE slot[s]]
    BY <1>7 DEF Publish
  <2>2. ASSUME NEW s \in DOMAIN slot
        PROVE  slot'[s].home = slot[s].home /\ slot'[s].evicted = slot[s].evicted
    <3>1. PICK new : new = Pushed(slot[s], published + 1)
      OBVIOUS
    <3>2. new.home = slot[s].home /\ new.evicted = slot[s].evicted
      BY <1>1, <3>1, PushedOK
    <3>3. slot'[s] = new \/ slot'[s] = slot[s]
      BY <2>1, <3>1
    <3> QED
      BY <3>2, <3>3
  <2> QED
    BY <2>1, <2>2 DEF Undisturbed
<1>8. ASSUME NEW s \in DOMAIN slot, Close(s) PROVE Undisturbed'
  <2>1. PICK empty \in BOOLEAN :
          /\ empty <=> Members(slot[s].home) \subseteq {s}
          /\ slot' = [t \in DOMAIN slot |->
               IF t = s THEN [slot[t] EXCEPT !.open = FALSE]
               ELSE [slot[t] EXCEPT !.evicted = @ \/ (empty /\ t \in Members(channel))]]
    <3>1. PICK empty \in BOOLEAN : empty = (Members(slot[s].home) \subseteq {s})
      OBVIOUS
    <3> QED
      BY <1>8, <3>1 DEF Close
  <2>2. slot[s].open /\ ~slot[s].evicted
    BY <1>8 DEF Undisturbed
  <2>3. ASSUME NEW t \in DOMAIN slot, t # s PROVE ~(empty /\ t \in Members(channel))
    <3>1. CASE stopped
      BY <1>1, <3>1 DEF Members, Undisturbed
    <3>2. CASE ~stopped
      <4>1. slot[s].home = channel
        BY <1>1, <2>2, <3>2 DEF Heard
      <4> QED
        BY <2>1, <2>3, <4>1
    <3> QED
      BY <3>1, <3>2
  <2>4. ASSUME NEW t \in DOMAIN slot PROVE slot'[t].home # None /\ ~slot'[t].evicted
    <3>1. PICK sub \in Slots : sub = slot[t] /\ sub.home # None /\ sub.evicted = FALSE
      BY <1>1, SlotTypes DEF SubOK, Shape, Undisturbed
    <3>2. CASE t = s
      <4>1. slot'[t] = [sub EXCEPT !.open = FALSE]
        BY <2>1, <3>1, <3>2
      <4> QED
        BY <3>1, <4>1 DEF Slots
    <3>3. CASE t # s
      <4>1. PICK b \in BOOLEAN : b = (empty /\ t \in Members(channel))
        OBVIOUS
      <4>2. b = FALSE
        BY <2>3, <3>3, <4>1
      <4>3. slot'[t] = [sub EXCEPT !.evicted = @ \/ b]
        BY <2>1, <3>1, <3>3, <4>1
      <4>4. slot'[t] = [sub EXCEPT !.evicted = FALSE]
        BY <3>1, <4>2, <4>3
      <4> QED
        BY <3>1, <4>4 DEF Slots
    <3> QED
      BY <3>2, <3>3
  <2>5. DOMAIN slot' = DOMAIN slot
    BY <2>1
  <2> QED
    BY <2>4, <2>5 DEF Undisturbed
<1>9. CASE UNCHANGED slot
  BY <1>9 DEF Undisturbed
<1> QED
  BY <1>4, <1>5, <1>6, <1>7, <1>8, <1>9
  DEF Next, Get, Set, Write, Expire, Delete, ReplicationFires, Clock, ExpiryTick, FlushAll,
      Stop, vars, pubSubVars

\* While no subscription is closed twice, every one that is open captures
\* every publish since it was made, whoever else subscribes and closes.
THEOREM ClosedOnceAllHear == Spec /\ ClosedOnce => []EverySubsequentPublish
<1>1. Init => Undisturbed
  <2>1. DOMAIN <<>> = {}
    OBVIOUS
  <2> QED
    BY <2>1 DEF Init, Undisturbed
<1>2. /\ IInv /\ Undisturbed /\ [Next]_vars
      /\ [\A s \in DOMAIN slot : Close(s) => slot[s].open]_vars
      => Undisturbed'
  <2>1. UNCHANGED vars /\ Undisturbed => Undisturbed'
    BY DEF vars, pubSubVars, Undisturbed
  <2> QED
    BY <2>1, NextUndisturbed
<1>3. Captured /\ Undisturbed => EverySubsequentPublish
  BY DEF Captured, Undisturbed, EverySubsequentPublish
<1> QED
  BY <1>1, <1>2, <1>3, SpecIInv, SpecCaptured, PTL DEF Spec, ClosedOnce

-----------------------------------------------------------------------------
\* Writes that do not cross.

\* A write or a delete comes over the replication of another master's write of
\* the key, or a flush over any replication.
Crosses ==
  \/ \E m \in Masters, k \in Keys :
       /\ \E i \in PendingOf(k) : pending[i].from # m
       /\ \/ \E timed \in BOOLEAN : Set(m, k, timed)
          \/ m = Primary /\ (Expire(k) \/ Delete(k))
  \/ pending # <<>> /\ FlushAll

WritesInTurn == [][~Crosses]_vars

NothingRaced == raced = {}

LEMMA NextNothingRaced ==
  ASSUME NothingRaced, [Next]_vars, [~Crosses]_vars
  PROVE  NothingRaced'
<1>1. CASE UNCHANGED raced
  BY <1>1 DEF NothingRaced
<1>2. CASE ~UNCHANGED raced
  <2>1. ~Crosses
    BY <1>2 DEF vars, storeVars
  <2>2. ASSUME NEW m \in Masters, NEW k \in Keys, raced' = Races(m, k),
               \A i \in PendingOf(k) : pending[i].from = m
        PROVE  NothingRaced'
    BY <2>2 DEF Races, NothingRaced
  <2>3. ASSUME NEW m \in Masters, NEW k \in Keys, NEW timed \in BOOLEAN, Set(m, k, timed)
        PROVE  NothingRaced'
    BY <2>1, <2>2, <2>3 DEF Crosses, Set, Write, Replicate
  <2>4. ASSUME NEW k \in Keys, Expire(k) \/ Delete(k) PROVE NothingRaced'
    BY <2>1, <2>2, <2>4, KeyDBAssumption DEF Crosses, Expire, Delete, Write, Replicate
  <2>5. CASE FlushAll
    <3>1. \A k \in Keys : PendingOf(k) = {}
      BY <2>1, <2>5 DEF Crosses, PendingOf
    <3> QED
      BY <2>5, <3>1 DEF FlushAll, NothingRaced
  <2> QED
    BY <1>2, <2>3, <2>4, <2>5
    DEF Next, Get, ReplicationFires, Clock, ExpiryTick, Subscribe, Publish, NextMessage,
        NextTimesOut, Close, Stop, vars, storeVars
<1> QED
  BY <1>1, <1>2

\* The masters agree on every key whose replications have fired, without an
\* exception, for callers who let the replications of a key fire before they
\* write it at another master, and all of them before they flush.
THEOREM ConsistentInTurn == Spec /\ WritesInTurn => []EventualConsistency
<1>1. Init => NothingRaced
  BY DEF Init, NothingRaced
<1>2. NothingRaced /\ [Next]_vars /\ [~Crosses]_vars => NothingRaced'
  BY NextNothingRaced
<1>3. Converged /\ NothingRaced => EventualConsistency
  BY DEF Converged, NothingRaced, EventualConsistency
<1> QED
  BY <1>1, <1>2, <1>3, SpecConverged, PTL DEF Spec, WritesInTurn
=============================================================================
