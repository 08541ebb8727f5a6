-------------------------------- MODULE KeyDB --------------------------------
(***************************************************************************)
(* The in-process KeyDB of @kiwa-lab/cache, createStubKeyDBEnv of          *)
(* packages/cache/src/keydb/stub-keydb.ts: masters that replicate their    *)
(* writes after a lag, keys that expire, and one channel of its pub/sub.   *)
(*                                                                         *)
(* A write makes a version, which stands for the value and the expiresAt   *)
(* of an entry.  The timers of replication have one delay, so they fire in *)
(* the order of the calls.                                                 *)
(***************************************************************************)
EXTENDS Integers, Sequences, SequencesExt, FiniteSets

CONSTANTS
  Masters,     \* cluster
  Primary,     \* cluster[0]
  Keys,
  Lags,        \* the choices for replicationLagMs > 0
  MaxCalls,    \* bound: writes, publishes and subscribes
  MaxWaiting   \* bound: resolvers in the list of a subscription

ASSUME KeyDBAssumption ==
  /\ Primary \in Masters
  /\ Lags \subseteq BOOLEAN
  /\ MaxCalls \in Nat
  /\ MaxWaiting \in Nat

None == 0

VARIABLES
  lag,          \* replicationLagMs > 0
  entry,        \* the versions: "forever", "timed", or "over"
  store,        \* stores: the version under a key of a master, or None
  pending,      \* the timers of replicateWrite and replicateDelete
  expiryTimer,  \* expiryTimer # null
  slot,         \* the subscriptions of the channel
  channel,      \* subscribers.get(channel): the number of a Set, or None
  published,    \* messageIndex
  stopped,
  calls,        \* history: the calls that count for the bound
  raced         \* history: keys written or flushed over the replication of
                \* another master's write

storeVars == <<entry, store, pending, expiryTimer, raced>>
pubSubVars == <<slot, channel, published>>
vars == <<lag, storeVars, pubSubVars, stopped, calls>>

Versions == DOMAIN entry
PendingOf(k) == {i \in DOMAIN pending : pending[i].key = k}

\* What a subscription keeps: the Set it was added to and whether it still is
\* in it; the messages pushed to it, how far next() has read, its list of
\* resolvers (TRUE: still waits).  History: messageIndex when it was made,
\* the messages next() returned, whether a next() timed out, and whether the
\* close() of another subscription removed its Set from the map.
Slots == [home : Nat, open : BOOLEAN, history : Seq(Nat), cursor : Nat,
          resolvers : Seq(BOOLEAN), since : Nat, got : Seq(Nat),
          timedOut : BOOLEAN, evicted : BOOLEAN]

TypeOK ==
  /\ lag \in Lags
  /\ entry \in Seq({"forever", "timed", "over"})
  /\ store \in [Masters -> [Keys -> Versions \cup {None}]]
  /\ pending \in Seq([from : Masters, key : Keys, version : Versions \cup {None}])
  /\ pending # <<>> => lag
  /\ expiryTimer \in BOOLEAN
  /\ slot \in Seq(Slots)
  /\ channel \in 0..Len(slot)
  /\ \A s \in DOMAIN slot : slot[s].cursor <= Len(slot[s].history)
  /\ stopped => /\ \A m \in Masters, k \in Keys : store[m][k] = None
                /\ channel = None
                /\ ~expiryTimer
  /\ raced \subseteq Keys

Init ==
  /\ lag \in Lags
  /\ entry = <<>>
  /\ store = [m \in Masters |-> [k \in Keys |-> None]]
  /\ pending = <<>>
  /\ expiryTimer = FALSE
  /\ slot = <<>>
  /\ channel = None
  /\ published = 0
  /\ stopped = FALSE
  /\ calls = 0
  /\ raced = {}

Called ==
  /\ ~stopped
  /\ calls < MaxCalls
  /\ calls' = calls + 1

-----------------------------------------------------------------------------
\* Keys.

\* Version v under key k of the masters ms.
Stored(ms, k, v) ==
  [m \in Masters |-> IF m \in ms THEN [store[m] EXCEPT ![k] = v] ELSE store[m]]

Others(m) == Masters \ {m}

Races(m, k) ==
  IF PendingOf(k) = {} THEN raced \ {k}
  ELSE IF \E i \in PendingOf(k) : pending[i].from # m THEN raced \cup {k}
  ELSE raced

\* The call of replicateWrite (or, with None, of replicateDelete) on m.
Replicate(m, k, v) ==
  /\ store' = Stored(IF lag THEN {m} ELSE Masters, k, v)
  /\ pending' = IF lag THEN Append(pending, [from |-> m, key |-> k, version |-> v])
                ELSE pending
  /\ raced' = Races(m, k)

Write(m, k, timed) ==
  /\ entry' = Append(entry, IF timed THEN "timed" ELSE "forever")
  /\ expiryTimer' = (expiryTimer \/ (timed /\ ~lag))
  /\ Replicate(m, k, Len(entry'))
  /\ UNCHANGED <<lag, pubSubVars, stopped>>

Set(m, k, timed) == Called /\ Write(m, k, timed)

\* Mutated Missing: the other masters do not look at expiresAt.
MissingAtPrimary(m, k) ==
  store[m][k] = None \/ (m = Primary /\ entry[store[m][k]] = "over")

\* readEntry finds no entry, or one that is over.
Missing(m, k) == store[m][k] = None \/ entry[store[m][k]] = "over"

Expire(k) ==
  /\ Called
  /\ ~Missing(Primary, k)
  /\ Write(Primary, k, TRUE)

\* Mutated Delete: the other masters hear nothing of it.
DeleteAtPrimary(k) ==
  /\ Called
  /\ store' = Stored({Primary}, k, None)
  /\ raced' = Races(Primary, k)
  /\ UNCHANGED <<lag, entry, pending, expiryTimer, pubSubVars, stopped>>

\* delete(): whether there was an entry or not, the delete is replicated.
Delete(k) ==
  /\ Called
  /\ Replicate(Primary, k, None)
  /\ UNCHANGED <<lag, entry, expiryTimer, pubSubVars, stopped>>

\* get(), and ttl() or expire() at the primary, delete an entry that is over.
Get(m, k) ==
  /\ ~stopped
  /\ store[m][k] # None
  /\ Missing(m, k)
  /\ store' = Stored({m}, k, None)
  /\ UNCHANGED <<lag, entry, pending, expiryTimer, raced, pubSubVars, stopped, calls>>

\* Mutated Fires: the timer does not look at `stopped`.
FiresAlways == TRUE

Fires == ~stopped

\* The oldest replication timer fires, once.
ReplicationFires ==
  /\ pending # <<>>
  /\ pending' = Tail(pending)
  /\ LET p == Head(pending)
     IN IF Fires
        THEN /\ store' = Stored(Others(p.from), p.key, p.version)
             /\ expiryTimer' = (\/ expiryTimer
                                \/ /\ p.version # None
                                   /\ entry[p.version] # "forever"
                                   /\ ~stopped)
        ELSE UNCHANGED <<store, expiryTimer>>
  /\ UNCHANGED <<lag, entry, raced, pubSubVars, stopped, calls>>

\* The clock passes the expiresAt of version v.
Clock(v) ==
  /\ entry[v] = "timed"
  /\ entry' = [entry EXCEPT ![v] = "over"]
  /\ UNCHANGED <<lag, store, pending, expiryTimer, raced, pubSubVars, stopped, calls>>

\* Mutated Rearms: the tick goes on only while something has expired.
RearmsAfterDeletes(st) == st # store

Rearms(st) == \E m \in Masters, k \in Keys : st[m][k] # None

ExpiryTick ==
  /\ expiryTimer
  /\ store' = [m \in Masters |->
                [k \in Keys |-> IF Missing(m, k) THEN None ELSE store[m][k]]]
  /\ expiryTimer' = Rearms(store')
  /\ UNCHANGED <<lag, entry, pending, raced, pubSubVars, stopped, calls>>

FlushAll ==
  /\ ~stopped
  /\ store' = [m \in Masters |-> [k \in Keys |-> None]]
  /\ raced' = {k \in Keys : PendingOf(k) # {}}
  /\ UNCHANGED <<lag, entry, pending, expiryTimer, pubSubVars, stopped, calls>>

-----------------------------------------------------------------------------
\* Publish and subscribe.

Members(set) == {s \in DOMAIN slot : slot[s].open /\ slot[s].home = set}

Subscribe ==
  /\ Called
  /\ LET home == IF channel = None THEN Len(slot) + 1 ELSE channel
     IN /\ slot' = Append(slot,
             [home |-> home, open |-> TRUE, history |-> <<>>, cursor |-> 0,
              resolvers |-> <<>>, since |-> published, got |-> <<>>,
              timedOut |-> FALSE, evicted |-> FALSE])
        /\ channel' = home
  /\ UNCHANGED <<lag, storeVars, published, stopped>>

\* Mutated Resolved: the cursor stays where it was.
ResolvedAtCursor(s, msg) == [s EXCEPT !.got = Append(@, msg)]

\* The resolver of a next() that still waits, with the history of now.
Resolved(s, msg) == [s EXCEPT !.cursor = Len(s.history), !.got = Append(@, msg)]

\* publish() to one subscription: push, and shift a resolver, which does
\* nothing when its next() has timed out.
Pushed(s, msg) ==
  LET t == [s EXCEPT !.history = Append(@, msg)]
  IN IF s.resolvers = <<>> THEN t
     ELSE LET u == [t EXCEPT !.resolvers = Tail(@)]
          IN IF Head(s.resolvers) THEN Resolved(u, msg) ELSE u

Publish ==
  /\ Called
  /\ published' = published + 1
  /\ slot' = [s \in DOMAIN slot |->
               IF channel # None /\ s \in Members(channel)
               THEN Pushed(slot[s], published + 1) ELSE slot[s]]
  /\ UNCHANGED <<lag, storeVars, channel, stopped>>

\* What next() makes of subscription s: it reads a message, or adds a resolver.
Read(s) == [s EXCEPT !.cursor = @ + 1, !.got = Append(@, s.history[s.cursor + 1])]
Waits(s) == [s EXCEPT !.resolvers = Append(@, TRUE)]

NextMessage(s) ==
  /\ IF slot[s].cursor < Len(slot[s].history)
     THEN slot' = [slot EXCEPT ![s] = Read(slot[s])]
     ELSE /\ Len(slot[s].resolvers) < MaxWaiting
          /\ slot' = [slot EXCEPT ![s] = Waits(slot[s])]
  /\ UNCHANGED <<lag, storeVars, channel, published, stopped, calls>>

\* The timeout of a next(): its resolver stays in the list.
GivenUp(s, i) == [s EXCEPT !.resolvers = [@ EXCEPT ![i] = FALSE], !.timedOut = TRUE]

NextTimesOut(s) ==
  /\ \E i \in DOMAIN slot[s].resolvers :
       /\ slot[s].resolvers[i]
       /\ slot' = [slot EXCEPT ![s] = GivenUp(slot[s], i)]
  /\ UNCHANGED <<lag, storeVars, channel, published, stopped, calls>>

\* close(), once or again: the subscription leaves its Set, and when that Set
\* is empty the channel is forgotten, even if it has a new Set by now.
Close(s) ==
  /\ LET home == slot[s].home
         empty == Members(home) \subseteq {s}
     IN /\ slot' = [t \in DOMAIN slot |->
             IF t = s THEN [slot[t] EXCEPT !.open = FALSE]
             ELSE [slot[t] EXCEPT !.evicted = @ \/ (empty /\ t \in Members(channel))]]
        /\ channel' = IF empty THEN None ELSE channel
  /\ UNCHANGED <<lag, storeVars, published, stopped, calls>>

Stop ==
  /\ stopped' = TRUE
  /\ store' = [m \in Masters |-> [k \in Keys |-> None]]
  /\ expiryTimer' = FALSE
  /\ channel' = None
  /\ UNCHANGED <<lag, entry, pending, raced, slot, published, calls>>

Next ==
  \/ \E k \in Keys :
       \/ \E m \in Masters : Get(m, k) \/ \E timed \in BOOLEAN : Set(m, k, timed)
       \/ Expire(k)
       \/ Delete(k)
  \/ ReplicationFires
  \/ \E v \in Versions : Clock(v)
  \/ ExpiryTick
  \/ FlushAll
  \/ Subscribe
  \/ Publish
  \/ \E s \in DOMAIN slot : NextMessage(s) \/ NextTimesOut(s) \/ Close(s)
  \/ Stop

Spec == Init /\ [][Next]_vars

\* The timers of Node fire.
FairSpec == Spec /\ WF_vars(ReplicationFires) /\ WF_vars(ExpiryTick)

-----------------------------------------------------------------------------
Visible(m, k) == IF Missing(m, k) THEN None ELSE store[m][k]

\* Eventual consistency: once the replications of a key have fired, every
\* master shows the same of it, unless the key was written or flushed over
\* the pending replication of another master's write.
Converged ==
  \A k \in Keys : k \notin raced /\ PendingOf(k) = {} =>
    \A m, n \in Masters : Visible(m, k) = Visible(n, k)

\* The same without an exception: "every master sees every write in eventual
\* consistency order" (types.ts:89-90).
EventualConsistency ==
  \A k \in Keys : PendingOf(k) = {} => \A m, n \in Masters : Visible(m, k) = Visible(n, k)

\* A subscription captures every later publish on the channel, unless it was
\* evicted; what its next() calls return comes in that order with no message
\* twice, and with none left out, nor a call waiting next to an unread message,
\* as long as no call has timed out.
Captured ==
  \A s \in DOMAIN slot : LET sub == slot[s] IN
    /\ sub.open /\ ~sub.evicted /\ ~stopped =>
         sub.history = [i \in 1..(published - sub.since) |-> sub.since + i]
    /\ \A i, j \in DOMAIN sub.got : i < j => sub.got[i] < sub.got[j]
    /\ ~sub.timedOut =>
         /\ sub.got = SubSeq(sub.history, 1, sub.cursor)
         /\ sub.resolvers # <<>> => sub.cursor = Len(sub.history)

\* A subscription that its own close() has not ended captures every subsequent
\* publish on the channel (types.ts:175).
EverySubsequentPublish ==
  \A s \in DOMAIN slot : slot[s].open /\ ~stopped =>
    slot[s].history = [i \in 1..(published - slot[s].since) |-> slot[s].since + i]

\* An entry whose time is over leaves every store, read or not.
ExpiredLeave ==
  \A m \in Masters, k \in Keys :
    (store[m][k] # None /\ Missing(m, k)) ~> (store[m][k] = None \/ ~Missing(m, k))

-----------------------------------------------------------------------------
\* What every master shows of a key, and Split when they do not show the same.
Split == -1

Agreed ==
  [k \in Keys |-> IF \A m \in Masters : Visible(m, k) = Visible(Primary, k)
                  THEN Visible(Primary, k) ELSE Split]

Cluster == INSTANCE OneStore WITH value <- Agreed, age <- entry

\* Without a lag the masters are one store: whatever is read, at whichever
\* master and at any time, is what the latest write or delete left there, and
\* no step makes two of them differ (types.ts:108-111).
SynchronousIsOneStore ==
  /\ ~lag => Cluster!Init
  /\ [][lag \/ Cluster!Next]_(Cluster!storeVars)
=============================================================================
