------------------------------ MODULE DataQueue ------------------------------
(***************************************************************************)
(* The in-memory queue of @kiwa-lab/data, InMemoryQueue of                 *)
(* packages/data/src/queue.ts: senders, pollers (receive), subscribed      *)
(* handlers fed by one dispatch loop, a retry budget with a dead letter    *)
(* queue, and deduplication by key.                                        *)
(*                                                                         *)
(* dispatch() awaits nothing but handlers, so its loop is cut at those     *)
(* awaits: an action runs the code up to the next call of a handler.  The  *)
(* flag `dispatching` is up exactly while a handler is awaited, that is    *)
(* while `current` is an entry.  Entries are numbered in the order of      *)
(* their ids; bodies are abstracted away.                                  *)
(***************************************************************************)
EXTENDS Integers, Sequences, SequencesExt

CONSTANTS
  Handlers,         \* consumers a test may subscribe
  Keys,             \* dedup keys
  NoKey,            \* a send without a key
  MaxReceiveCount,  \* maxReceiveCount
  MaxSends          \* bound: number of entries

ASSUME DataQueueAssumption ==
  /\ NoKey \notin Keys
  /\ MaxReceiveCount \in Nat \ {0}
  /\ MaxSends \in Nat

None == 0

VARIABLES
  entry,       \* the entries sent so far: dedup key and receivedCount
  queue,       \* entries in `queue`, head first
  dlq,         \* entries in `dlq`
  dedupIndex,  \* the keys in `dedupIndex`
  consumers,   \* the Set `consumers`, in insertion order
  current,     \* the entry the dispatch loop has shifted, or None
  pos,         \* how much of `consumers` the loop has called for `current`
  done,        \* history: entries acked, received by a poller or drained
  thrown       \* history: entries in flight when a handler threw

vars == <<entry, queue, dlq, dedupIndex, consumers, current, pos, done, thrown>>

Entries == DOMAIN entry
IsIn(n, s) == n \in Range(s)

TypeOK ==
  /\ entry \in Seq([key : Keys \cup {NoKey}, count : 0..MaxReceiveCount])
  /\ queue \in Seq(Entries)
  /\ dlq \in Seq(Entries)
  /\ dedupIndex \subseteq Keys
  /\ consumers \in Seq(Handlers)
  /\ current \in Entries \cup {None}
  /\ pos \in 0..Len(consumers)
  /\ done \subseteq Entries
  /\ thrown \subseteq Entries

Init ==
  /\ entry = <<>>
  /\ queue = <<>>
  /\ dlq = <<>>
  /\ dedupIndex = {}
  /\ consumers = <<>>
  /\ current = None
  /\ pos = 0
  /\ done = {}
  /\ thrown = {}

-----------------------------------------------------------------------------
\* receivedCount += 1, in whatever place the entry is.
Counted(e, n) == [e EXCEPT ![n] = [key |-> @.key, count |-> @.count + 1]]

\* Mutated Dispatch: no receivedCount += 1.
DispatchUncounted(e, q, cs) ==
  IF q # <<>> /\ cs # <<>>
  THEN entry' = e /\ queue' = Tail(q) /\ current' = Head(q) /\ pos' = 1
  ELSE entry' = e /\ queue' = q /\ current' = None /\ pos' = 0

\* The head of dispatch's loop, with entries e, queue q and consumers cs:
\* shift an entry and call the first handler, or leave the loop.
Dispatch(e, q, cs) ==
  IF q # <<>> /\ cs # <<>>
  THEN /\ entry' = Counted(e, Head(q))
       /\ queue' = Tail(q)
       /\ current' = Head(q)
       /\ pos' = 1
  ELSE /\ entry' = e
       /\ queue' = q
       /\ current' = None
       /\ pos' = 0

\* Mutated CallDispatch: no call, as if the caller only pushed.
CallDispatchNever(e, q, cs) == entry' = e /\ queue' = q /\ UNCHANGED <<current, pos>>

\* Mutated CallDispatch: no `if (this.dispatching) return`.
CallDispatchAgain(e, q, cs) == Dispatch(e, q, cs)

\* A call of dispatch(): it returns at once while a loop is in progress.
CallDispatch(e, q, cs) ==
  IF current = None
  THEN Dispatch(e, q, cs)
  ELSE entry' = e /\ queue' = q /\ UNCHANGED <<current, pos>>

\* send() finds an entry of the same key: the key is indexed, and the entry
\* still in the queue.
Collapses(k) == k \in dedupIndex /\ \E i \in DOMAIN queue : entry[queue[i]].key = k

\* Mutated Enqueued: unshift for push.
EnqueuedFirst(n) == <<n>> \o queue

Enqueued(n) == Append(queue, n)

\* send() of a new entry.  (A send that collapses changes nothing.)
Send(k) ==
  /\ Len(entry) < MaxSends
  /\ ~Collapses(k)
  /\ dedupIndex' = dedupIndex \cup ({k} \ {NoKey})
  /\ CallDispatch(Append(entry, [key |-> k, count |-> 0]),
                  Enqueued(Len(entry) + 1), consumers)
  /\ UNCHANGED <<dlq, consumers, done, thrown>>

\* receive(): a poller takes the head; the index of keys is left alone.
Receive ==
  /\ queue # <<>>
  /\ entry' = Counted(entry, Head(queue))
  /\ queue' = Tail(queue)
  /\ done' = done \cup {Head(queue)}
  /\ UNCHANGED <<dlq, dedupIndex, consumers, current, pos, thrown>>

\* consume(h); a handler that is in the Set already keeps its place.
Consume(h) ==
  /\ consumers' = IF IsIn(h, consumers) THEN consumers ELSE Append(consumers, h)
  /\ CallDispatch(entry, queue, consumers')
  /\ UNCHANGED <<dlq, dedupIndex, done, thrown>>

\* Mutated PosAfterRemoval: an array index, which a removal does not adjust.
PosUnadjusted(i) == pos

PosAfterRemoval(i) == IF i <= pos THEN pos - 1 ELSE pos

\* The function consume() returned is called, maybe by the handler itself.
\* An iteration over a Set goes on with the elements after the removed one.
Unsubscribe(h) ==
  \E i \in DOMAIN consumers :
    /\ consumers[i] = h
    /\ consumers' = RemoveAt(consumers, i)
    /\ pos' = PosAfterRemoval(i)
    /\ UNCHANGED <<entry, queue, dlq, dedupIndex, current, done, thrown>>

\* The handler that is awaited settles without ack or nack, and another
\* handler comes after it.
NextHandler ==
  /\ current # None
  /\ pos < Len(consumers)
  /\ pos' = pos + 1
  /\ UNCHANGED <<entry, queue, dlq, dedupIndex, consumers, current, done, thrown>>

KeyFreed == dedupIndex \ {entry[current].key}

\* Some handler has acked (a nack does not undo it).
Acked ==
  /\ current # None
  /\ done' = done \cup {current}
  /\ dedupIndex' = KeyFreed
  /\ Dispatch(entry, queue, consumers)
  /\ UNCHANGED <<dlq, consumers, thrown>>

\* Mutated Exhausted: > for >=.
ExhaustedLate == entry[current].count > MaxReceiveCount

Exhausted == entry[current].count >= MaxReceiveCount

\* Mutated Retried: nack() requeues the entry, and so does the loop.
RetriedTwice == queue \o <<current, current>>

Retried == Append(queue, current)

\* Some handler has nacked, or the last one has settled without a word: the
\* entry is dead, or goes to the tail of the queue.
NotAcked ==
  /\ current # None
  /\ IF Exhausted
     THEN /\ dlq' = Append(dlq, current)
          /\ dedupIndex' = KeyFreed
          /\ Dispatch(entry, queue, consumers)
     ELSE /\ Dispatch(entry, Retried, consumers)
          /\ UNCHANGED <<dlq, dedupIndex>>
  /\ UNCHANGED <<consumers, done, thrown>>

\* The handler throws or rejects: dispatch() rejects after its `finally`, and
\* nothing is done about the entry it had shifted.
HandlerThrows ==
  /\ current # None
  /\ thrown' = thrown \cup {current}
  /\ current' = None
  /\ pos' = 0
  /\ UNCHANGED <<entry, queue, dlq, dedupIndex, consumers, done>>

DrainDlq ==
  /\ dlq # <<>>
  /\ done' = done \cup Range(dlq)
  /\ dlq' = <<>>
  /\ UNCHANGED <<entry, queue, dedupIndex, consumers, current, pos, thrown>>

HandlerSettles == NextHandler \/ Acked \/ NotAcked \/ HandlerThrows

Next ==
  \/ \E k \in Keys \cup {NoKey} : Send(k)
  \/ Receive
  \/ \E h \in Handlers : Consume(h) \/ Unsubscribe(h)
  \/ HandlerSettles
  \/ DrainDlq

Spec == Init /\ [][Next]_vars

\* A handler that is called settles.
FairSpec == Spec /\ WF_vars(HandlerSettles)

-----------------------------------------------------------------------------
\* An entry is in one place at most, and only once: a retry never leaves a
\* second copy behind in the queue, the dead letter queue or the loop.
OnePlace ==
  LET inside == (IF current = None THEN <<>> ELSE <<current>>) \o queue \o dlq
  IN /\ \A i, j \in DOMAIN inside : inside[i] = inside[j] => i = j
     /\ Range(inside) \cap (done \cup thrown) = {}

\* An entry leaves the queue for good only by an ack, a poller, or the drain
\* of the dead letter queue, or when a handler throws on it.
LostOnlyByThrow ==
  \A n \in Entries :
    \/ n \in done \cup thrown \cup Range(queue) \cup Range(dlq)
    \/ n = current

\* An entry is delivered again exactly until its budget is used up: what waits
\* in the queue has a delivery left, and what is dead had all of them.
BudgetIsExact ==
  /\ \A n \in Range(queue) : entry[n].count < MaxReceiveCount
  /\ \A n \in Range(dlq) : entry[n].count = MaxReceiveCount

\* FIFO: an entry is delivered for the first time after every earlier one has
\* been, retries and pollers notwithstanding.
FirstDeliveryInOrder ==
  \A m, n \in Entries : m < n /\ entry[n].count > 0 => entry[m].count > 0

\* With a consumer subscribed the loop never sleeps next to a waiting entry,
\* unless a throw has ended it.
ConsumersAreFed ==
  queue # <<>> /\ consumers # <<>> => current # None \/ thrown # {}

Leaves(n) == IsIn(n, dlq) \/ n \in done \/ consumers = <<>> \/ thrown # {}

\* Each entry leaves the queue in the end, by an ack or for the dead letter
\* queue, unless the loop stops for want of a consumer or because of a throw,
\* or consumers subscribe anew for ever: the loop runs over the live Set, so
\* a handler that subscribes again gets the same delivery again, and
\* receivedCount never grows.
EntriesLeave ==
  \/ []<><<\E h \in Handlers : Consume(h)>>_vars
  \/ \A n \in 1..MaxSends : n \in Entries ~> Leaves(n)

\* As the comment at types.ts:24 has it, a consumer processes every send and
\* retries until ack: no entry disappears that was neither acked, received,
\* nor dead.
EverySendIsProcessed ==
  \A n \in Entries :
    n \in done \cup Range(queue) \cup Range(dlq) \/ n = current

\* As the comment at expectations.ts:8 has it, sends with the same key collapse
\* into one queue entry: no two entries that nobody has seen have one key.
SendsCollapse ==
  \A m, n \in Range(queue) :
    /\ entry[m].key = entry[n].key
    /\ entry[m].key # NoKey
    /\ entry[m].count = 0
    /\ entry[n].count = 0
    => m = n

-----------------------------------------------------------------------------
\* Where an entry is.  What a poller or an ack took, or a throw lost, is gone.
Place(n) ==
  IF IsIn(n, queue) THEN "waits"
  ELSE IF n = current THEN "held"
  ELSE IF IsIn(n, dlq) THEN "dead"
  ELSE "gone"

Letters == [n \in Entries |-> [queue |-> "queue", place |-> Place(n), given |-> entry[n].count]]

Deliveries == INSTANCE Delivery WITH message <- Letters

\* The data queue is a queue with acknowledgements (types.ts:24): an entry is
\* with one consumer at a time, nothing that has left is delivered again, and
\* first deliveries are in order, retries, pollers and drains notwithstanding.
ImplementsDelivery == Deliveries!Spec
=============================================================================
