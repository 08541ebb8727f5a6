----------------------------- MODULE RabbitQueue -----------------------------
(***************************************************************************)
(* The broker emulation createStubRabbitMQEnv of                           *)
(* packages/queue/src/rabbitmq/stub-rabbitmq.ts: publishers, pollers (get) *)
(* and push consumers with a prefetch limit, ack and nack.                 *)
(*                                                                         *)
(* dispatchToConsumers() is synchronous and calls handlers from inside its *)
(* loop; a handler may publish, consume or settle, which may start another *)
(* dispatch.  `stack` is that part of the JavaScript call stack: one frame *)
(* per dispatch in progress, the innermost last.  While it is not empty    *)
(* nothing runs but its last frame, or the handler that frame has called.  *)
(*                                                                         *)
(* A delivery is settled once, by whoever got it, and a consumer with      *)
(* noAck settles none: more is a channel error in AMQP.  A publish takes   *)
(* any of `Routes`, the lists of queues that routeToQueues may return:     *)
(* that is all that declaring and binding do to it.  reset() is called     *)
(* between turns, never by a handler.                                      *)
(***************************************************************************)
EXTENDS Integers, Sequences, FiniteSets, SequencesExt

CONSTANTS
  Consumers,     \* push consumers a test may register
  Poller,        \* whoever calls get()
  Nobody,
  Queues,
  Routes,        \* sequences of queues that one publish reaches
  option,        \* option[c]: what consume() is given for c
  MaxMessages,   \* bound: number of messages
  MaxDeliveries  \* bound: deliveries after which nobody requeues a message

ASSUME RabbitAssumption ==
  /\ Poller \notin Consumers /\ Nobody \notin Consumers /\ Poller # Nobody
  /\ Routes \subseteq Seq(Queues) \ {<<>>}
  /\ option \in [Consumers -> [queue : Queues, prefetch : Nat,
                             noAck : BOOLEAN, exclusive : BOOLEAN]]
  /\ MaxMessages \in Nat
  /\ MaxDeliveries \in Nat \ {0}

None == 0

VARIABLES
  msg,        \* messages in the order of `enqueue`, over all queues
  consumers,  \* the Map `consumers`: per queue, in order of registration
  cancelled,  \* registered consumers that were cancelled
  received,   \* received[c]: the array of messages that c got, while registered
  timers,     \* messages whose ack or nack has a timer that has not fired
  stack,      \* dispatches in progress, innermost last
  broken      \* history: queues on which a handler threw out of a dispatch,
              \* and no dispatch has run to its end since

vars == <<msg, consumers, cancelled, received, timers, stack, broken>>

Msgs == DOMAIN msg
Settled == {"acked", "nacked", "dead"}

\* expired: the clock has passed expiresAt, which for a message without one
\* never happens.  dropped: a reset() has emptied `messages` since.
Message == [queue : Queues, state : {"ready", "unacked", "requeued"} \cup Settled,
            count : Nat, by : Consumers \cup {Poller, Nobody},
            expired : BOOLEAN, dropped : BOOLEAN]

\* A dispatch on `queue` that has come to consumer number `at`, is `inside`
\* the loop over the messages for it or not, and has called its handler with
\* `msg` or None; `rest` is what the publish that started the dispatch has yet
\* to reach.
Frame == [queue : Queues, at : Nat, inside : BOOLEAN, msg : Msgs \cup {None},
          rest : Seq(Queues)]

\* Types, and: a message has a holder while it is unacked, and one that is to
\* be requeued has the timer that does it.
TypeOK ==
  /\ msg \in Seq(Message)
  /\ consumers \in [Queues -> Seq(Consumers)]
  /\ cancelled \subseteq Consumers
  /\ received \in [Consumers -> Seq(Msgs)]
  /\ timers \subseteq Msgs
  /\ stack \in Seq(Frame)
  /\ broken \subseteq Queues
  /\ \A m \in Msgs : /\ msg[m].by # Nobody <=> msg[m].state = "unacked"
                     /\ msg[m].state = "requeued" => m \in timers

Init ==
  /\ msg = <<>>
  /\ consumers = [q \in Queues |-> <<>>]
  /\ cancelled = {}
  /\ received = [c \in Consumers |-> <<>>]
  /\ timers = {}
  /\ stack = <<>>
  /\ broken = {}

-----------------------------------------------------------------------------
Top == Last(stack)
SetTop(f) == [stack EXCEPT ![Len(stack)] = f]

\* Test code runs: in a turn of its own, or in a handler that was called.
CodeRuns == stack # <<>> => Top.msg # None
DispatchRuns == stack # <<>> /\ Top.msg = None

UnackedOf(c) == {i \in DOMAIN received[c] : msg[received[c][i]].state = "unacked"}

\* Mutated Full: > for >=.
FullLate(c) ==
  /\ option[c].prefetch > 0
  /\ Cardinality(UnackedOf(c)) > option[c].prefetch

\* The number of entries of `received` that are unacked has reached prefetch.
Full(c) ==
  /\ option[c].prefetch > 0
  /\ Cardinality(UnackedOf(c)) >= option[c].prefetch

\* What popNextReadyMessage steps over and marks dead, and what it returns.
Expired(m) == msg[m].expired
Ready(q) == {m \in Msgs : msg[m].queue = q /\ msg[m].state = "ready" /\ ~msg[m].dropped}
Live(q) == {m \in Ready(q) : ~Expired(m)}

\* Mutated IsNext: the newest message first.
IsNewest(q, m) == m \in Live(q) /\ \A n \in Live(q) : n <= m

IsNext(q, m) == m \in Live(q) /\ \A n \in Live(q) : m <= n
Passed(q) == {m \in Ready(q) : Expired(m) /\ \A n \in Live(q) : m < n}

\* The messages after popNextReadyMessage(q) has returned m to `by`, or to a
\* get() with noAck, which leaves it with Nobody.
Popped(q, m, by) ==
  LET passed == Passed(q) IN
  [n \in Msgs |->
     IF n \in passed THEN [msg[n] EXCEPT !.state = "dead"]
     ELSE IF n = m THEN [msg[n] EXCEPT !.state = IF by = Nobody THEN "acked" ELSE "unacked",
                                       !.count = @ + 1, !.by = by]
     ELSE msg[n]]

\* The messages after m has come to `state`, in nobody's hands.
Freed(m, state) == [msg EXCEPT ![m] = [@ EXCEPT !.state = state, !.by = Nobody]]

\* A publish that has reached the head of `route`: enqueue() pushes the new
\* message and starts a dispatch.
NewMessage(route) ==
  [queue |-> Head(route), state |-> "ready", count |-> 0, by |-> Nobody,
   expired |-> FALSE, dropped |-> FALSE]
Dispatching(route) ==
  [queue |-> Head(route), at |-> 1, inside |-> FALSE, msg |-> None,
   rest |-> Tail(route)]

\* A dispatch that no publish started.
Dispatch(q) == Dispatching(<<q>>)

-----------------------------------------------------------------------------
\* Messages that the publishes in progress will still enqueue.
Reserved == FoldLeft(LAMBDA n, f : n + Len(f.rest), 0, stack)

\* publish(), or sendToQueue(), up to the first dispatch.
Publish(route) ==
  /\ CodeRuns
  /\ Len(msg) + Reserved + Len(route) <= MaxMessages
  /\ msg' = Append(msg, NewMessage(route))
  /\ stack' = Append(stack, Dispatching(route))
  /\ UNCHANGED <<consumers, cancelled, received, timers, broken>>

Registered == UNION {Range(consumers[q]) : q \in Queues}

\* No exclusive consumer is there, nor any when c is to be exclusive.
MayConsume(c) ==
  \A d \in Range(consumers[option[c].queue]) \ cancelled :
    ~option[c].exclusive /\ ~option[d].exclusive

\* consume(): one registration per consumer, and again after a reset().
Consume(c) ==
  /\ CodeRuns
  /\ c \notin Registered
  /\ MayConsume(c)
  /\ consumers' = [consumers EXCEPT ![option[c].queue] = Append(@, c)]
  /\ stack' = Append(stack, Dispatch(option[c].queue))
  /\ UNCHANGED <<msg, cancelled, received, timers, broken>>

Cancel(c) ==
  /\ CodeRuns
  /\ c \in Registered
  /\ cancelled' = cancelled \cup {c}
  /\ UNCHANGED <<msg, consumers, received, timers, stack, broken>>

\* get() of a queue with a message that is ready and has not expired, with
\* noAck or without; and of one that has none.
Get(q, noAck) ==
  /\ CodeRuns
  /\ \E m \in Msgs :
       /\ IsNext(q, m)
       /\ msg' = Popped(q, m, IF noAck THEN Nobody ELSE Poller)
  /\ UNCHANGED <<consumers, cancelled, received, timers, stack, broken>>

GetNull(q) ==
  /\ CodeRuns
  /\ Live(q) = {}
  /\ msg' = Popped(q, None, Nobody)
  /\ UNCHANGED <<consumers, cancelled, received, timers, stack, broken>>

\* The delivery of m is in the hands of somebody who has to settle it.
IsOpen(m) ==
  /\ msg[m].state = "unacked"
  /\ msg[m].by # Poller => ~option[msg[m].by].noAck

\* Mutated TimersAfter: ack and nack do not dispatch again; a nack starts no
\* timer for a message that it requeues.
TimersOfRequeue(m, state) == IF state = "requeued" THEN timers \cup {m} ELSE timers
TimersOfOthers(m, state) == IF state = "requeued" THEN timers ELSE timers \cup {m}

TimersAfter(m, state) == timers \cup {m}

\* ack() and nack() of a delivery.
Settle(m, state) ==
  /\ CodeRuns
  /\ m \in Msgs
  /\ IsOpen(m)
  /\ msg' = Freed(m, state)
  /\ timers' = TimersAfter(m, state)
  /\ UNCHANGED <<consumers, cancelled, received, stack, broken>>

Ack(m) == Settle(m, "acked")
Nack(m) == Settle(m, "nacked")
NackRequeue(m) == m \in Msgs /\ msg[m].count < MaxDeliveries /\ Settle(m, "requeued")

\* Mutated BackToReady: the timer of every nack makes its message ready.
BackToReadyAlways(m) == msg[m].state # "acked"

BackToReady(m) == msg[m].state = "requeued"

\* The timer of an ack or a nack fires.
TimerFires(m) ==
  /\ stack = <<>>
  /\ m \in timers
  /\ timers' = timers \ {m}
  /\ msg' = IF BackToReady(m) THEN Freed(m, "ready") ELSE msg
  /\ stack' = <<Dispatch(msg[m].queue)>>
  /\ UNCHANGED <<consumers, cancelled, received, broken>>

\* The clock passes expiresAt of m, which nobody asks of a dropped message.
Expires(m) ==
  /\ m \in Msgs
  /\ ~Expired(m) /\ ~msg[m].dropped
  /\ msg' = [msg EXCEPT ![m] = [@ EXCEPT !.expired = TRUE]]
  /\ UNCHANGED <<consumers, cancelled, received, timers, stack, broken>>

\* reset(), or stop(): the Maps are emptied, and the consumers forgotten with
\* what they received.  The timers and the deliveries that wait for an ack stay.
Reset ==
  /\ stack = <<>>
  /\ msg' = [m \in Msgs |-> [msg[m] EXCEPT !.dropped = TRUE]]
  /\ consumers' = [q \in Queues |-> <<>>]
  /\ cancelled' = {}
  /\ received' = [c \in Consumers |-> <<>>]
  /\ broken' = {}
  /\ UNCHANGED <<timers, stack>>

-----------------------------------------------------------------------------
\* The loop of frame f steps over consumer number i.  Whether it is cancelled
\* is asked once, before the loop over the messages.
Skips(f, i) ==
  LET c == consumers[f.queue][i]
  IN Full(c) \/ (c \in cancelled /\ ~(f.inside /\ i = f.at))

\* The loop of frame f goes on with consumer number i; with none.
IsTurnOf(f, i) ==
  /\ i >= f.at
  /\ ~Skips(f, i)
  /\ \A j \in f.at..(i - 1) : Skips(f, j)

\* Mutated NoTurn: a consumer that is stepped over ends the dispatch.
NoTurnAfterSkip(f) == f.at <= Len(consumers[f.queue]) => Skips(f, f.at)

NoTurn(f) == \A i \in f.at..Len(consumers[f.queue]) : Skips(f, i)

\* The loop pops a message and calls a handler.
Deliver ==
  /\ DispatchRuns
  /\ \E i \in DOMAIN consumers[Top.queue], m \in Msgs :
       /\ IsTurnOf(Top, i)
       /\ IsNext(Top.queue, m)
       /\ LET c == consumers[Top.queue][i]
          IN /\ msg' = Popped(Top.queue, m, c)
             /\ received' = [received EXCEPT ![c] = Append(@, m)]
             /\ stack' = SetTop([Top EXCEPT !.at = i, !.inside = TRUE, !.msg = m])
  /\ UNCHANGED <<consumers, cancelled, timers, broken>>

\* The dispatch is over: every consumer is full or cancelled, or no message is
\* left.  The publish that started it goes on with its next queue.
DispatchEnds ==
  /\ DispatchRuns
  /\ broken' = broken \ {Top.queue}
  /\ LET over == IF NoTurn(Top) THEN msg ELSE Popped(Top.queue, None, Nobody)
     IN /\ NoTurn(Top) \/ Live(Top.queue) = {}
        /\ IF Top.rest = <<>>
           THEN msg' = over /\ stack' = Front(stack)
           ELSE /\ msg' = Append(over, NewMessage(Top.rest))
                /\ stack' = SetTop(Dispatching(Top.rest))
  /\ UNCHANGED <<consumers, cancelled, received, timers>>

\* The handler returns, or has come to its first await: with noAck the message
\* is acked now, unless the handler did something else to it.
HandlerReturns ==
  /\ stack # <<>>
  /\ Top.msg # None
  /\ LET c == consumers[Top.queue][Top.at]
     IN msg' = IF option[c].noAck /\ msg[Top.msg].state = "unacked"
               THEN Freed(Top.msg, "acked")
               ELSE msg
  /\ stack' = SetTop([Top EXCEPT !.msg = None])
  /\ UNCHANGED <<consumers, cancelled, received, timers, broken>>

\* The handler throws: the dispatch is left, and the publish that started it,
\* whose promise rejects.
HandlerThrows ==
  /\ stack # <<>>
  /\ Top.msg # None
  /\ stack' = Front(stack)
  /\ broken' = broken \cup {Top.queue}
  /\ UNCHANGED <<msg, consumers, cancelled, received, timers>>

Loop == Deliver \/ DispatchEnds \/ HandlerReturns \/ HandlerThrows

Next ==
  \/ \E r \in Routes : Publish(r)
  \/ \E c \in Consumers : Consume(c) \/ Cancel(c)
  \/ \E q \in Queues : GetNull(q) \/ \E b \in BOOLEAN : Get(q, b)
  \/ \E m \in Msgs : Ack(m) \/ Nack(m) \/ NackRequeue(m) \/ TimerFires(m) \/ Expires(m)
  \/ Reset
  \/ Loop

Spec == Init /\ [][Next]_vars

\* A dispatch comes to its end, timers fire, and those who hold deliveries
\* settle them.
Fairness ==
  /\ WF_vars(Loop)
  /\ WF_vars(\E m \in Msgs : TimerFires(m))
  /\ WF_vars(\E m \in Msgs : Ack(m) \/ Nack(m))

FairSpec == Spec /\ Fairness

-----------------------------------------------------------------------------
\* What c holds of the messages that are there.
Held(c) == {m \in Msgs : msg[m].state = "unacked" /\ msg[m].by = c /\ ~msg[m].dropped}
CanTake(c) == c \notin cancelled /\ ~Full(c)

\* A consumer never holds more unacked messages than its prefetch, however
\* messages are requeued, polled, and published from inside handlers.
PrefetchHonoured ==
  \A c \in Consumers :
    option[c].prefetch > 0 => Cardinality(Held(c)) <= option[c].prefetch

\* When no dispatch runs, a message that could be delivered has a timer on its
\* queue that will look at it, unless a handler has thrown out of a dispatch.
NoLostWakeup ==
  stack = <<>> =>
    \A q \in Queues \ broken :
      \/ Live(q) = {}
      \/ \A c \in Range(consumers[q]) : ~CanTake(c)
      \/ \E m \in timers : msg[m].queue = q

\* FIFO: a message is delivered for the first time after every earlier one of
\* its queue was, or was found expired, though dispatches nest and messages requeue.
FirstDeliveryInOrder ==
  \A m, n \in Msgs :
    m < n /\ msg[m].queue = msg[n].queue /\ msg[n].count > 0
      => msg[m].count > 0 \/ msg[m].state = "dead" \/ msg[m].dropped

\* The promise of types.ts:85, prefetch is the "max unacked messages the
\* consumer holds at once": when no dispatch runs and no timer is pending, a
\* message is not left waiting beside a consumer that holds fewer.  The code
\* counts the entries of `received`, one for each time a message came by, and
\* so counts a redelivered message twice, or while somebody else holds it.
HasRoom(c) ==
  c \notin cancelled /\ (option[c].prefetch > 0 => Cardinality(Held(c)) < option[c].prefetch)

FreeSlotsAreUsed ==
  stack = <<>> =>
    \A q \in Queues \ broken :
      \/ Live(q) = {}
      \/ \A c \in Range(consumers[q]) : ~HasRoom(c)
      \/ \E m \in timers : msg[m].queue = q

\* What was settled stays settled: no timer brings a message back that was
\* acked, rejected or has expired, and nobody takes one that is held.
SettledIsFinal ==
  [][\A m \in Msgs :
       /\ msg[m].state \in Settled => msg'[m].state = msg[m].state
       /\ msg[m].state = "unacked" /\ msg'[m].state = "unacked"
            => msg'[m].by = msg[m].by /\ msg'[m].count = msg[m].count]_vars

\* c has been given a message whose delivery nobody settles any more: the
\* handler of a noAck consumer threw.
Stuck(c) ==
  \E m \in Range(received[c]) :
    /\ msg[m].state = "unacked" /\ msg[m].by # Poller /\ option[msg[m].by].noAck
    /\ \A i \in DOMAIN stack : stack[i].msg # m

Waiting(m) == m \in Msgs /\ msg[m].state \in {"ready", "requeued"}

\* A message is delivered in the end, or expires, while a consumer is there
\* that is not cancelled, if deliveries are settled and no handler throws.
MessagesMove ==
  \A m \in 1..MaxMessages :
    Waiting(m) ~>
      \/ ~Waiting(m)
      \/ Expired(m) \/ msg[m].dropped
      \/ msg[m].queue \in broken
      \/ \A c \in Range(consumers[msg[m].queue]) : c \in cancelled \/ Stuck(c)

-----------------------------------------------------------------------------
\* Where a message is, for those who look at its queue.  To them a message
\* that a reset dropped is gone, whoever holds its delivery.
Place(r) ==
  IF r.dropped THEN "gone"
  ELSE CASE r.state \in {"ready", "requeued"} -> "waits"
         [] r.state = "unacked" -> "held"
         [] r.state = "dead" -> "dead"
         [] OTHER -> "gone"

Letter(r) == [queue |-> r.queue, place |-> Place(r), given |-> r.count]

Letters == [m \in Msgs |-> Letter(msg[m])]

Deliveries == INSTANCE Delivery WITH message <- Letters

\* The broker is one queue with acknowledgements for each of its queues: however
\* dispatches nest and timers fire, a message is with one consumer or poller at
\* a time, is delivered again only after a requeue, and first deliveries are in
\* the order of enqueue.
ImplementsDelivery == Deliveries!Spec
=============================================================================
