--------------------------- MODULE CloudflareQueue ---------------------------
(***************************************************************************)
(* The offline Cloudflare Queues of @kiwa-lab/queue,                       *)
(* createMiniflareCloudflareQueuesEnv of packages/queue/src/               *)
(* cloudflare-queues/miniflare-cloudflare-queues.ts: a timer starts ticks, *)
(* a tick lists what its queues hold and hands the list to the consumers   *)
(* batch by batch.  While it awaits a consumer, others may send, register  *)
(* a consumer or stop, and the timer may start another tick.               *)
(*                                                                         *)
(* Message m is the message of id msg-<FirstId + m - 1>; those of lower    *)
(* ids are settled when the behaviour begins.                              *)
(***************************************************************************)
EXTENDS Integers, Sequences, FiniteSets

CONSTANTS
  Queues,
  Options,    \* what a consumer may be registered with: size is its
              \* maxBatchSize, max its maxRetries, dlq whether it names a
              \* deadLetterQueue
  Delayed,    \* the messages that are sent with a delay
  FirstId,
  MaxSends,   \* bound: messages
  MaxTicks    \* bound: ticks that run at once

ASSUME CloudflareQueueAssumption ==
  /\ Options \subseteq [size : Nat, max : Nat, dlq : BOOLEAN] /\ Options # {}
  /\ FirstId \in Nat \ {0}
  /\ MaxSends \in Nat /\ FirstId + MaxSends <= 100
  /\ Delayed \subseteq Nat
  /\ MaxTicks \in Nat \ {0}

VARIABLES
  msg,        \* the messages sent
  dlq,        \* dlqMessages, as what each batch has copied there
  consumers,  \* the Map `consumers`, in insertion order
  timer,      \* schedulerTimer # null
  ticks,      \* up to MaxTicks ticks that run
  stopped,
  shared,     \* history: messages that two ticks had on their lists at once
  late        \* history: messages acked or retried, during a delivery,
              \* through the batch of an earlier one

vars == <<msg, dlq, consumers, timer, ticks, stopped, shared, late>>

Messages == DOMAIN msg

Calls == {"none", "ack", "retry"}

\* wait: the clock has yet to reach visibleAt, or the timer of send() to fire.
\* call and older: what was called on the message in its latest delivery and
\* in the one before.
Message ==
  [queue : Queues, state : {"pending", "delivered", "ack", "retrying", "dead"},
   wait : {"clock", "timer", "over"}, attempts : Nat, decision : Calls,
   call : Calls, older : Calls]

\* phase: the tick awaits a handler, or is to resume after one; list: what it
\* has still to deliver, for each queue; size: the batch size that the loop over
\* the queue it has come to has read, or 0; batch: what the handler in progress
\* was given, registered with reg.
Tick == [phase : {"idle", "handler", "resumes"}, list : [Queues -> SUBSET Messages],
         size : Nat, batch : SUBSET Messages, reg : Options]

Ticks == 1..MaxTicks

\* No tick.
Idle == [phase |-> "idle", list |-> [q \in Queues |-> {}], size |-> 0, batch |-> {},
         reg |-> CHOOSE o \in Options : TRUE]

TypeOK ==
  /\ msg \in Seq(Message)
  /\ dlq \in Seq(SUBSET Messages)
  /\ consumers \in Seq([queue : Queues, reg : Options])
  /\ \A i, j \in DOMAIN consumers : consumers[i].queue = consumers[j].queue => i = j
  /\ timer \in BOOLEAN
  /\ ticks \in [Ticks -> Tick]
  /\ stopped => ~timer /\ consumers = <<>>
  /\ \A m \in Messages :
       /\ msg[m].state = "delivered" => \E t \in Ticks : m \in ticks[t].batch
       /\ msg[m].state = "pending" => msg[m].attempts = 0
       /\ msg[m].state = "dead" => m \in shared \/ \A i, j \in DOMAIN dlq :
                                     m \in dlq[i] /\ m \in dlq[j] => i = j

Init ==
  /\ msg = <<>>
  /\ dlq = <<>>
  /\ consumers = <<>>
  /\ timer = FALSE
  /\ ticks = [t \in Ticks |-> Idle]
  /\ stopped = FALSE
  /\ shared = {}
  /\ late = {}

-----------------------------------------------------------------------------
RegisterConsumer(q, o) ==
  /\ ~stopped
  /\ LET c == [queue |-> q, reg |-> o]
         at == {i \in DOMAIN consumers : consumers[i].queue = q}
     IN consumers' = IF at = {} THEN Append(consumers, c)
                     ELSE [i \in DOMAIN consumers |-> IF i \in at THEN c ELSE consumers[i]]
  /\ timer' = TRUE
  /\ UNCHANGED <<msg, dlq, ticks, stopped, shared, late>>

\* send(), with a delay or without: a delayed send has a timer of its own.
Send(q) ==
  /\ ~stopped
  /\ Len(msg) < MaxSends
  /\ LET delayed == Len(msg) + 1 \in Delayed
     IN /\ msg' = Append(msg, [queue |-> q, state |-> "pending", attempts |-> 0,
                               wait |-> IF delayed THEN "clock" ELSE "over",
                               decision |-> "none", call |-> "none", older |-> "none"])
        /\ timer' = (timer \/ ~delayed)
  /\ UNCHANGED <<dlq, consumers, ticks, stopped, shared, late>>

Clock(m) ==
  /\ ~stopped
  /\ msg[m].wait = "clock"
  /\ msg' = [msg EXCEPT ![m] = [@ EXCEPT !.wait = "timer"]]
  /\ UNCHANGED <<dlq, consumers, timer, ticks, stopped, shared, late>>

DelayEnds(m) ==
  /\ msg[m].wait = "timer"
  /\ msg' = [msg EXCEPT ![m] = [@ EXCEPT !.wait = "over"]]
  /\ timer' = (timer \/ ~stopped)
  /\ UNCHANGED <<dlq, consumers, ticks, stopped, shared, late>>

\* Mutated IsPending: what a consumer has in hand is listed again.
IsPendingOrDelivered(m) ==
  /\ msg[m].state \in {"pending", "retrying", "delivered"}
  /\ msg[m].wait # "clock"

IsPending(m) == msg[m].state \in {"pending", "retrying"} /\ msg[m].wait # "clock"

\* Ids are compared as strings, up to two digits: msg-10 comes before msg-9.
Before(m, n) ==
  LET id(x) == FirstId + x - 1
      scaled(x) == IF id(x) < 10 THEN 10 * id(x) ELSE id(x)
  IN scaled(m) < scaled(n) \/ (scaled(m) = scaled(n) /\ m < n)

PendingForQueue(q) == {m \in Messages : msg[m].queue = q /\ IsPending(m)}

\* The first n of the messages ms in the order of their ids.
First(n, ms) == {m \in ms : Cardinality({k \in ms : Before(k, m)}) < n}

\* Mutated HasPending: a message to retry does not count.
HasNew(ms) == ~stopped /\ \E m \in DOMAIN ms : ms[m].state \in {"pending", "delivered"}

\* Every message is gone from the Map after stop().
HasPending(ms) ==
  ~stopped /\ \E m \in DOMAIN ms : ms[m].state \in {"pending", "retrying", "delivered"}

\* Mutated Reset: the decision of the delivery before stays.
ResetNot(decision) == decision

Reset(decision) == "none"

\* dispatchBatch() up to the call of the handler.
Delivered(batch) ==
  [m \in Messages |-> IF m \notin batch THEN msg[m]
     ELSE [msg[m] EXCEPT !.state = "delivered", !.attempts = @ + 1,
                         !.decision = Reset(@), !.call = "none", !.older = msg[m].call]]

\* Consumer number i is the first that `list` has messages for.  A Map keeps
\* its order when a consumer is replaced, so that of the list is that of now.
IsFirst(i, list) ==
  /\ list[consumers[i].queue] # {}
  /\ \A j \in 1..(i - 1) : list[consumers[j].queue] = {}

\* The tick is over, with what the timer is then.
Ends(t, armed) == ticks' = [ticks EXCEPT ![t] = Idle] /\ timer' = armed /\ UNCHANGED msg

\* The loops of tick() go on as tick t with `list`, and `size` read earlier or
\* 0: they deliver the next chunk, or the tick ends, over or because a batch
\* size of 0 has made it throw.
GoOn(t, list, size, armed) ==
  \/ /\ stopped \/ \A q \in Queues : list[q] = {}
     /\ Ends(t, armed \/ HasPending(msg))
  \/ \E i \in DOMAIN consumers :
       LET q == consumers[i].queue
           n == IF size = 0 THEN consumers[i].reg.size ELSE size
           batch == First(n, list[q])
           rest == list[q] \ batch
       IN /\ IsFirst(i, list)
          /\ \/ n = 0 /\ Ends(t, armed)
             \/ /\ n > 0
                /\ msg' = Delivered(batch)
                /\ timer' = armed
                /\ ticks' = [ticks EXCEPT ![t] =
                     [phase |-> "handler", list |-> [list EXCEPT ![q] = rest],
                      size |-> IF rest = {} THEN 0 ELSE n,
                      batch |-> batch, reg |-> consumers[i].reg]]

Has(q) == \E i \in DOMAIN consumers : consumers[i].queue = q

Listed(list) == UNION {list[q] : q \in Queues}

\* The timer fires, with no promise left to settle: a tick lists what is
\* pending in the queues that have a consumer.
TimerFires ==
  /\ timer
  /\ \A t \in Ticks : ticks[t].phase # "resumes"
  /\ \E t \in Ticks :
       LET list == [q \in Queues |-> IF Has(q) THEN PendingForQueue(q) ELSE {}]
       IN /\ ticks[t].phase = "idle"
          /\ \A u \in 1..(t - 1) : ticks[u].phase # "idle"
          /\ GoOn(t, list, 0, FALSE)
          /\ shared' = shared \cup
               {m \in Listed(list) : \E u \in Ticks : m \in Listed(ticks[u].list)}
  /\ UNCHANGED <<dlq, consumers, stopped, late>>

Called(m, c) == [msg EXCEPT ![m] = [@ EXCEPT !.call = c, !.decision = c]]

\* ack() and retry() of the latest delivery of a message, before or after its
\* handler settles; ackAll() and retryAll() are one such call after the other.
Ack(m) ==
  /\ msg[m].state \in {"delivered", "retrying"}
  /\ msg[m].call = "none"
  /\ msg' = Called(m, "ack")
  /\ UNCHANGED <<dlq, consumers, timer, ticks, stopped, shared, late>>

Retry(m) ==
  /\ msg[m].state \in {"delivered", "retrying"}
  /\ msg[m].call # "retry"
  /\ msg' = Called(m, "retry")
  /\ UNCHANGED <<dlq, consumers, timer, ticks, stopped, shared, late>>

\* ack() or retry() of the batch before the one in progress.
LateCall(m) ==
  /\ msg[m].state = "delivered"
  /\ msg[m].attempts > 1
  /\ \E c \in {"ack", "retry"} :
       /\ c = "ack" => msg[m].older = "none"
       /\ msg[m].older # "retry"
       /\ msg' = [msg EXCEPT ![m] = [@ EXCEPT !.older = c, !.decision = c]]
  /\ late' = late \cup {m}
  /\ UNCHANGED <<dlq, consumers, timer, ticks, stopped, shared>>

\* transitionAfterHandler(), with a handler that threw or not.
After(m, threw, reg) ==
  IF ~threw /\ msg[m].decision = "ack" THEN "ack"
  ELSE IF msg[m].attempts >= reg.max THEN "dead" ELSE "retrying"

\* A message that comes to `state`: its batches are not used again when it is
\* settled.
Reconciled(m, state) ==
  IF state = "retrying" THEN [msg[m] EXCEPT !.state = state, !.decision = "none"]
  ELSE [msg[m] EXCEPT !.state = state, !.decision = "none",
                      !.call = "retry", !.older = "retry"]

\* The handler of a tick settles: its messages are reconciled.
HandlerSettles(t, threw) ==
  LET batch == ticks[t].batch
      reg == ticks[t].reg
      dead == {m \in batch : After(m, threw, reg) = "dead"}
  IN /\ ticks[t].phase = "handler"
     /\ ticks' = [ticks EXCEPT ![t] = [@ EXCEPT !.phase = "resumes", !.batch = {}]]
     /\ msg' = [m \in Messages |->
                 IF m \in batch THEN Reconciled(m, After(m, threw, reg)) ELSE msg[m]]
     /\ dlq' = IF reg.dlq /\ dead # {} THEN Append(dlq, dead) ELSE dlq
     /\ timer' = (timer \/ HasPending(msg'))
     /\ UNCHANGED <<consumers, stopped, shared, late>>

\* The loops of the tick resume after `await dispatchBatch`.
Resume(t) ==
  /\ ticks[t].phase = "resumes"
  /\ GoOn(t, ticks[t].list, ticks[t].size, timer)
  /\ UNCHANGED <<dlq, consumers, stopped, shared, late>>

\* stop(): the Maps are cleared; a handler in progress still settles.
Stop ==
  /\ stopped' = TRUE
  /\ timer' = FALSE
  /\ consumers' = <<>>
  /\ dlq' = <<>>
  /\ UNCHANGED <<msg, ticks, shared, late>>

TickMoves ==
  \E t \in Ticks : Resume(t) \/ \E threw \in BOOLEAN : HandlerSettles(t, threw)

Next ==
  \/ \E q \in Queues, o \in Options : RegisterConsumer(q, o)
  \/ \E q \in Queues : Send(q)
  \/ \E m \in Messages : Clock(m) \/ DelayEnds(m) \/ Ack(m) \/ Retry(m) \/ LateCall(m)
  \/ TimerFires
  \/ TickMoves
  \/ Stop

Spec == Init /\ [][Next]_vars

\* Time passes, timers fire and handlers settle.
FairSpec ==
  /\ Spec
  /\ WF_vars(\E m \in Messages : Clock(m) \/ DelayEnds(m))
  /\ WF_vars(TimerFires)
  /\ WF_vars(TickMoves)

-----------------------------------------------------------------------------
\* The state of a message keeps to the walk of the comment at :14, and its
\* attempts count the deliveries.
Walks(m) ==
  \/ msg'[m].state = msg[m].state /\ msg'[m].attempts = msg[m].attempts
  \/ /\ msg[m].state \in {"pending", "retrying"} /\ msg'[m].state = "delivered"
     /\ msg'[m].attempts = msg[m].attempts + 1
  \/ /\ msg[m].state = "delivered" /\ msg'[m].state \in {"ack", "retrying", "dead"}
     /\ msg'[m].attempts = msg[m].attempts

\* A batch whose handler does not throw acks what the handler has acked and not
\* retried, and nothing else.
Decided(t) ==
  HandlerSettles(t, FALSE) =>
    \A m \in ticks[t].batch \ (shared' \cup late) :
      msg'[m].state = "ack" <=> msg[m].call = "ack"

\* FIFO, as the comment at :119 has it: a message is delivered for the first
\* time after the earlier undelayed ones of its queue, but for those whose ids
\* do not compare as their numbers do.
InOrder(m, n) ==
  m < n /\ Before(m, n) /\ msg[m].queue = msg[n].queue /\ m \notin Delayed
    /\ msg'[n].attempts > 0 => msg'[m].attempts > 0

\* `state` walks pending -> delivered -> ack | retrying -> dead (:14), the
\* outcome of a delivery is the one its handler chose, and first deliveries
\* are in order: only a message that two ticks had on their lists at once may
\* leave the walk, and only it or one that was acked or retried through an
\* older batch may be misjudged.
WalksAsDecided ==
  [][/\ \A m \in Messages \ shared' : Walks(m)
     /\ \A t \in Ticks : Decided(t)
     /\ \A m, n \in Messages : InOrder(m, n)]_vars

Settled(m) == msg[m].state \in {"ack", "dead"}
SomeSizeIs0 == \E i \in DOMAIN consumers : consumers[i].reg.size = 0

\* Each message is acked or dead in the end, once its queue has a consumer and
\* unless a consumer of any queue is registered with a batch size of 0.
MessagesSettle ==
  \A m \in 1..MaxSends :
    (m \in Messages /\ Has(msg[m].queue)) ~>
      (m \in Messages /\ (Settled(m) \/ stopped \/ SomeSizeIs0))

-----------------------------------------------------------------------------
\* Where a message is.  stop() empties the Maps, but a batch in a handler's
\* hands stays there until the handler settles.
Place(m) ==
  CASE msg[m].state = "delivered" -> "held"
    [] msg[m].state # "delivered" /\ (stopped \/ msg[m].state = "ack") -> "gone"
    [] ~stopped /\ msg[m].state = "dead" -> "dead"
    [] ~stopped /\ msg[m].state \in {"pending", "retrying"} -> "waits"

Letters == [m \in Messages |-> [queue |-> msg[m].queue, place |-> Place(m), given |-> msg[m].attempts]]

Deliveries == INSTANCE Delivery WITH message <- Letters
=============================================================================
