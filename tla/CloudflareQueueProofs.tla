------------------------ MODULE CloudflareQueueProofs ------------------------
(***************************************************************************)
(* What holds of the offline Cloudflare Queues for any queues, options,    *)
(* delays and bounds, with any number of ticks that run at once.           *)
(***************************************************************************)
EXTENDS CloudflareQueue, SequenceTheorems, FiniteSetTheorems, TLAPS

\* Who waits for its first delivery is pending, and without a delay visible.
Fresh ==
  \A m \in Messages : /\ msg[m].attempts = 0 => msg[m].state = "pending"
                      /\ m \notin Delayed => msg[m].wait = "over"

\* Ticks list messages under their queues, and a tick has a batch only while
\* it awaits a handler, of messages that are delivered once at least.
Sorted ==
  \A t \in Ticks : /\ \A q \in Queues : \A m \in ticks[t].list[q] : msg[m].queue = q
                   /\ \A m \in ticks[t].batch : msg[m].attempts > 0
                   /\ ticks[t].phase # "handler" => ticks[t].batch = {}

\* A message that is not shared is on one list or in one batch, and its state
\* says which; if nobody acted late, its decision is the latest call.
Owned(m) ==
  /\ \A t \in Ticks : m \in Listed(ticks[t].list) =>
       /\ msg[m].state \in {"pending", "retrying"}
       /\ \A u \in Ticks : m \in Listed(ticks[u].list) => t = u
  /\ \A t \in Ticks : m \in ticks[t].batch =>
       /\ msg[m].state = "delivered"
       /\ \A u \in Ticks : m \in ticks[u].batch => t = u
  /\ msg[m].state = "delivered" /\ m \notin late => msg[m].decision = msg[m].call
  /\ \A i \in DOMAIN dlq : m \in dlq[i] =>
       msg[m].state = "dead" /\ \A j \in DOMAIN dlq : m \in dlq[j] => i = j

\* m has to be delivered before n.
Ahead(m, n) == m < n /\ Before(m, n) /\ msg[m].queue = msg[n].queue /\ m \notin Delayed

\* What has not been delivered is on every list that one behind it is on.
InTurn ==
  \A m, n \in Messages : Ahead(m, n) =>
    /\ msg[n].attempts > 0 => msg[m].attempts > 0
    /\ \A t \in Ticks : \A q \in Queues :
         n \in ticks[t].list[q] /\ msg[m].attempts = 0 => m \in ticks[t].list[q]

IInv ==
  /\ TypeOK
  /\ Fresh
  /\ Sorted
  /\ \A m \in Messages \ shared : Owned(m)
  /\ InTurn

\* What is known of a step besides.
Walked ==
  \A m \in Messages :
    /\ m \in Messages' /\ msg'[m].queue = msg[m].queue
    /\ m \notin shared' => Walks(m)

-----------------------------------------------------------------------------
LEMMA MessageType ==
  ASSUME TypeOK
  PROVE  /\ Len(msg) \in Nat /\ Messages = 1..Len(msg)
         /\ \A m \in Messages :
              /\ m \in Nat \ {0} /\ msg[m] \in Message
              /\ msg[m].queue \in Queues /\ msg[m].attempts \in Nat
              /\ msg[m].state \in {"pending", "delivered", "ack", "retrying", "dead"}
              /\ msg[m].wait \in {"clock", "timer", "over"}
              /\ msg[m].decision \in Calls /\ msg[m].call \in Calls /\ msg[m].older \in Calls
<1>1. msg \in Seq(Message)
  BY DEF TypeOK
<1>2. Len(msg) \in Nat /\ Messages = 1..Len(msg)
  BY <1>1, LenProperties DEF Messages
<1>3. \A m \in Messages : m \in Nat \ {0} /\ msg[m] \in Message
  BY <1>1, <1>2, ElementOfSeq
<1> QED
  BY <1>2, <1>3 DEF Message

\* The same messages, each changed.
LEMMA Changed ==
  ASSUME TypeOK, NEW y, y = [m \in Messages |-> y[m]], \A m \in Messages : y[m] \in Message
  PROVE  y \in Seq(Message) /\ DOMAIN y = Messages
<1>1. PICK size \in Nat : Messages = 1..size
  BY MessageType
<1>2. y \in [1..size -> Message]
  BY <1>1
<1> QED
  BY <1>1, <1>2, SeqDef

LEMMA SetsInSeq ==
  ASSUME NEW S, NEW T, S \subseteq T, NEW x \in Seq(SUBSET S)
  PROVE  /\ x \in Seq(SUBSET T) /\ Len(x) \in Nat /\ DOMAIN x = 1..Len(x)
         /\ \A i \in DOMAIN x : x[i] \subseteq S
<1>1. Len(x) \in Nat /\ DOMAIN x = 1..Len(x)
  BY LenProperties
<1>2. \A i \in DOMAIN x : x[i] \in SUBSET S
  BY <1>1, ElementOfSeq
<1>3. x = [i \in 1..Len(x) |-> x[i]]
  BY <1>1, LenProperties
<1>4. x \in [1..Len(x) -> SUBSET T]
  BY <1>1, <1>2, <1>3
<1>5. x \in Seq(SUBSET T)
  BY <1>1, <1>4, SeqDef
<1> QED
  BY <1>1, <1>2, <1>5

LEMMA TickType ==
  ASSUME TypeOK, NEW t \in Ticks
  PROVE  /\ ticks[t] \in Tick /\ ticks \in [Ticks -> Tick]
         /\ ticks[t].phase \in {"idle", "handler", "resumes"}
         /\ ticks[t].list \in [Queues -> SUBSET Messages]
         /\ ticks[t].size \in Nat
         /\ ticks[t].batch \subseteq Messages /\ ticks[t].reg \in Options
<1>1. ticks \in [Ticks -> Tick]
  BY DEF TypeOK
<1>2. ticks[t] \in Tick
  BY <1>1
<1> QED
  BY <1>1, <1>2 DEF Tick

LEMMA IdleType ==
  /\ Idle \in Tick /\ Idle.phase = "idle" /\ Idle.batch = {} /\ Listed(Idle.list) = {}
  /\ Idle.list \in [Queues -> SUBSET Messages] /\ \A q \in Queues : Idle.list[q] = {}
<1>1. (CHOOSE o \in Options : TRUE) \in Options
  BY CloudflareQueueAssumption DEF CloudflareQueueAssumption
<1>2. Idle.list = [q \in Queues |-> {}] /\ Idle.phase = "idle" /\ Idle.batch = {}
  BY DEF Idle
<1>3. Idle \in Tick
  BY <1>1 DEF Idle, Tick
<1> QED
  BY <1>2, <1>3 DEF Listed

LEMMA ConsumerType ==
  ASSUME TypeOK
  PROVE  /\ Len(consumers) \in Nat /\ DOMAIN consumers = 1..Len(consumers)
         /\ \A i \in DOMAIN consumers : /\ consumers[i] \in [queue : Queues, reg : Options]
                                        /\ consumers[i].queue \in Queues /\ consumers[i].reg \in Options
<1>1. consumers \in Seq([queue : Queues, reg : Options])
  BY DEF TypeOK
<1>2. Len(consumers) \in Nat /\ DOMAIN consumers = 1..Len(consumers)
  BY <1>1, LenProperties
<1>3. \A i \in DOMAIN consumers : consumers[i] \in [queue : Queues, reg : Options]
  BY <1>1, <1>2, ElementOfSeq
<1> QED
  BY <1>2, <1>3

LEMMA BeforeIsTransitive ==
  ASSUME NEW k \in Nat, NEW m \in Nat, NEW n \in Nat, Before(k, m), Before(m, n)
  PROVE  Before(k, n)
BY CloudflareQueueAssumption DEF CloudflareQueueAssumption, Before

\* A chunk has with a message all those listed that come before it.
LEMMA ChunkIsClosed ==
  ASSUME TypeOK, NEW ms, ms \subseteq Messages, NEW size \in Nat,
         NEW n \in First(size, ms), NEW m \in ms, Before(m, n)
  PROVE  m \in First(size, ms)
<1>1. PICK S, T : S = {k \in ms : Before(k, m)} /\ T = {k \in ms : Before(k, n)}
  OBVIOUS
<1>2. \A k \in ms : k \in Nat
  BY MessageType
<1>3. n \in ms /\ Cardinality(T) < size
  BY <1>1 DEF First
<1>4. S \subseteq T
  <2> SUFFICES ASSUME NEW k \in S PROVE k \in T
    OBVIOUS
  <2>1. k \in ms /\ Before(k, m)
    BY <1>1
  <2>2. Before(k, n)
    BY <1>2, <1>3, <2>1, BeforeIsTransitive
  <2> QED
    BY <1>1, <2>1, <2>2
<1>5. IsFiniteSet(Messages)
  BY MessageType, FS_Interval
<1>6. IsFiniteSet(T)
  BY <1>1, <1>5, FS_Subset
<1>7. Cardinality(S) <= Cardinality(T) /\ Cardinality(S) \in Nat /\ Cardinality(T) \in Nat
  BY <1>4, <1>6, FS_Subset, FS_CardinalityType
<1>8. Cardinality(S) < size
  BY <1>3, <1>7
<1> QED
  BY <1>1, <1>8 DEF First

-----------------------------------------------------------------------------
\* A step that changes nothing of a message but its wait and its calls.
LEMMA TouchedIInv ==
  ASSUME IInv, NEW k \in Messages, NEW r \in Message, msg' = [msg EXCEPT ![k] = r],
         r.queue = msg[k].queue, r.state = msg[k].state, r.attempts = msg[k].attempts,
         msg[k].wait = "over" => r.wait = "over",
         r.state = "delivered" /\ k \notin late' => r.decision = r.call \/ k \in shared,
         late \subseteq late',
         UNCHANGED <<dlq, consumers, ticks, stopped, shared>>,
         timer' \in BOOLEAN, stopped => ~timer'
  PROVE  IInv' /\ Walked
<1>1. TypeOK /\ Fresh /\ Sorted /\ InTurn /\ (\A m \in Messages \ shared : Owned(m))
  BY DEF IInv
<1>2. /\ Messages' = Messages /\ msg' \in Seq(Message)
      /\ \A m \in Messages : msg'[m] = IF m = k THEN r ELSE msg[m]
  <2>1. PICK y : y = msg'
    OBVIOUS
  <2>2. y = [m \in Messages |-> y[m]] /\ \A m \in Messages : y[m] = IF m = k THEN r ELSE msg[m]
    BY <2>1 DEF Messages
  <2>3. \A m \in Messages : y[m] \in Message
    BY <1>1, <2>2, MessageType
  <2>4. y \in Seq(Message) /\ DOMAIN y = Messages
    BY <1>1, <2>2, <2>3, Changed
  <2> QED
    BY <2>1, <2>2, <2>4 DEF Messages
<1>3. \A m \in Messages : /\ msg'[m].queue = msg[m].queue /\ msg'[m].state = msg[m].state
                          /\ msg'[m].attempts = msg[m].attempts
                          /\ msg[m].wait = "over" => msg'[m].wait = "over"
                          /\ m # k => msg'[m].decision = msg[m].decision /\ msg'[m].call = msg[m].call
  BY <1>2
<1>4. TypeOK'
  <2>1. ticks' \in [Ticks -> Tick'] /\ dlq' \in Seq(SUBSET Messages')
    BY <1>1, <1>2 DEF TypeOK, Tick
  <2>2. \A m \in Messages' :
          /\ msg'[m].state = "delivered" => \E t \in Ticks : m \in ticks'[t].batch
          /\ msg'[m].state = "pending" => msg'[m].attempts = 0
          /\ msg'[m].state = "dead" => m \in shared' \/ \A i, j \in DOMAIN dlq' :
                                        m \in dlq'[i] /\ m \in dlq'[j] => i = j
    BY <1>1, <1>2, <1>3 DEF TypeOK
  <2> QED
    BY <1>1, <1>2, <2>1, <2>2 DEF TypeOK
<1>5. Fresh' /\ Sorted'
  BY <1>1, <1>2, <1>3, TickType DEF Fresh, Sorted
<1>6. ASSUME NEW m \in Messages \ shared PROVE Owned(m)'
  <2>1. msg'[m].state = "delivered" /\ m \notin late' => msg'[m].decision = msg'[m].call
    <3>1. CASE m = k
      BY <1>2, <1>6, <3>1
    <3>2. CASE m # k
      BY <1>1, <1>3, <1>6, <3>2 DEF Owned
    <3> QED
      BY <3>1, <3>2
  <2> QED
    BY <1>1, <1>3, <1>6, <2>1 DEF Owned, Listed
<1>7. InTurn'
  <2>1. \A m, n \in Messages : Ahead(m, n)' <=> Ahead(m, n)
    BY <1>3 DEF Ahead, Before
  <2> QED
    BY <1>1, <1>2, <1>3, <2>1 DEF InTurn
<1>8. Walked
  BY <1>2, <1>3 DEF Walked, Walks
<1> QED
  BY <1>2, <1>4, <1>5, <1>6, <1>7, <1>8 DEF IInv

LEMMA MarksIInv ==
  ASSUME IInv, NEW m \in Messages,
         Clock(m) \/ DelayEnds(m) \/ Ack(m) \/ Retry(m) \/ LateCall(m)
  PROVE  IInv' /\ Walked
<1>1. TypeOK /\ \A k \in Messages \ shared : Owned(k)
  BY DEF IInv
<1>2. PICK x \in Message : x = msg[m]
  BY <1>1, MessageType
<1>3. timer \in BOOLEAN /\ (stopped => ~timer)
  BY <1>1 DEF TypeOK
<1>4. m \notin shared /\ x.state = "delivered" /\ m \notin late => x.decision = x.call
  BY <1>1, <1>2 DEF Owned
<1>5. CASE Clock(m)
  <2>1. PICK r : r = [x EXCEPT !.wait = "timer"]
    OBVIOUS
  <2>2. /\ r \in Message /\ r.queue = x.queue /\ r.state = x.state /\ r.attempts = x.attempts
        /\ r.decision = x.decision /\ r.call = x.call
    BY <2>1 DEF Message
  <2>3. /\ msg' = [msg EXCEPT ![m] = r] /\ x.wait = "clock"
        /\ UNCHANGED <<dlq, consumers, timer, ticks, stopped, shared, late>>
    BY <1>2, <1>5, <2>1 DEF Clock
  <2> QED
    BY <1>2, <1>3, <1>4, <2>2, <2>3, TouchedIInv
<1>6. CASE DelayEnds(m)
  <2>1. PICK r : r = [x EXCEPT !.wait = "over"]
    OBVIOUS
  <2>2. /\ r \in Message /\ r.queue = x.queue /\ r.state = x.state /\ r.attempts = x.attempts
        /\ r.decision = x.decision /\ r.call = x.call /\ r.wait = "over"
    BY <2>1 DEF Message
  <2>3. /\ msg' = [msg EXCEPT ![m] = r]
        /\ UNCHANGED <<dlq, consumers, ticks, stopped, shared, late>>
        /\ timer' \in BOOLEAN /\ (stopped => ~timer')
    BY <1>2, <1>3, <1>6, <2>1 DEF DelayEnds
  <2> QED
    BY <1>2, <1>3, <1>4, <2>2, <2>3, TouchedIInv
<1>7. CASE Ack(m) \/ Retry(m)
  <2>1. PICK c \in Calls : /\ msg' = Called(m, c)
                           /\ UNCHANGED <<dlq, consumers, timer, ticks, stopped, shared, late>>
    BY <1>7 DEF Ack, Retry, Calls
  <2>2. PICK r : r = [x EXCEPT !.call = c, !.decision = c]
    OBVIOUS
  <2>3. /\ r \in Message /\ r.queue = x.queue /\ r.state = x.state /\ r.attempts = x.attempts
        /\ r.decision = c /\ r.call = c /\ r.wait = x.wait
    BY <2>2 DEF Message
  <2>4. msg' = [msg EXCEPT ![m] = r]
    BY <1>2, <2>1, <2>2 DEF Called
  <2> QED
    BY <1>2, <1>3, <2>1, <2>3, <2>4, TouchedIInv
<1>8. CASE LateCall(m)
  <2>1. PICK c \in {"ack", "retry"} : msg' = [msg EXCEPT ![m] = [@ EXCEPT !.older = c, !.decision = c]]
    BY <1>8 DEF LateCall
  <2>2. PICK r : r = [x EXCEPT !.older = c, !.decision = c]
    OBVIOUS
  <2>3. /\ r \in Message /\ r.queue = x.queue /\ r.state = x.state /\ r.attempts = x.attempts
        /\ r.wait = x.wait
    BY <2>2 DEF Message, Calls
  <2>4. /\ msg' = [msg EXCEPT ![m] = r] /\ late' = late \cup {m}
        /\ UNCHANGED <<dlq, consumers, timer, ticks, stopped, shared>>
    BY <1>2, <1>8, <2>1, <2>2 DEF LateCall
  <2> QED
    BY <1>2, <1>3, <2>3, <2>4, TouchedIInv
<1> QED
  BY <1>5, <1>6, <1>7, <1>8

LEMMA SendIInv ==
  ASSUME IInv, NEW q \in Queues, Send(q)
  PROVE  IInv' /\ Walked
<1>1. TypeOK /\ Fresh /\ Sorted /\ InTurn /\ (\A m \in Messages \ shared : Owned(m))
  BY DEF IInv
<1>2. PICK size \in Nat : size = Len(msg) /\ Messages = 1..size
  BY <1>1, MessageType
<1>3. PICK wait \in {"clock", "over"} : wait = IF size + 1 \in Delayed THEN "clock" ELSE "over"
  OBVIOUS
<1>4. PICK e : e = [queue |-> q, state |-> "pending", attempts |-> 0, wait |-> wait,
                    decision |-> "none", call |-> "none", older |-> "none"]
  OBVIOUS
<1>5. /\ e \in Message /\ e.queue = q /\ e.state = "pending" /\ e.attempts = 0
      /\ size + 1 \notin Delayed => e.wait = "over"
  BY <1>3, <1>4 DEF Message, Calls
<1>6. /\ msg' = Append(msg, e) /\ timer' = (timer \/ ~(size + 1 \in Delayed)) /\ ~stopped
      /\ UNCHANGED <<dlq, consumers, ticks, stopped, shared, late>>
  BY <1>2, <1>3, <1>4 DEF Send
<1>7. /\ msg' \in Seq(Message) /\ Messages' = 1..(size + 1) /\ msg'[size + 1] = e
      /\ \A m \in Messages : msg'[m] = msg[m]
  <2>1. PICK x, C : C = Message /\ x = msg /\ x \in Seq(C) /\ size = Len(x) /\ e \in C
    BY <1>1, <1>2, <1>5 DEF TypeOK
  <2>2. /\ Append(x, e) \in Seq(C) /\ Len(Append(x, e)) = size + 1 /\ Append(x, e)[size + 1] = e
        /\ \A m \in 1..size : Append(x, e)[m] = x[m]
    BY <2>1, AppendProperties
  <2>3. DOMAIN Append(x, e) = 1..(size + 1)
    BY <2>2, LenProperties
  <2> QED
    BY <1>2, <1>6, <2>1, <2>2, <2>3 DEF Messages
<1>8. /\ Messages \subseteq Messages' /\ size + 1 \notin Messages /\ size + 1 \in Messages'
      /\ \A m \in Messages' : m \in Messages \/ m = size + 1
      /\ \A m \in Messages : m < size + 1
  BY <1>2, <1>7
<1>9. TypeOK'
  <2>1. dlq' \in Seq(SUBSET Messages')
    <3>1. dlq \in Seq(SUBSET Messages)
      BY <1>1 DEF TypeOK
    <3>2. dlq \in Seq(SUBSET Messages')
      BY <1>8, <3>1, SetsInSeq
    <3> QED
      BY <1>6, <3>2
  <2>2. ticks' \in [Ticks -> Tick']
    <3>1. Tick \subseteq Tick'
      <4>1. PICK M, N : M = Messages /\ N = Messages' /\ M \subseteq N
        BY <1>8
      <4> QED
        BY <4>1 DEF Tick
    <3> QED
      BY <1>1, <1>6, <3>1 DEF TypeOK
  <2>3. \A m \in Messages' :
          /\ msg'[m].state = "delivered" => \E t \in Ticks : m \in ticks'[t].batch
          /\ msg'[m].state = "pending" => msg'[m].attempts = 0
          /\ msg'[m].state = "dead" => m \in shared' \/ \A i, j \in DOMAIN dlq' :
                                        m \in dlq'[i] /\ m \in dlq'[j] => i = j
    <3> SUFFICES ASSUME NEW m \in Messages'
                 PROVE  /\ msg'[m].state = "delivered" => \E t \in Ticks : m \in ticks'[t].batch
                        /\ msg'[m].state = "pending" => msg'[m].attempts = 0
                        /\ msg'[m].state = "dead" => m \in shared' \/ \A i, j \in DOMAIN dlq' :
                                        m \in dlq'[i] /\ m \in dlq'[j] => i = j
      OBVIOUS
    <3>1. CASE m \in Messages
      BY <1>1, <1>6, <1>7, <3>1 DEF TypeOK
    <3>2. CASE m = size + 1
      BY <1>5, <1>7, <3>2
    <3> QED
      BY <1>8, <3>1, <3>2
  <2>4. stopped' => ~timer' /\ consumers' = <<>>
    BY <1>6
  <2>5. consumers' \in Seq([queue : Queues, reg : Options]) /\ timer' \in BOOLEAN
        /\ \A i, j \in DOMAIN consumers' : consumers'[i].queue = consumers'[j].queue => i = j
    BY <1>1, <1>6 DEF TypeOK
  <2> QED
    BY <1>7, <2>1, <2>2, <2>3, <2>4, <2>5 DEF TypeOK
<1>10. Fresh'
  <2>1. \A m \in Messages : /\ msg'[m].attempts = 0 => msg'[m].state = "pending"
                            /\ m \notin Delayed => msg'[m].wait = "over"
    BY <1>1, <1>7 DEF Fresh
  <2> QED
    BY <1>5, <1>7, <1>8, <2>1 DEF Fresh
<1>11. Sorted'
  <2> SUFFICES ASSUME NEW t \in Ticks
               PROVE  /\ \A a \in Queues : \A m \in ticks[t].list[a] : msg'[m].queue = a
                      /\ \A m \in ticks[t].batch : msg'[m].attempts > 0
                      /\ ticks[t].phase # "handler" => ticks[t].batch = {}
    BY <1>6 DEF Sorted
  <2>1. /\ \A a \in Queues : \A m \in ticks[t].list[a] : m \in Messages
        /\ \A m \in ticks[t].batch : m \in Messages
    BY <1>1, TickType
  <2> QED
    BY <1>1, <1>7, <2>1 DEF Sorted
<1>12. \A t \in Ticks : /\ size + 1 \notin ticks[t].batch
                        /\ \A a \in Queues : size + 1 \notin ticks[t].list[a]
  BY <1>1, <1>8, TickType
<1>13. UNCHANGED <<dlq, consumers, ticks, stopped, shared, late>>
  BY <1>6
<1>14. ASSUME NEW m \in Messages' \ shared' PROVE Owned(m)'
  <2>1. CASE m \in Messages
    <3>1. Owned(m)
      BY <1>1, <1>14, <1>13, <2>1
    <3> QED
      BY <1>7, <1>13, <2>1, <3>1 DEF Owned
  <2>2. CASE m = size + 1
    <3>1. \A i \in DOMAIN dlq : m \notin dlq[i]
      <4>1. \A i \in DOMAIN dlq : dlq[i] \subseteq Messages
        <5>1. dlq \in Seq(SUBSET Messages)
          BY <1>1 DEF TypeOK
        <5> QED
          BY <5>1, SetsInSeq
      <4> QED
        BY <1>8, <2>2, <4>1
    <3>2. \A t \in Ticks : m \notin Listed(ticks[t].list)
      BY <1>12, <2>2 DEF Listed
    <3> QED
      BY <1>5, <1>7, <1>12, <1>13, <2>2, <3>1, <3>2 DEF Owned
  <2> QED
    BY <1>8, <2>1, <2>2
<1>15. InTurn'
  <2> SUFFICES ASSUME NEW m \in Messages', NEW n \in Messages', Ahead(m, n)'
               PROVE  /\ msg'[n].attempts > 0 => msg'[m].attempts > 0
                      /\ \A t \in Ticks : \A a \in Queues :
                           n \in ticks'[t].list[a] /\ msg'[m].attempts = 0 => m \in ticks'[t].list[a]
    BY DEF InTurn
  <2>1. CASE n \in Messages
    <3>1. m \in Messages
      BY <1>2, <1>7, <2>1 DEF Ahead
    <3>2. Ahead(m, n)
      BY <1>7, <2>1, <3>1 DEF Ahead, Before
    <3> QED
      BY <1>1, <1>6, <1>7, <2>1, <3>1, <3>2 DEF InTurn
  <2>2. CASE n = size + 1
    BY <1>5, <1>7, <1>12, <1>13, <2>2
  <2> QED
    BY <1>8, <2>1, <2>2
<1>16. Walked
  BY <1>7, <1>8 DEF Walked, Walks
<1> QED
  BY <1>9, <1>10, <1>11, <1>14, <1>15, <1>16 DEF IInv

LEMMA RegisterConsumerIInv ==
  ASSUME IInv, NEW q \in Queues, NEW o \in Options, RegisterConsumer(q, o)
  PROVE  IInv' /\ Walked
<1>1. TypeOK /\ Fresh /\ Sorted /\ InTurn /\ (\A m \in Messages \ shared : Owned(m))
  BY DEF IInv
<1>2. /\ timer' = TRUE /\ ~stopped
      /\ UNCHANGED <<msg, dlq, ticks, stopped, shared, late>>
  BY DEF RegisterConsumer
<1>3. PICK C, c, x, size :
        /\ size \in Nat /\ C = [queue : Queues, reg : Options] /\ c = [queue |-> q, reg |-> o]
        /\ x = consumers /\ x \in Seq(C) /\ size = Len(x) /\ DOMAIN x = 1..size
  BY <1>1, ConsumerType DEF TypeOK
<1>4. c \in C /\ c.queue = q
  BY <1>3
<1>5. PICK at : at = {i \in DOMAIN x : x[i].queue = q}
  OBVIOUS
<1>6. /\ consumers' \in Seq(C)
      /\ \A i, j \in DOMAIN consumers' : consumers'[i].queue = consumers'[j].queue => i = j
  <2>1. CASE at = {}
    <3>1. consumers' = Append(x, c)
      BY <1>3, <1>5, <2>1 DEF RegisterConsumer
    <3>2. /\ Append(x, c) \in Seq(C) /\ Len(Append(x, c)) = size + 1 /\ Append(x, c)[size + 1] = c
          /\ \A i \in 1..size : Append(x, c)[i] = x[i]
      BY <1>3, <1>4, AppendProperties
    <3>3. DOMAIN Append(x, c) = 1..(size + 1)
      BY <3>2, LenProperties
    <3>4. \A i \in 1..size : x[i].queue # q
      BY <1>3, <1>5, <2>1
    <3>5. \A i, j \in 1..size : x[i].queue = x[j].queue => i = j
      <4>1. \A i, j \in DOMAIN consumers : consumers[i].queue = consumers[j].queue => i = j
        BY <1>1 DEF TypeOK
      <4> QED
        BY <1>3, <4>1
    <3>6. \A i \in 1..(size + 1) : i \in 1..size \/ i = size + 1
      BY <1>3
    <3>7. \A i, j \in 1..(size + 1) : Append(x, c)[i].queue = Append(x, c)[j].queue => i = j
      BY <1>4, <3>2, <3>4, <3>5, <3>6
    <3> QED
      BY <3>1, <3>2, <3>3, <3>7
  <2>2. CASE at # {}
    <3>1. PICK y : y = consumers' /\ y = [i \in 1..size |-> IF i \in at THEN c ELSE x[i]]
      BY <1>3, <1>5, <2>2 DEF RegisterConsumer
    <3>2. \A i \in 1..size : x[i] \in C
      BY <1>3, ElementOfSeq
    <3>3. y \in [1..size -> C]
      BY <1>4, <3>1, <3>2
    <3>4. y \in Seq(C)
      BY <1>3, <3>3, SeqDef
    <3>5. \A i \in 1..size : y[i].queue = x[i].queue
      BY <1>3, <1>4, <1>5, <3>1
    <3>6. DOMAIN y = 1..size
      BY <3>1
    <3> QED
      BY <1>1, <1>3, <3>1, <3>4, <3>5, <3>6 DEF TypeOK
  <2> QED
    BY <2>1, <2>2
<1>7. TypeOK'
  BY <1>1, <1>2, <1>3, <1>6 DEF TypeOK, Messages, Tick
<1>8. Fresh' /\ Sorted' /\ InTurn' /\ Messages' = Messages
  BY <1>1, <1>2 DEF Fresh, Sorted, InTurn, Ahead, Before, Messages
<1>9. \A m \in Messages \ shared : Owned(m)'
  BY <1>1, <1>2 DEF Owned, Listed
<1> QED
  BY <1>2, <1>7, <1>8, <1>9 DEF IInv, Walked, Walks, Messages

LEMMA StopIInv ==
  ASSUME IInv, Stop
  PROVE  IInv' /\ Walked
<1>1. TypeOK /\ Fresh /\ Sorted /\ InTurn /\ (\A m \in Messages \ shared : Owned(m))
  BY DEF IInv
<1>2. /\ stopped' = TRUE /\ timer' = FALSE /\ consumers' = <<>> /\ dlq' = <<>>
      /\ UNCHANGED <<msg, ticks, shared, late>>
  BY DEF Stop
<1>3. \A x : <<>> \in Seq(x) /\ DOMAIN <<>> = {}
  OBVIOUS
<1>4. TypeOK'
  BY <1>1, <1>2, <1>3 DEF TypeOK, Messages, Tick
<1>5. Fresh' /\ Sorted' /\ InTurn' /\ Messages' = Messages
  BY <1>1, <1>2 DEF Fresh, Sorted, InTurn, Ahead, Before, Messages
<1>6. \A m \in Messages \ shared : Owned(m)'
  BY <1>1, <1>2, <1>3 DEF Owned, Listed
<1> QED
  BY <1>2, <1>4, <1>5, <1>6 DEF IInv, Walked, Walks, Messages

\* A tick ends.
LEMMA EndsIInv ==
  ASSUME IInv, NEW t \in Ticks, NEW armed \in BOOLEAN, stopped => ~armed,
         ticks[t].phase # "handler", Ends(t, armed),
         UNCHANGED <<dlq, consumers, stopped, late>>, shared \subseteq shared'
  PROVE  IInv' /\ Walked
<1>1. TypeOK /\ Fresh /\ Sorted /\ InTurn /\ (\A m \in Messages \ shared : Owned(m))
  BY DEF IInv
<1>2. /\ msg' = msg /\ Messages' = Messages /\ timer' = armed
      /\ ticks' = [ticks EXCEPT ![t] = Idle]
  BY DEF Ends, Messages
<1>3. PICK r : r = Idle
  OBVIOUS
<1>4. /\ r \in Tick /\ r.batch = {} /\ Listed(r.list) = {} /\ r.phase = "idle"
      /\ r.list \in [Queues -> SUBSET Messages] /\ \A q \in Queues : r.list[q] = {}
  BY <1>3, IdleType
<1>5. /\ ticks' \in [Ticks -> Tick] /\ ticks'[t] = r
      /\ \A u \in Ticks : u # t => ticks'[u] = ticks[u]
  BY <1>1, <1>2, <1>3, <1>4, TickType
<1>6. ticks[t].batch = {}
  BY <1>1 DEF Sorted
<1>7. ticks' \in [Ticks -> Tick']
  BY <1>2, <1>5 DEF Tick
<1>8. TypeOK'
  <2>1. /\ dlq' \in Seq(SUBSET Messages') /\ msg' \in Seq(Message)
        /\ consumers' \in Seq([queue : Queues, reg : Options]) /\ timer' \in BOOLEAN
        /\ \A i, j \in DOMAIN consumers' : consumers'[i].queue = consumers'[j].queue => i = j
        /\ stopped' => ~timer' /\ consumers' = <<>>
    BY <1>1, <1>2 DEF TypeOK
  <2>2. ASSUME NEW m \in Messages, msg[m].state = "delivered" PROVE \E u \in Ticks : m \in ticks'[u].batch
    <3>1. PICK u \in Ticks : m \in ticks[u].batch
      BY <1>1, <2>2 DEF TypeOK
    <3>2. u # t
      BY <1>6, <3>1
    <3> QED
      BY <1>5, <3>1, <3>2
  <2>3. \A m \in Messages :
          /\ msg[m].state = "pending" => msg[m].attempts = 0
          /\ msg[m].state = "dead" => m \in shared' \/ \A i, j \in DOMAIN dlq' :
                                        m \in dlq'[i] /\ m \in dlq'[j] => i = j
    BY <1>1 DEF TypeOK
  <2> QED
    BY <1>2, <1>7, <2>1, <2>2, <2>3 DEF TypeOK
<1>9. Fresh' /\ Sorted'
  BY <1>1, <1>2, <1>4, <1>5 DEF Fresh, Sorted
<1>10. ASSUME NEW m \in Messages' \ shared' PROVE Owned(m)'
  <2>1. Owned(m)
    BY <1>1, <1>2, <1>10
  <2>2. \A u \in Ticks : /\ m \in Listed(ticks'[u].list) => u # t /\ m \in Listed(ticks[u].list)
                         /\ m \in ticks'[u].batch => u # t /\ m \in ticks[u].batch
    BY <1>4, <1>5
  <2> QED
    BY <1>2, <2>1, <2>2 DEF Owned
<1>11. InTurn'
  <2>1. \A m, n \in Messages : Ahead(m, n)' <=> Ahead(m, n)
    BY <1>2 DEF Ahead, Before
  <2>2. \A u \in Ticks : \A q \in Queues : \A m \in ticks'[u].list[q] : u # t /\ ticks'[u] = ticks[u]
    BY <1>4, <1>5
  <2> QED
    BY <1>1, <1>2, <2>1, <2>2 DEF InTurn
<1>12. Walked
  BY <1>2 DEF Walked, Walks
<1> QED
  BY <1>8, <1>9, <1>10, <1>11, <1>12 DEF IInv

\* What a tick that goes on with `list` may deliver.
Deliverable(t, list) ==
  /\ \A q \in Queues : \A m \in list[q] : msg[m].queue = q
  /\ \A m \in Listed(list) \ shared' :
       /\ msg[m].state \in {"pending", "retrying"}
       /\ \A u \in Ticks : m \in Listed(ticks[u].list) => u = t
  /\ \A m, n \in Messages : Ahead(m, n) =>
       \A q \in Queues : n \in list[q] /\ msg[m].attempts = 0 => m \in list[q]

\* A chunk of a list is delivered.
LEMMA DeliveryIInv ==
  ASSUME IInv, NEW t \in Ticks, NEW list \in [Queues -> SUBSET Messages],
         NEW q \in Queues, NEW n \in Nat, NEW size \in Nat, NEW reg \in Options,
         NEW batch, batch = First(n, list[q]),
         ticks[t].phase # "handler", Deliverable(t, list), timer' \in BOOLEAN, stopped => ~timer',
         msg' = Delivered(batch),
         ticks' = [ticks EXCEPT ![t] =
           [phase |-> "handler", list |-> [list EXCEPT ![q] = list[q] \ batch],
            size |-> size, batch |-> batch, reg |-> reg]],
         UNCHANGED <<dlq, consumers, stopped, late>>, shared \subseteq shared'
  PROVE  IInv' /\ Walked
<1>1. TypeOK /\ Fresh /\ Sorted /\ InTurn /\ (\A m \in Messages \ shared : Owned(m))
  BY DEF IInv
<1>2. batch \subseteq list[q] /\ batch \subseteq Messages
  BY DEF First
<1>3. PICK newlist : newlist = [list EXCEPT ![q] = list[q] \ batch]
  OBVIOUS
<1>4. /\ newlist \in [Queues -> SUBSET Messages]
      /\ \A a \in Queues : newlist[a] = IF a = q THEN list[q] \ batch ELSE list[a]
  BY <1>3
<1>5. PICK r : r = [phase |-> "handler", list |-> newlist, size |-> size, batch |-> batch, reg |-> reg]
  OBVIOUS
<1>6. r \in Tick /\ r.phase = "handler" /\ r.list = newlist /\ r.batch = batch
  BY <1>2, <1>4, <1>5 DEF Tick
<1>7. /\ ticks' \in [Ticks -> Tick] /\ ticks'[t] = r
      /\ \A u \in Ticks : u # t => ticks'[u] = ticks[u]
  BY <1>1, <1>3, <1>5, <1>6, TickType
<1>8. /\ Messages' = Messages /\ msg' \in Seq(Message)
      /\ \A m \in Messages \ batch : msg'[m] = msg[m]
      /\ \A m \in batch : /\ msg'[m].state = "delivered" /\ msg'[m].attempts = msg[m].attempts + 1
                          /\ msg'[m].decision = "none" /\ msg'[m].call = "none"
                          /\ msg'[m].queue = msg[m].queue /\ msg'[m].wait = msg[m].wait
  <2>1. PICK y : y = msg' /\ y = Delivered(batch)
    OBVIOUS
  <2>2. y = [m \in Messages |-> y[m]] /\ \A m \in Messages \ batch : y[m] = msg[m]
    BY <2>1 DEF Delivered
  <2>3. ASSUME NEW m \in batch
        PROVE  /\ y[m] \in Message /\ y[m].state = "delivered" /\ y[m].attempts = msg[m].attempts + 1
               /\ y[m].decision = "none" /\ y[m].call = "none"
               /\ y[m].queue = msg[m].queue /\ y[m].wait = msg[m].wait
    <3>1. PICK x \in Message : x = msg[m]
      BY <1>1, <1>2, MessageType
    <3>2. /\ x.queue \in Queues /\ x.wait \in {"clock", "timer", "over"}
          /\ x.attempts \in Nat /\ x.call \in Calls
      BY <3>1 DEF Message
    <3>3. PICK more, old : more = x.attempts + 1 /\ old = x.call /\ more \in Nat
      BY <3>2
    <3>4. y[m] = [x EXCEPT !.state = "delivered", !.attempts = more, !.decision = "none",
                           !.call = "none", !.older = old]
      BY <1>2, <2>1, <3>1, <3>3 DEF Delivered, Reset
    <3>5. y[m] = [queue |-> x.queue, state |-> "delivered", wait |-> x.wait, attempts |-> more,
                  decision |-> "none", call |-> "none", older |-> old]
      BY <3>1, <3>4 DEF Message
    <3> QED
      BY <3>1, <3>2, <3>3, <3>5 DEF Message, Calls
  <2>4. \A m \in Messages : y[m] \in Message
    BY <1>1, <2>2, <2>3, MessageType
  <2>5. y \in Seq(Message) /\ DOMAIN y = Messages
    BY <1>1, <2>2, <2>4, Changed
  <2> QED
    BY ZenonT(60), <2>1, <2>2, <2>3, <2>5 DEF Messages
<1>9. ticks[t].batch = {}
  BY <1>1 DEF Sorted
<1>10. \A m \in batch : m \in Listed(list) /\ msg[m].queue = q
  BY <1>2 DEF Deliverable, Listed
<1>11. \A m \in Messages : m \in Listed(newlist) => m \in Listed(list) /\ m \notin batch
  <2> SUFFICES ASSUME NEW m \in Messages, NEW a \in Queues, m \in newlist[a]
               PROVE  m \in list[a] /\ m \notin batch
    BY DEF Listed
  <2>1. CASE a = q
    BY <1>4, <2>1
  <2>2. CASE a # q
    BY <1>4, <1>10, <2>2 DEF Deliverable
  <2> QED
    BY <2>1, <2>2
<1>12. TypeOK'
  <2>1. /\ dlq' \in Seq(SUBSET Messages') /\ msg' \in Seq(Message)
        /\ consumers' \in Seq([queue : Queues, reg : Options]) /\ timer' \in BOOLEAN
        /\ \A i, j \in DOMAIN consumers' : consumers'[i].queue = consumers'[j].queue => i = j
        /\ stopped' => ~timer' /\ consumers' = <<>>
    BY <1>1, <1>8 DEF TypeOK
  <2>2. ASSUME NEW m \in Messages, msg'[m].state = "delivered" PROVE \E u \in Ticks : m \in ticks'[u].batch
    <3>1. CASE m \in batch
      BY <1>6, <1>7, <3>1
    <3>2. CASE m \notin batch
      <4>1. PICK u \in Ticks : m \in ticks[u].batch
        <5>1. msg[m].state = "delivered"
          BY <1>8, <2>2, <3>2
        <5> QED
          BY <1>1, <5>1 DEF TypeOK
      <4>2. u # t
        BY <1>9, <4>1
      <4> QED
        BY <1>7, <4>1, <4>2
    <3> QED
      BY <3>1, <3>2
  <2>3. ASSUME NEW m \in Messages
        PROVE  /\ msg'[m].state = "pending" => msg'[m].attempts = 0
               /\ msg'[m].state = "dead" => m \in shared' \/ \A i, j \in DOMAIN dlq' :
                                             m \in dlq'[i] /\ m \in dlq'[j] => i = j
    <3>1. CASE m \in batch
      BY <1>8, <3>1
    <3>2. CASE m \notin batch
      BY <1>1, <1>8, <2>3, <3>2 DEF TypeOK
    <3> QED
      BY <3>1, <3>2
  <2>4. ticks' \in [Ticks -> Tick']
    BY <1>7, <1>8 DEF Tick
  <2> QED
    BY <1>8, <2>1, <2>2, <2>3, <2>4 DEF TypeOK
<1>13. Fresh'
  <2> SUFFICES ASSUME NEW m \in Messages
               PROVE  /\ msg'[m].attempts = 0 => msg'[m].state = "pending"
                      /\ m \notin Delayed => msg'[m].wait = "over"
    BY <1>8 DEF Fresh
  <2>1. CASE m \in batch
    <3>1. msg[m].attempts \in Nat
      BY <1>1, MessageType
    <3> QED
      BY <1>1, <1>8, <2>1, <3>1 DEF Fresh
  <2>2. CASE m \notin batch
    BY <1>1, <1>8, <2>2 DEF Fresh
  <2> QED
    BY <2>1, <2>2
<1>14. Sorted'
  <2>1. \A m \in Messages : msg'[m].queue = msg[m].queue
    BY <1>8
  <2>2. ASSUME NEW u \in Ticks, NEW a \in Queues, NEW m \in ticks'[u].list[a] PROVE msg'[m].queue = a
    <3>1. CASE u = t
      BY <1>4, <1>6, <1>7, <2>1, <2>2, <3>1 DEF Deliverable
    <3>2. CASE u # t
      <4>1. m \in ticks[u].list[a] /\ m \in Messages
        BY <1>1, <1>7, <2>2, <3>2, TickType
      <4> QED
        BY <1>1, <2>1, <4>1 DEF Sorted
    <3> QED
      BY <3>1, <3>2
  <2>3. \A u \in Ticks : ticks'[u].phase # "handler" => ticks'[u].batch = {}
    BY <1>1, <1>6, <1>7 DEF Sorted
  <2>4. ASSUME NEW u \in Ticks, NEW m \in ticks'[u].batch PROVE msg'[m].attempts > 0
    <3>1. CASE m \in batch
      <4>1. msg[m].attempts \in Nat
        BY <1>1, <1>2, <3>1, MessageType
      <4> QED
        BY <1>8, <3>1, <4>1
    <3>2. CASE m \notin batch
      <4>1. u # t /\ m \in ticks[u].batch /\ m \in Messages
        BY <1>1, <1>6, <1>7, <2>4, <3>2, TickType
      <4> QED
        BY <1>1, <1>8, <3>2, <4>1 DEF Sorted
    <3> QED
      BY <3>1, <3>2
  <2> QED
    BY <2>2, <2>3, <2>4 DEF Sorted
<1>15. ASSUME NEW m \in Messages' \ shared' PROVE Owned(m)'
  <2>1. Owned(m) /\ m \in Messages
    BY <1>1, <1>8, <1>15
  <2>2. m \in Listed(list) => /\ msg[m].state \in {"pending", "retrying"}
                              /\ \A u \in Ticks : m \in Listed(ticks[u].list) => u = t
    BY <1>15 DEF Deliverable
  <2>3. \A u \in Ticks : m \in Listed(ticks'[u].list) =>
          /\ m \notin batch /\ msg[m].state \in {"pending", "retrying"}
          /\ \A v \in Ticks : m \in Listed(ticks'[v].list) => u = v
    <3>1. m \in Listed(ticks'[t].list) => m \in Listed(list) /\ m \notin batch
      BY <1>6, <1>7, <1>11, <2>1
    <3>2. \A u \in Ticks : u # t /\ m \in Listed(ticks'[u].list) =>
            m \in Listed(ticks[u].list) /\ m \notin Listed(list)
      BY <1>7, <2>2
    <3>3. m \in batch => m \in Listed(list)
      BY <1>10
    <3> QED
      BY <2>1, <2>2, <3>1, <3>2, <3>3 DEF Owned
  <2>4. \A u \in Ticks : m \in ticks'[u].batch =>
          /\ m \in batch \/ msg[m].state = "delivered"
          /\ \A v \in Ticks : m \in ticks'[v].batch => u = v
    <3>1. m \in batch => msg[m].state \in {"pending", "retrying"}
      BY <1>10, <2>2
    <3>2. \A u \in Ticks : m \in ticks'[u].batch => IF u = t THEN m \in batch ELSE m \in ticks[u].batch
      BY <1>6, <1>7
    <3> QED
      BY <2>1, <3>1, <3>2 DEF Owned
  <2>5. CASE m \in batch
    <3>1. msg[m].state \in {"pending", "retrying"}
      BY <1>10, <2>2, <2>5
    <3>2. \A i \in DOMAIN dlq : m \notin dlq[i]
      BY <2>1, <3>1 DEF Owned
    <3> QED
      BY ZenonT(60), <1>8, <2>3, <2>4, <2>5, <3>2 DEF Owned
  <2>6. CASE m \notin batch
    <3>1. msg'[m] = msg[m]
      BY <1>8, <2>1, <2>6
    <3>2. /\ msg[m].state = "delivered" /\ m \notin late => msg[m].decision = msg[m].call
          /\ \A i \in DOMAIN dlq : m \in dlq[i] =>
               msg[m].state = "dead" /\ \A j \in DOMAIN dlq : m \in dlq[j] => i = j
      BY <2>1 DEF Owned
    <3> QED
      BY <2>3, <2>4, <2>6, <3>1, <3>2 DEF Owned
  <2> QED
    BY <2>5, <2>6
<1>16. InTurn'
  <2> SUFFICES ASSUME NEW m \in Messages, NEW k \in Messages, Ahead(m, k)'
               PROVE  /\ msg'[k].attempts > 0 => msg'[m].attempts > 0
                      /\ \A u \in Ticks : \A a \in Queues :
                           k \in ticks'[u].list[a] /\ msg'[m].attempts = 0 => m \in ticks'[u].list[a]
    BY <1>8 DEF InTurn
  <2>1. Ahead(m, k) /\ Before(m, k)
    BY <1>8 DEF Ahead, Before
  <2>2. /\ msg[m].attempts \in Nat /\ msg[k].attempts \in Nat
        /\ msg[k].attempts > 0 => msg[m].attempts > 0
        /\ \A u \in Ticks : \A a \in Queues :
             k \in ticks[u].list[a] /\ msg[m].attempts = 0 => m \in ticks[u].list[a]
        /\ \A a \in Queues : k \in list[a] /\ msg[m].attempts = 0 => m \in list[a]
    BY <1>1, <2>1, MessageType DEF InTurn, Deliverable
  <2>3. msg'[m].attempts = 0 => msg[m].attempts = 0 /\ m \notin batch
    BY <1>8, <2>2
  <2>4. msg[m].attempts > 0 => msg'[m].attempts > 0
    BY <1>8, <2>2
  <2>5. k \in batch => msg'[m].attempts > 0
    <3> SUFFICES ASSUME k \in batch, msg[m].attempts = 0 PROVE m \in batch
      BY <1>8, <2>2, <2>4
    <3>1. m \in list[q]
      BY <1>2, <2>2
    <3>2. PICK ms : ms = list[q]
      OBVIOUS
    <3>3. ms \subseteq Messages /\ k \in First(n, ms) /\ m \in ms
      BY <3>1, <3>2
    <3>4. m \in First(n, ms)
      BY <1>1, <2>1, <3>3, ChunkIsClosed
    <3> QED
      BY <3>2, <3>4
  <2>6. msg'[k].attempts > 0 => msg'[m].attempts > 0
    BY <1>8, <2>2, <2>4, <2>5
  <2>7. ASSUME NEW u \in Ticks, NEW a \in Queues, k \in ticks'[u].list[a], msg'[m].attempts = 0
        PROVE  m \in ticks'[u].list[a]
    <3>1. CASE u = t
      BY <1>4, <1>6, <1>7, <2>2, <2>3, <2>7, <3>1
    <3>2. CASE u # t
      BY <1>7, <2>2, <2>3, <2>7, <3>2
    <3> QED
      BY <3>1, <3>2
  <2> QED
    BY <2>6, <2>7
<1>17. Walked
  <2> SUFFICES ASSUME NEW m \in Messages
               PROVE  msg'[m].queue = msg[m].queue /\ (m \notin shared' => Walks(m))
    BY <1>8 DEF Walked
  <2>1. CASE m \in batch
    BY <1>8, <1>10, <2>1 DEF Deliverable, Walks
  <2>2. CASE m \notin batch
    BY <1>8, <2>2 DEF Walks
  <2> QED
    BY <2>1, <2>2
<1> QED
  BY <1>8, <1>12, <1>13, <1>14, <1>15, <1>16, <1>17 DEF IInv

\* Whichever way the loops of a tick go on.
LEMMA GoOnIInv ==
  ASSUME IInv, NEW t \in Ticks, NEW list \in [Queues -> SUBSET Messages], NEW size \in Nat,
         NEW armed \in BOOLEAN, stopped => ~armed, GoOn(t, list, size, armed),
         ticks[t].phase # "handler", Deliverable(t, list),
         UNCHANGED <<dlq, consumers, stopped, late>>, shared \subseteq shared'
  PROVE  IInv' /\ Walked
<1>1. TypeOK
  BY DEF IInv
<1>2. CASE \E more \in BOOLEAN : (stopped => ~more) /\ Ends(t, more)
  BY <1>2, EndsIInv
<1>3. CASE Ends(t, armed \/ HasPending(msg))
  <2>1. PICK more \in BOOLEAN : more = (armed \/ HasPending(msg))
    OBVIOUS
  <2>2. stopped => ~more
    BY <2>1 DEF HasPending
  <2> QED
    BY <1>2, <1>3, <2>1, <2>2
<1>4. CASE \E i \in DOMAIN consumers :
       LET q == consumers[i].queue
           n == IF size = 0 THEN consumers[i].reg.size ELSE size
           batch == First(n, list[q])
           rest == list[q] \ batch
       IN /\ n > 0
          /\ msg' = Delivered(batch)
          /\ timer' = armed
          /\ ticks' = [ticks EXCEPT ![t] =
               [phase |-> "handler", list |-> [list EXCEPT ![q] = rest],
                size |-> IF rest = {} THEN 0 ELSE n,
                batch |-> batch, reg |-> consumers[i].reg]]
  <2>1. PICK i \in DOMAIN consumers :
       LET q == consumers[i].queue
           n == IF size = 0 THEN consumers[i].reg.size ELSE size
           batch == First(n, list[q])
           rest == list[q] \ batch
       IN /\ n > 0
          /\ msg' = Delivered(batch)
          /\ timer' = armed
          /\ ticks' = [ticks EXCEPT ![t] =
               [phase |-> "handler", list |-> [list EXCEPT ![q] = rest],
                size |-> IF rest = {} THEN 0 ELSE n,
                batch |-> batch, reg |-> consumers[i].reg]]
    BY <1>4
  <2>2. PICK q, reg : q = consumers[i].queue /\ reg = consumers[i].reg /\ q \in Queues /\ reg \in Options
    BY <1>1, ConsumerType
  <2>3. reg.size \in Nat
    BY <2>2, CloudflareQueueAssumption DEF CloudflareQueueAssumption
  <2>4. PICK n \in Nat : n = IF size = 0 THEN reg.size ELSE size
    BY <2>3
  <2>5. PICK batch : batch = First(n, list[q])
    OBVIOUS
  <2>6. PICK left \in Nat : left = IF list[q] \ batch = {} THEN 0 ELSE n
    OBVIOUS
  <2>7. /\ msg' = Delivered(batch) /\ timer' = armed
        /\ ticks' = [ticks EXCEPT ![t] =
             [phase |-> "handler", list |-> [list EXCEPT ![q] = list[q] \ batch],
              size |-> left, batch |-> batch, reg |-> reg]]
    BY <2>1, <2>2, <2>4, <2>5, <2>6
  <2> QED
    BY <2>2, <2>5, <2>7, DeliveryIInv
<1> QED
  BY <1>2, <1>3, <1>4 DEF GoOn

LEMMA ResumeIInv ==
  ASSUME IInv, NEW t \in Ticks, Resume(t)
  PROVE  IInv' /\ Walked
<1>1. TypeOK /\ Sorted /\ InTurn /\ (\A m \in Messages \ shared : Owned(m))
  BY DEF IInv
<1>2. PICK list, size : /\ list = ticks[t].list /\ size = ticks[t].size
                        /\ list \in [Queues -> SUBSET Messages] /\ size \in Nat
  BY <1>1, TickType
<1>3. /\ ticks[t].phase # "handler" /\ GoOn(t, list, size, timer)
      /\ UNCHANGED <<dlq, consumers, stopped, late>> /\ shared \subseteq shared'
      /\ shared' = shared
  BY <1>2 DEF Resume
<1>4. timer \in BOOLEAN /\ (stopped => ~timer)
  BY <1>1 DEF TypeOK
<1>5. Deliverable(t, list)
  <2>1. \A q \in Queues : \A m \in list[q] : msg[m].queue = q
    BY <1>1, <1>2 DEF Sorted
  <2>2. \A m \in Listed(list) : m \in Messages
    BY <1>2 DEF Listed
  <2>3. \A m \in Listed(list) \ shared' :
          /\ msg[m].state \in {"pending", "retrying"}
          /\ \A u \in Ticks : m \in Listed(ticks[u].list) => u = t
    BY <1>1, <1>2, <1>3, <2>2 DEF Owned
  <2>4. \A m, n \in Messages : Ahead(m, n) =>
          \A q \in Queues : n \in list[q] /\ msg[m].attempts = 0 => m \in list[q]
    BY <1>1, <1>2 DEF InTurn
  <2> QED
    BY <2>1, <2>3, <2>4 DEF Deliverable
<1> QED
  BY <1>2, <1>3, <1>4, <1>5, GoOnIInv

LEMMA TimerFiresIInv ==
  ASSUME IInv, TimerFires
  PROVE  IInv' /\ Walked
<1>1. TypeOK /\ Fresh /\ Sorted /\ InTurn /\ (\A m \in Messages \ shared : Owned(m))
  BY DEF IInv
<1>2. PICK list : list = [q \in Queues |-> IF Has(q) THEN PendingForQueue(q) ELSE {}]
  OBVIOUS
<1>3. PICK t \in Ticks :
        /\ ticks[t].phase = "idle"
        /\ GoOn(t, list, 0, FALSE)
        /\ shared' = shared \cup {m \in Listed(list) : \E u \in Ticks : m \in Listed(ticks[u].list)}
  BY <1>2 DEF TimerFires
<1>4. UNCHANGED <<dlq, consumers, stopped, late>>
  BY DEF TimerFires
<1>5. /\ list \in [Queues -> SUBSET Messages]
      /\ \A q \in Queues : \A m \in list[q] : Has(q) /\ m \in Messages /\ msg[m].queue = q /\ IsPending(m)
  BY <1>2 DEF PendingForQueue
<1>6. Deliverable(t, list)
  <2>1. \A q \in Queues : \A m \in list[q] : msg[m].queue = q
    BY <1>5
  <2>2. \A m \in Listed(list) \ shared' :
          /\ msg[m].state \in {"pending", "retrying"}
          /\ \A u \in Ticks : m \in Listed(ticks[u].list) => u = t
    BY <1>3, <1>5 DEF Listed, IsPending
  <2>3. ASSUME NEW m \in Messages, NEW n \in Messages, Ahead(m, n), NEW q \in Queues,
               n \in list[q], msg[m].attempts = 0
        PROVE  m \in list[q]
    <3>1. msg[m].queue = q /\ m \notin Delayed
      BY <1>5, <2>3 DEF Ahead
    <3>2. IsPending(m)
      BY <1>1, <2>3, <3>1 DEF Fresh, IsPending
    <3> QED
      BY <1>2, <1>5, <2>3, <3>1, <3>2 DEF PendingForQueue
  <2> QED
    BY <2>1, <2>2, <2>3 DEF Deliverable
<1> QED
  BY <1>3, <1>4, <1>5, <1>6, GoOnIInv

\* The messages of a batch are no longer in hand.
LEMMA HandlerSettlesIInv ==
  ASSUME IInv, NEW t \in Ticks, NEW threw \in BOOLEAN, HandlerSettles(t, threw)
  PROVE  IInv' /\ Walked
<1>1. TypeOK /\ Fresh /\ Sorted /\ InTurn /\ (\A m \in Messages \ shared : Owned(m))
  BY DEF IInv
<1>2. PICK batch, reg, dead :
        /\ batch = ticks[t].batch /\ reg = ticks[t].reg
        /\ dead = {m \in batch : After(m, threw, reg) = "dead"}
  OBVIOUS
<1>3. batch \subseteq Messages /\ dead \subseteq batch
  BY <1>1, <1>2, TickType
<1>4. /\ ticks' = [ticks EXCEPT ![t] = [ticks[t] EXCEPT !.phase = "resumes", !.batch = {}]]
      /\ msg' = [m \in Messages |->
                  IF m \in batch THEN Reconciled(m, After(m, threw, reg)) ELSE msg[m]]
      /\ dlq' = IF reg.dlq /\ dead # {} THEN Append(dlq, dead) ELSE dlq
      /\ timer' = (timer \/ HasPending(msg'))
      /\ UNCHANGED <<consumers, stopped, shared, late>>
  BY <1>2 DEF HandlerSettles
<1>5. /\ Messages' = Messages /\ msg' \in Seq(Message)
      /\ \A m \in Messages \ batch : msg'[m] = msg[m]
      /\ \A m \in batch : /\ msg'[m].state \in {"ack", "dead", "retrying"}
                          /\ msg'[m].state = After(m, threw, reg)
                          /\ msg'[m].attempts = msg[m].attempts
                          /\ msg'[m].queue = msg[m].queue /\ msg'[m].wait = msg[m].wait
  <2>1. PICK y : /\ y = msg' /\ y = [m \in Messages |->
                       IF m \in batch THEN Reconciled(m, After(m, threw, reg)) ELSE msg[m]]
    BY <1>4
  <2>2. y = [m \in Messages |-> y[m]] /\ \A m \in Messages \ batch : y[m] = msg[m]
    BY <2>1
  <2>3. ASSUME NEW m \in batch
        PROVE  /\ y[m] \in Message /\ y[m].state \in {"ack", "dead", "retrying"}
               /\ y[m].state = After(m, threw, reg) /\ y[m].attempts = msg[m].attempts
               /\ y[m].queue = msg[m].queue /\ y[m].wait = msg[m].wait
    <3>1. PICK x \in Message : x = msg[m]
      BY <1>1, <1>3, MessageType
    <3>2. PICK state \in {"ack", "dead", "retrying"} : state = After(m, threw, reg)
      BY DEF After
    <3>3. y[m] = IF state = "retrying" THEN [x EXCEPT !.state = state, !.decision = "none"]
                 ELSE [x EXCEPT !.state = state, !.decision = "none", !.call = "retry", !.older = "retry"]
      BY <1>3, <2>1, <3>1, <3>2 DEF Reconciled
    <3>4. CASE state = "retrying"
      BY ZenonT(60), <3>1, <3>2, <3>3, <3>4 DEF Message, Calls
    <3>5. CASE state # "retrying"
      <4>1. y[m] = [x EXCEPT !.state = state, !.decision = "none", !.call = "retry", !.older = "retry"]
        BY <3>3, <3>5
      <4>2. y[m] = [queue |-> x.queue, state |-> state, wait |-> x.wait, attempts |-> x.attempts,
                    decision |-> "none", call |-> "retry", older |-> "retry"]
        BY <3>1, <4>1 DEF Message
      <4>3. /\ x.queue \in Queues /\ x.wait \in {"clock", "timer", "over"} /\ x.attempts \in Nat
        BY <3>1 DEF Message
      <4> QED
        BY <3>1, <3>2, <4>2, <4>3 DEF Message, Calls
    <3> QED
      BY <3>4, <3>5
  <2>4. \A m \in Messages : y[m] \in Message
    BY <1>1, <2>2, <2>3, MessageType
  <2>5. y \in Seq(Message) /\ DOMAIN y = Messages
    BY <1>1, <2>2, <2>4, Changed
  <2> QED
    BY <2>1, <2>2, <2>3, <2>5 DEF Messages
<1>6. /\ ticks' \in [Ticks -> Tick] /\ ticks'[t].batch = {} /\ ticks'[t].phase = "resumes"
      /\ ticks'[t].list = ticks[t].list
      /\ \A u \in Ticks : u # t => ticks'[u] = ticks[u]
  <2>1. PICK x \in Tick : x = ticks[t]
    BY <1>1, TickType
  <2>2. PICK r : r = [x EXCEPT !.phase = "resumes", !.batch = {}]
    OBVIOUS
  <2>3. r \in Tick /\ r.batch = {} /\ r.phase = "resumes" /\ r.list = x.list
    BY <2>2 DEF Tick
  <2>4. ticks' = [ticks EXCEPT ![t] = r]
    BY <1>4, <2>1, <2>2
  <2> QED
    BY <1>1, <2>1, <2>3, <2>4, TickType
<1>7. /\ dlq' \in Seq(SUBSET Messages)
      /\ \A i \in DOMAIN dlq' : \/ i \in DOMAIN dlq /\ dlq'[i] = dlq[i]
                                \/ i = Len(dlq) + 1 /\ dlq'[i] = dead
  <2>1. dlq \in Seq(SUBSET Messages)
    BY <1>1 DEF TypeOK
  <2>2. CASE reg.dlq /\ dead # {}
    <3>1. PICK D : D = SUBSET Messages /\ dlq \in Seq(D) /\ dead \in D
      BY <1>3, <2>1
    <3>2. /\ Append(dlq, dead) \in Seq(D) /\ Len(Append(dlq, dead)) = Len(dlq) + 1
          /\ Append(dlq, dead)[Len(dlq) + 1] = dead
          /\ \A i \in 1..Len(dlq) : Append(dlq, dead)[i] = dlq[i]
      BY <3>1, AppendProperties
    <3>3. /\ DOMAIN Append(dlq, dead) = 1..(Len(dlq) + 1) /\ DOMAIN dlq = 1..Len(dlq)
          /\ Len(dlq) \in Nat
      BY <3>1, <3>2, LenProperties
    <3>4. Append(dlq, dead) \in Seq(SUBSET Messages)
      BY <3>1, <3>2
    <3>5. \A i \in 1..(Len(dlq) + 1) : i \in 1..Len(dlq) \/ i = Len(dlq) + 1
      BY <3>3
    <3> QED
      BY <1>4, <2>2, <3>2, <3>3, <3>4, <3>5
  <2>3. CASE ~(reg.dlq /\ dead # {})
    BY <1>4, <2>1, <2>3
  <2> QED
    BY <2>2, <2>3
<1>8. ASSUME NEW m \in Messages' \ shared' PROVE Owned(m)'
  <2>1. Owned(m) /\ m \in Messages
    BY <1>1, <1>4, <1>5, <1>8
  <2>2. \A u \in Ticks : m \in Listed(ticks'[u].list) <=> m \in Listed(ticks[u].list)
    BY <1>6
  <2>3. \A u \in Ticks : m \in ticks'[u].batch => m \in ticks[u].batch /\ u # t
    BY <1>6
  <2>4. CASE m \in batch
    <3>1. msg[m].state = "delivered" /\ \A u \in Ticks : m \in ticks[u].batch => u = t
      BY <1>2, <2>1, <2>4 DEF Owned
    <3>2. /\ \A u \in Ticks : m \notin Listed(ticks'[u].list)
          /\ \A i \in DOMAIN dlq : m \notin dlq[i]
      BY <2>1, <2>2, <3>1 DEF Owned
    <3>3. \A u \in Ticks : m \notin ticks'[u].batch
      BY <2>3, <3>1
    <3>4. \A i \in DOMAIN dlq' : m \in dlq'[i] => i = Len(dlq) + 1 /\ m \in dead
      BY <1>7, <3>2
    <3>5. m \in dead => msg'[m].state = "dead"
      BY <1>2, <1>5
    <3>6. msg'[m].state # "delivered"
      BY <1>5, <2>4
    <3> QED
      BY <3>2, <3>3, <3>4, <3>5, <3>6 DEF Owned
  <2>5. CASE m \notin batch
    <3>1. msg'[m] = msg[m]
      BY <1>5, <2>1, <2>5
    <3>2. \A i \in DOMAIN dlq' : m \in dlq'[i] => i \in DOMAIN dlq /\ m \in dlq[i]
      BY <1>3, <1>7, <2>5
    <3> QED
      BY <1>4, <2>1, <2>2, <2>3, <3>1, <3>2 DEF Owned
  <2> QED
    BY <2>4, <2>5
<1>9. TypeOK'
  <2>1. timer' \in BOOLEAN /\ (stopped' => ~timer')
    <3>1. HasPending(msg') \in BOOLEAN /\ (HasPending(msg') => ~stopped)
      BY DEF HasPending
    <3>2. timer \in BOOLEAN /\ (stopped => ~timer)
      BY <1>1 DEF TypeOK
    <3> QED
      BY <1>4, <3>1, <3>2
  <2>2. /\ consumers' \in Seq([queue : Queues, reg : Options])
        /\ \A i, j \in DOMAIN consumers' : consumers'[i].queue = consumers'[j].queue => i = j
        /\ stopped' => consumers' = <<>>
    BY <1>1, <1>4 DEF TypeOK
  <2>3. ASSUME NEW m \in Messages, msg'[m].state = "delivered" PROVE \E u \in Ticks : m \in ticks'[u].batch
    <3>1. m \notin batch /\ msg[m].state = "delivered"
      BY <1>5, <2>3
    <3>2. PICK u \in Ticks : m \in ticks[u].batch
      BY <1>1, <3>1 DEF TypeOK
    <3> QED
      BY <1>2, <1>6, <3>1, <3>2
  <2>4. ASSUME NEW m \in Messages, msg'[m].state = "pending" PROVE msg'[m].attempts = 0
    <3>1. m \notin batch /\ msg'[m] = msg[m]
      BY <1>5, <2>4
    <3> QED
      BY <1>1, <2>4, <3>1 DEF TypeOK
  <2>5. ASSUME NEW m \in Messages PROVE m \in shared' \/ \A i, j \in DOMAIN dlq' :
                                          m \in dlq'[i] /\ m \in dlq'[j] => i = j
    BY <1>5, <1>8 DEF Owned
  <2>6. ticks' \in [Ticks -> Tick']
    BY <1>5, <1>6 DEF Tick
  <2>7. dlq' \in Seq(SUBSET Messages')
    BY <1>5, <1>7
  <2> QED
    BY <1>5, <2>1, <2>2, <2>3, <2>4, <2>5, <2>6, <2>7 DEF TypeOK
<1>10. Fresh'
  <2> SUFFICES ASSUME NEW m \in Messages
               PROVE  /\ msg'[m].attempts = 0 => msg'[m].state = "pending"
                      /\ m \notin Delayed => msg'[m].wait = "over"
    BY <1>5 DEF Fresh
  <2>1. CASE m \in batch
    <3>1. msg[m].attempts > 0
      BY <1>1, <1>2, <2>1 DEF Sorted
    <3> QED
      BY <1>1, <1>5, <2>1, <3>1 DEF Fresh
  <2>2. CASE m \notin batch
    BY <1>1, <1>5, <2>2 DEF Fresh
  <2> QED
    BY <2>1, <2>2
<1>11. Sorted'
  <2>1. \A m \in Messages : msg'[m].queue = msg[m].queue /\ msg'[m].attempts = msg[m].attempts
    BY <1>5
  <2>2. \A u \in Ticks : /\ ticks'[u].list = ticks[u].list
                         /\ \A q \in Queues : ticks[u].list[q] \subseteq Messages
                         /\ ticks'[u].batch \subseteq ticks[u].batch /\ ticks[u].batch \subseteq Messages
    BY <1>1, <1>6, TickType
  <2>3. \A u \in Ticks : ticks'[u].phase # "handler" => ticks'[u].batch = {}
    BY <1>1, <1>6 DEF Sorted
  <2> QED
    BY <1>1, <2>1, <2>2, <2>3 DEF Sorted
<1>12. InTurn'
  <2>1. \A m \in Messages : msg'[m].queue = msg[m].queue /\ msg'[m].attempts = msg[m].attempts
    BY <1>5
  <2>2. \A m, n \in Messages : Ahead(m, n)' <=> Ahead(m, n)
    BY <2>1 DEF Ahead, Before
  <2>3. \A u \in Ticks : ticks'[u].list = ticks[u].list
    BY <1>6
  <2> QED
    BY <1>1, <1>5, <2>1, <2>2, <2>3 DEF InTurn
<1>13. Walked
  <2> SUFFICES ASSUME NEW m \in Messages
               PROVE  msg'[m].queue = msg[m].queue /\ (m \notin shared' => Walks(m))
    BY <1>5 DEF Walked
  <2>1. CASE m \in batch
    <3>1. m \notin shared' => msg[m].state = "delivered"
      BY <1>1, <1>2, <1>4, <2>1 DEF Owned
    <3> QED
      BY <1>5, <2>1, <3>1 DEF Walks
  <2>2. CASE m \notin batch
    BY <1>5, <2>2 DEF Walks
  <2> QED
    BY <2>1, <2>2
<1> QED
  BY <1>5, <1>8, <1>9, <1>10, <1>11, <1>12, <1>13 DEF IInv

LEMMA UnchangedIInv ==
  ASSUME IInv, UNCHANGED vars
  PROVE  IInv' /\ Walked
<1>1. TypeOK /\ Fresh /\ Sorted /\ InTurn /\ (\A m \in Messages \ shared : Owned(m))
  BY DEF IInv
<1>2. UNCHANGED <<msg, dlq, consumers, timer, ticks, stopped, shared, late>> /\ Messages' = Messages
  BY DEF vars, Messages
<1>3. TypeOK'
  BY <1>1, <1>2 DEF TypeOK, Tick
<1>4. Fresh' /\ Sorted' /\ InTurn'
  BY <1>1, <1>2 DEF Fresh, Sorted, InTurn, Ahead, Before
<1>5. \A m \in Messages \ shared : Owned(m)'
  BY <1>1, <1>2 DEF Owned
<1> QED
  BY <1>2, <1>3, <1>4, <1>5 DEF IInv, Walked, Walks

LEMMA NextIInv ==
  ASSUME IInv, [Next]_vars
  PROVE  IInv' /\ Walked
<1>1. CASE \E q \in Queues, o \in Options : RegisterConsumer(q, o)
  BY <1>1, RegisterConsumerIInv
<1>2. CASE \E q \in Queues : Send(q)
  BY <1>2, SendIInv
<1>3. CASE \E m \in Messages : Clock(m) \/ DelayEnds(m) \/ Ack(m) \/ Retry(m) \/ LateCall(m)
  BY <1>3, MarksIInv
<1>4. CASE TimerFires
  BY <1>4, TimerFiresIInv
<1>5. CASE TickMoves
  BY <1>5, ResumeIInv, HandlerSettlesIInv DEF TickMoves
<1>6. CASE Stop
  BY <1>6, StopIInv
<1>7. CASE UNCHANGED vars
  BY <1>7, UnchangedIInv
<1> QED
  BY <1>1, <1>2, <1>3, <1>4, <1>5, <1>6, <1>7 DEF Next

LEMMA InitIInv ==
  ASSUME Init
  PROVE  IInv
<1>1. /\ msg = <<>> /\ dlq = <<>> /\ consumers = <<>> /\ timer = FALSE
      /\ ticks = [t \in Ticks |-> Idle] /\ stopped = FALSE /\ shared = {} /\ late = {}
  BY DEF Init
<1>2. Messages = {} /\ DOMAIN dlq = {} /\ DOMAIN consumers = {}
  BY <1>1 DEF Messages
<1>3. \A x : <<>> \in Seq(x)
  OBVIOUS
<1>4. ticks \in [Ticks -> Tick]
  BY <1>1, IdleType
<1>5. \A t \in Ticks : /\ ticks[t].batch = {} /\ \A q \in Queues : ticks[t].list[q] = {}
  BY <1>1, IdleType
<1>6. TypeOK
  BY <1>1, <1>2, <1>3, <1>4 DEF TypeOK
<1> QED
  BY <1>2, <1>5, <1>6 DEF IInv, Fresh, Sorted, InTurn

-----------------------------------------------------------------------------
\* The inductive invariant: types, lists and batches that keep to their queues,
\* one place for each message that two ticks did not have on their lists at
\* once, and first deliveries in turn.
THEOREM SpecIInv == Spec => []IInv
<1>1. Init => IInv
  BY InitIInv
<1>2. IInv /\ [Next]_vars => IInv'
  BY NextIInv
<1> QED
  BY <1>1, <1>2, PTL DEF Spec

\* Types of every variable: who is in a consumer's hands is in a batch, and a
\* dead letter is copied once.
THEOREM SpecTypeOK == Spec => []TypeOK
<1>1. IInv => TypeOK
  BY DEF IInv
<1> QED
  BY <1>1, SpecIInv, PTL

\* What a handler that returns has decided on its messages is what becomes of
\* them.
LEMMA Judged ==
  ASSUME IInv, NEW t \in Ticks
  PROVE  Decided(t)
<1> SUFFICES ASSUME HandlerSettles(t, FALSE), NEW m \in ticks[t].batch \ (shared' \cup late)
             PROVE  msg'[m].state = "ack" <=> msg[m].call = "ack"
  BY DEF Decided
<1>1. TypeOK /\ m \in Messages
  BY TickType DEF IInv
<1>2. PICK reg, state : reg = ticks[t].reg /\ state = After(m, FALSE, reg)
  OBVIOUS
<1>3. shared' = shared /\ msg'[m] = Reconciled(m, state)
  BY <1>1, <1>2 DEF HandlerSettles
<1>4. PICK x \in Message : x = msg[m]
  BY <1>1, MessageType
<1>5. Reconciled(m, state).state = state
  BY <1>4 DEF Reconciled, Message
<1>6. msg[m].state = "delivered" /\ msg[m].decision = msg[m].call
  BY <1>1, <1>3 DEF IInv, Owned
<1> QED
  BY <1>2, <1>3, <1>5, <1>6 DEF After

\* Only a message that two ticks had on their lists at once leaves the walk
\* pending -> delivered -> ack | retrying -> dead; the outcome of any other is
\* the one its handler chose, but for late calls; and first deliveries are in
\* the order of the ids, with any number of ticks that overlap.
THEOREM SpecWalksAsDecided == Spec => WalksAsDecided
<1>1. ASSUME IInv, [Next]_vars
      PROVE  /\ \A m \in Messages \ shared' : Walks(m)
             /\ \A t \in Ticks : Decided(t)
             /\ \A m, n \in Messages : InOrder(m, n)
  <2>1. IInv' /\ Walked
    BY <1>1, NextIInv
  <2>2. \A m \in Messages \ shared' : Walks(m)
    BY <2>1 DEF Walked
  <2>3. \A t \in Ticks : Decided(t)
    BY <1>1, Judged
  <2>4. ASSUME NEW m \in Messages, NEW n \in Messages PROVE InOrder(m, n)
    <3>1. /\ m \in Messages' /\ n \in Messages'
          /\ msg'[m].queue = msg[m].queue /\ msg'[n].queue = msg[n].queue
      BY <2>1 DEF Walked
    <3>2. Ahead(m, n)' => (msg'[n].attempts > 0 => msg'[m].attempts > 0)
      BY <2>1, <3>1 DEF IInv, InTurn
    <3> QED
      BY <3>1, <3>2 DEF InOrder, Ahead
  <2> QED
    BY <2>2, <2>3, <2>4
<1>2. IInv /\ [Next]_vars =>
        [/\ \A m \in Messages \ shared' : Walks(m)
         /\ \A t \in Ticks : Decided(t)
         /\ \A m, n \in Messages : InOrder(m, n)]_vars
  BY <1>1
<1> QED
  BY <1>2, SpecIInv, PTL DEF Spec, WalksAsDecided

-----------------------------------------------------------------------------
\* Chunks.

LEMMA BeforeIsTotal ==
  ASSUME NEW m \in Nat, NEW n \in Nat
  PROVE  ~Before(m, m) /\ (m # n => Before(m, n) \/ Before(n, m))
BY CloudflareQueueAssumption DEF CloudflareQueueAssumption, Before

\* How many of ms come before each of them: 0, 1, 2 and so on, each once.
LEMMA Ranks ==
  ASSUME TypeOK, NEW ms, ms \subseteq Messages, NEW rank,
         rank = [m \in ms |-> Cardinality({k \in ms : Before(k, m)})]
  PROVE  /\ IsFiniteSet(ms) /\ Cardinality(ms) \in Nat
         /\ rank \in Bijection(ms, 0..(Cardinality(ms) - 1))
<1>1. IsFiniteSet(ms) /\ Cardinality(ms) \in Nat
  <2>1. IsFiniteSet(Messages)
    BY MessageType, FS_Interval
  <2>2. IsFiniteSet(ms)
    BY <2>1, FS_Subset
  <2> QED
    BY <2>2, FS_CardinalityType
<1>2. PICK size \in Nat : size = Cardinality(ms)
  BY <1>1
<1>3. \A m \in ms : m \in Nat
  BY MessageType
<1>4. ASSUME NEW m \in ms, NEW S, S = {k \in ms : Before(k, m)}
      PROVE  /\ IsFiniteSet(S) /\ Cardinality(S) \in Nat /\ Cardinality(S) <= size - 1
             /\ m \notin S /\ rank[m] = Cardinality(S)
  <2>1. m \notin S
    BY <1>3, <1>4, BeforeIsTotal
  <2>2. S \in SUBSET (ms \ {m})
    BY <1>4, <2>1
  <2>3. IsFiniteSet(ms \ {m}) /\ Cardinality(ms \ {m}) = size - 1
    BY <1>1, <1>2, <1>4, FS_RemoveElement
  <2>4. IsFiniteSet(S) /\ Cardinality(S) <= size - 1
    BY <2>2, <2>3, FS_Subset
  <2> QED
    BY <1>4, <2>1, <2>4, FS_CardinalityType
<1>5. ASSUME NEW m \in ms, NEW n \in ms, Before(m, n) PROVE rank[m] # rank[n]
  <2>1. PICK S, T : S = {k \in ms : Before(k, m)} /\ T = {k \in ms : Before(k, n)}
    OBVIOUS
  <2>2. /\ IsFiniteSet(S) /\ m \notin S /\ rank[m] = Cardinality(S) /\ Cardinality(S) \in Nat
        /\ IsFiniteSet(T) /\ rank[n] = Cardinality(T) /\ Cardinality(T) \in Nat
    BY <1>4, <2>1
  <2>3. ASSUME NEW k \in S \cup {m} PROVE k \in T
    BY <1>3, <1>5, <2>1, <2>3, BeforeIsTransitive
  <2>4. Cardinality(S \cup {m}) = Cardinality(S) + 1
    BY <2>2, FS_AddElement
  <2>5. Cardinality(S \cup {m}) <= Cardinality(T)
    BY <2>2, <2>3, FS_Subset
  <2> QED
    BY <2>2, <2>4, <2>5
<1>6. \A m \in ms : rank[m] \in 0..(size - 1)
  BY <1>2, <1>4
<1>7. rank \in Injection(ms, 0..(size - 1))
  <2>1. \A m, n \in ms : rank[m] = rank[n] => m = n
    BY <1>3, <1>5, BeforeIsTotal
  <2>2. rank \in [ms -> 0..(size - 1)]
    BY <1>6
  <2> QED
    BY <2>1, <2>2 DEF Injection, IsInjective
<1>8. IsFiniteSet(0..(size - 1)) /\ Cardinality(0..(size - 1)) = size
  <2>1. 0 \in Int /\ size - 1 \in Int
    BY <1>2
  <2> QED
    BY <1>2, <2>1, FS_Interval
<1>9. rank \in Surjection(ms, 0..(size - 1))
  BY <1>2, <1>7, <1>8, FS_Injection
<1> QED
  BY <1>1, <1>2, <1>7, <1>9 DEF Bijection

\* A chunk has as many messages as it may, and all that there are if they are
\* fewer.
LEMMA ChunkIsFull ==
  ASSUME TypeOK, NEW ms, ms \subseteq Messages, NEW n \in Nat
  PROVE  /\ First(n, ms) \subseteq ms
         /\ Cardinality(ms) <= n => First(n, ms) = ms
         /\ n <= Cardinality(ms) => Cardinality(First(n, ms)) = n
         /\ Cardinality(First(n, ms)) \in Nat /\ Cardinality(ms) \in Nat
<1>1. PICK rank : rank = [m \in ms |-> Cardinality({k \in ms : Before(k, m)})]
  OBVIOUS
<1>2. PICK size \in Nat : size = Cardinality(ms) /\ IsFiniteSet(ms)
  BY <1>1, Ranks
<1>3. rank \in Bijection(ms, 0..(size - 1))
  BY <1>1, <1>2, Ranks
<1>4. PICK F : F = First(n, ms) /\ F = {m \in ms : rank[m] < n}
  BY <1>1 DEF First
<1>5. /\ \A m \in ms : rank[m] \in 0..(size - 1)
      /\ \A k, m \in ms : rank[k] = rank[m] => k = m
      /\ \A i \in 0..(size - 1) : \E m \in ms : rank[m] = i
  BY <1>3 DEF Bijection, Injection, Surjection, IsInjective
<1>6. size <= n => F = ms
  BY <1>4, <1>5
<1>7. ASSUME n <= size PROVE Cardinality(F) = n
  <2>1. PICK g : g = [m \in F |-> rank[m]]
    OBVIOUS
  <2>2. \A m \in F : g[m] = rank[m] /\ g[m] \in 0..(n - 1)
    BY <1>4, <1>5, <2>1
  <2>3. g \in [F -> 0..(n - 1)]
    BY <2>1, <2>2
  <2>4. \A k, m \in F : g[k] = g[m] => k = m
    BY <1>4, <1>5, <2>2
  <2>5. ASSUME NEW i \in 0..(n - 1) PROVE \E m \in F : g[m] = i
    BY <1>4, <1>5, <1>7, <2>2
  <2>6. g \in Injection(F, 0..(n - 1)) /\ g \in Surjection(F, 0..(n - 1))
    BY <2>3, <2>4, <2>5 DEF Injection, Surjection, IsInjective
  <2>7. IsFiniteSet(0..(n - 1)) /\ Cardinality(0..(n - 1)) = n
    <3>1. 0 \in Int /\ n - 1 \in Int
      OBVIOUS
    <3> QED
      BY <3>1, FS_Interval
  <2> QED
    BY <2>6, <2>7, FS_Injection
<1>8. IsFiniteSet(F) /\ F \subseteq ms
  BY <1>2, <1>4, FS_Subset
<1>9. Cardinality(F) \in Nat
  BY <1>8, FS_CardinalityType
<1> QED
  BY <1>2, <1>4, <1>6, <1>7, <1>8, <1>9

\* Tick t calls a handler, with size n read before or 0: it gives it one message
\* at least and as many as the batch size allows, unless no more are left, all
\* of one queue.
Filled(t, n) ==
  LET given == ticks'[t].batch
      most == IF n = 0 THEN ticks'[t].reg.size ELSE n
  IN /\ given # {}
     /\ Cardinality(given) <= most
     /\ \E q \in Queues :
          /\ \A m \in given : msg'[m].queue = q
          /\ Cardinality(given) < most => ticks'[t].list[q] = {}

\* Each batch that a handler is given is full, or the rest of the queue's list.
BatchesFill ==
  [][\A t \in Ticks : ticks[t].phase # "handler" /\ ticks'[t].phase = "handler" =>
       Filled(t, ticks[t].size)]_vars

\* A tick that does not run has nothing.
Rests == \A t \in Ticks : ticks[t].phase = "idle" => ticks[t] = Idle

\* The loops of tick t give a handler of consumer i a chunk of `list`.
Gives(t, list, n, i) ==
  LET q == consumers[i].queue
      most == IF n = 0 THEN consumers[i].reg.size ELSE n
      batch == First(most, list[q])
      rest == list[q] \ batch
  IN /\ IsFirst(i, list)
     /\ most > 0
     /\ ticks' = [ticks EXCEPT ![t] =
          [phase |-> "handler", list |-> [list EXCEPT ![q] = rest],
           size |-> IF rest = {} THEN 0 ELSE most,
           batch |-> batch, reg |-> consumers[i].reg]]

LEMMA GoOnGives ==
  ASSUME NEW t \in Ticks, NEW list, NEW n, NEW armed, GoOn(t, list, n, armed)
  PROVE  \/ /\ \/ stopped \/ \A q \in Queues : list[q] = {}
               \/ n = 0 /\ \E i \in DOMAIN consumers : consumers[i].reg.size = 0
            /\ ticks' = [ticks EXCEPT ![t] = Idle]
         \/ \E i \in DOMAIN consumers : Gives(t, list, n, i)
BY DEF GoOn, Ends, Gives

LEMMA GoOnFills ==
  ASSUME TypeOK, NEW t \in Ticks, NEW list \in [Queues -> SUBSET Messages], NEW n \in Nat,
         NEW armed, GoOn(t, list, n, armed),
         \A q \in Queues : \A m \in list[q] : msg[m].queue = q,
         \A m \in Messages : msg'[m].queue = msg[m].queue
  PROVE  /\ ticks'[t].phase = "idle" => ticks'[t] = Idle
         /\ ticks'[t].phase = "handler" => Filled(t, n)
         /\ \A u \in Ticks : u # t => ticks'[u] = ticks[u]
<1>1. ticks \in [Ticks -> Tick]
  BY DEF TypeOK
<1>2. CASE ticks' = [ticks EXCEPT ![t] = Idle]
  BY <1>1, <1>2, IdleType
<1>3. ASSUME NEW i \in DOMAIN consumers, Gives(t, list, n, i)
      PROVE  /\ ticks'[t].phase = "idle" => ticks'[t] = Idle
             /\ ticks'[t].phase = "handler" => Filled(t, n)
             /\ \A u \in Ticks : u # t => ticks'[u] = ticks[u]
  <2>1. PICK q, most, batch, rest :
          /\ q = consumers[i].queue
          /\ most = IF n = 0 THEN consumers[i].reg.size ELSE n
          /\ batch = First(most, list[q])
          /\ rest = list[q] \ batch
          /\ IsFirst(i, list)
          /\ most > 0
          /\ ticks' = [ticks EXCEPT ![t] =
               [phase |-> "handler", list |-> [list EXCEPT ![q] = rest],
                size |-> IF rest = {} THEN 0 ELSE most,
                batch |-> batch, reg |-> consumers[i].reg]]
    BY <1>3 DEF Gives
  <2>2. /\ q \in Queues /\ consumers[i].reg \in Options /\ list[q] # {}
        /\ list[q] \subseteq Messages
    BY <2>1, ConsumerType DEF IsFirst
  <2>3. most \in Nat
    BY <2>1, <2>2, CloudflareQueueAssumption DEF CloudflareQueueAssumption
  <2>4. PICK ms : ms = list[q]
    OBVIOUS
  <2>5. /\ batch \subseteq ms /\ Cardinality(batch) \in Nat /\ Cardinality(ms) \in Nat
        /\ Cardinality(ms) <= most => batch = ms
        /\ most <= Cardinality(ms) => Cardinality(batch) = most
    BY <2>1, <2>2, <2>3, <2>4, ChunkIsFull
  <2>6. PICK r : /\ r = ticks'[t]
                 /\ r.phase = "handler" /\ r.batch = batch /\ r.reg = consumers[i].reg
                 /\ r.list[q] = rest
    BY <1>1, <2>1, <2>2
  <2>7. batch # {} /\ Cardinality(batch) <= most
    <3>1. CASE most <= Cardinality(ms)
      <4>1. Cardinality(batch) = most
        BY <2>5, <3>1
      <4>2. Cardinality({}) = 0
        BY FS_EmptySet
      <4>3. most # 0 /\ Cardinality(batch) <= most
        BY <2>1, <2>3, <4>1
      <4> QED
        BY <4>1, <4>2, <4>3
    <3>2. CASE Cardinality(ms) < most
      BY <2>2, <2>3, <2>4, <2>5, <3>2
    <3> QED
      BY <2>3, <2>5, <3>1, <3>2
  <2>8. Cardinality(batch) < most => rest = {}
    BY <2>1, <2>3, <2>4, <2>5
  <2>9. \A m \in batch : msg'[m].queue = q
    BY <2>2, <2>4, <2>5
  <2>10. Filled(t, n)
    BY <2>1, <2>2, <2>6, <2>7, <2>8, <2>9 DEF Filled
  <2> QED
    BY <1>1, <2>1, <2>6, <2>10
<1> QED
  BY <1>2, <1>3, GoOnGives

\* What a step does to the ticks, besides.
LEMMA NextFills ==
  ASSUME IInv, Rests, [Next]_vars, NEW t \in Ticks
  PROVE  /\ ticks'[t].phase = "idle" => ticks'[t] = Idle
         /\ ticks[t].phase # "handler" /\ ticks'[t].phase = "handler" => Filled(t, ticks[t].size)
<1>1. TypeOK /\ Sorted /\ ticks \in [Ticks -> Tick]
  BY DEF IInv, TypeOK
<1>2. \A m \in Messages : msg'[m].queue = msg[m].queue
  BY NextIInv DEF Walked
<1>3. CASE TimerFires
  <2>1. PICK u, list :
          /\ u \in Ticks
          /\ list = [q \in Queues |-> IF Has(q) THEN PendingForQueue(q) ELSE {}]
          /\ ticks[u].phase = "idle"
          /\ GoOn(u, list, 0, FALSE)
    BY <1>3 DEF TimerFires
  <2>2. /\ list \in [Queues -> SUBSET Messages]
        /\ \A q \in Queues : \A m \in list[q] : msg[m].queue = q
    BY <2>1 DEF PendingForQueue
  <2>3. ticks[u].size = 0
    <3>1. Idle.size = 0
      BY DEF Idle
    <3> QED
      BY <2>1, <3>1 DEF Rests
  <2>4. /\ ticks'[u].phase = "idle" => ticks'[u] = Idle
        /\ ticks'[u].phase = "handler" => Filled(u, 0)
        /\ t # u => ticks'[t] = ticks[t]
    BY <1>1, <1>2, <2>1, <2>2, GoOnFills
  <2> QED
    BY <2>3, <2>4 DEF Rests
<1>4. ASSUME NEW u \in Ticks, Resume(u) PROVE
        /\ ticks'[t].phase = "idle" => ticks'[t] = Idle
        /\ ticks[t].phase # "handler" /\ ticks'[t].phase = "handler" => Filled(t, ticks[t].size)
  <2>1. PICK list, n : list = ticks[u].list /\ n = ticks[u].size
    OBVIOUS
  <2>2. GoOn(u, list, n, timer)
    BY <1>4, <2>1 DEF Resume
  <2>3. /\ list \in [Queues -> SUBSET Messages] /\ n \in Nat
        /\ \A q \in Queues : \A m \in list[q] : msg[m].queue = q
    BY <1>1, <2>1, TickType DEF Sorted
  <2>4. /\ ticks'[u].phase = "idle" => ticks'[u] = Idle
        /\ ticks'[u].phase = "handler" => Filled(u, n)
        /\ t # u => ticks'[t] = ticks[t]
    BY <1>1, <1>2, <2>2, <2>3, GoOnFills
  <2> QED
    BY <2>1, <2>4 DEF Rests
<1>5. ASSUME NEW u \in Ticks, NEW threw \in BOOLEAN, HandlerSettles(u, threw) PROVE
        /\ ticks'[t].phase = "idle" => ticks'[t] = Idle
        /\ ticks[t].phase # "handler" /\ ticks'[t].phase = "handler" => Filled(t, ticks[t].size)
  <2>1. PICK x \in Tick : x = ticks[u]
    BY <1>1
  <2>2. PICK r : r = [x EXCEPT !.phase = "resumes", !.batch = {}]
    OBVIOUS
  <2>3. ticks' = [ticks EXCEPT ![u] = r]
    BY <1>5, <2>1, <2>2 DEF HandlerSettles
  <2>4. r.phase = "resumes"
    BY <2>2 DEF Tick
  <2> QED
    BY <1>1, <2>3, <2>4 DEF Rests
<1>6. CASE UNCHANGED ticks
  BY <1>6 DEF Rests
<1> QED
  BY <1>3, <1>4, <1>5, <1>6
  DEF Next, TickMoves, RegisterConsumer, Send, Clock, DelayEnds, Ack, Retry, LateCall, Stop, vars

LEMMA InitRests ==
  ASSUME Init
  PROVE  Rests
BY DEF Init, Rests

\* A handler is never called for nothing nor with more than the batch size, and
\* with less only at the end of what the tick has listed for the queue.
THEOREM SpecBatchesFill == Spec => BatchesFill
<1>1. Init => Rests
  BY InitRests
<1>2. IInv /\ Rests /\ [Next]_vars => Rests'
  BY NextFills DEF Rests, Ticks
<1>3. IInv /\ Rests /\ [Next]_vars =>
        [\A t \in Ticks : ticks[t].phase # "handler" /\ ticks'[t].phase = "handler" =>
           Filled(t, ticks[t].size)]_vars
  BY NextFills
<1> QED
  BY <1>1, <1>2, <1>3, SpecIInv, PTL DEF Spec, BatchesFill

-----------------------------------------------------------------------------
\* Ticks that do not overlap.

OneTick == \A t, u \in Ticks : ticks[t].phase # "idle" /\ ticks[u].phase # "idle" => t = u

NothingShared == shared = {}

LEMMA NothingGetsShared ==
  ASSUME IInv, Rests, OneTick', NothingShared, [Next]_vars, \A o \in Options : o.size > 0
  PROVE  NothingShared'
<1>1. TypeOK /\ ticks \in [Ticks -> Tick]
  BY DEF IInv, TypeOK
<1>2. CASE TimerFires
  <2>1. PICK t, list :
          /\ t \in Ticks
          /\ list = [q \in Queues |-> IF Has(q) THEN PendingForQueue(q) ELSE {}]
          /\ ticks[t].phase = "idle"
          /\ GoOn(t, list, 0, FALSE)
          /\ shared' = shared \cup
               {m \in Listed(list) : \E u \in Ticks : m \in Listed(ticks[u].list)}
    BY <1>2 DEF TimerFires
  <2>2. CASE \A q \in Queues : list[q] = {}
    BY <2>1, <2>2 DEF Listed, NothingShared
  <2>3. CASE ~ \A q \in Queues : list[q] = {}
    <3>1. ~stopped
      BY <1>1, <2>1, <2>3 DEF Has, TypeOK
    <3>2. \A i \in DOMAIN consumers : consumers[i].reg.size # 0
      BY <1>1, ConsumerType, CloudflareQueueAssumption DEF CloudflareQueueAssumption
    <3>3. PICK i \in DOMAIN consumers : Gives(t, list, 0, i)
      BY <2>1, <2>3, <3>1, <3>2, GoOnGives
    <3>4. /\ ticks'[t].phase = "handler"
          /\ \A u \in Ticks : u # t => ticks'[u] = ticks[u]
      <4>1. t \in Ticks
        BY <2>1
      <4> QED
        BY <1>1, <3>3, <4>1 DEF Gives
    <3>5. \A u \in Ticks : ticks[u].phase = "idle"
      BY <2>1, <3>4 DEF OneTick, Ticks
    <3>6. \A u \in Ticks : Listed(ticks[u].list) = {}
      BY <3>5, IdleType DEF Rests
    <3> QED
      BY <2>1, <3>6 DEF NothingShared
  <2> QED
    BY <2>2, <2>3
<1>3. CASE UNCHANGED shared
  BY <1>3 DEF NothingShared
<1> QED
  BY <1>2, <1>3
  DEF Next, TickMoves, Resume, HandlerSettles, RegisterConsumer, Send, Clock, DelayEnds, Ack,
      Retry, LateCall, Stop, vars

\* What goes wrong with a message goes wrong by ticks that overlap: while only
\* one runs at a time, and no consumer has a batch size of 0, every message is
\* in one place, keeps to the documented walk, and is copied to the dead
\* letters once.
THEOREM OneTickWalks ==
  ASSUME \A o \in Options : o.size > 0
  PROVE  Spec /\ []OneTick =>
           /\ [](\A m \in Messages : Owned(m))
           /\ [][\A m \in Messages : Walks(m)]_vars
<1>1. Init => Rests /\ NothingShared
  BY InitRests DEF Init, NothingShared
<1>2. IInv /\ Rests /\ [Next]_vars => Rests'
  BY NextFills DEF Rests, Ticks
<1>3. IInv /\ Rests /\ OneTick' /\ NothingShared /\ [Next]_vars => NothingShared'
  BY NothingGetsShared
<1>4. IInv /\ NothingShared => \A m \in Messages : Owned(m)
  BY DEF IInv, NothingShared
<1>5. IInv /\ NothingShared' /\ [Next]_vars => [\A m \in Messages : Walks(m)]_vars
  BY NextIInv DEF Walked, NothingShared
<1> QED
  BY <1>1, <1>2, <1>3, <1>4, <1>5, SpecIInv, PTL DEF Spec

-----------------------------------------------------------------------------
\* Ticks that do not overlap deliver as queues with acknowledgements do.

LEMMA Places ==
  ASSUME TypeOK, NEW m \in Messages
  PROVE  /\ msg[m].state = "delivered" => Place(m) = "held"
         /\ msg[m].state # "delivered" /\ stopped => Place(m) = "gone"
         /\ msg[m].state = "ack" => Place(m) = "gone"
         /\ msg[m].state = "dead" /\ ~stopped => Place(m) = "dead"
         /\ msg[m].state \in {"pending", "retrying"} /\ ~stopped => Place(m) = "waits"
<1>1. PICK state : state = msg[m].state
  OBVIOUS
<1>2. state \in {"pending", "delivered", "ack", "retrying", "dead"}
  BY <1>1, MessageType
<1>3. CASE stopped
  BY <1>1, <1>2, <1>3 DEF Place
<1>4. CASE ~stopped
  BY <1>1, <1>2, <1>4 DEF Place
<1> QED
  BY <1>3, <1>4

\* What a step may do with a message.
Advances(m) ==
  /\ m \in Messages' /\ msg'[m].queue = msg[m].queue
  /\ \/ /\ stopped => stopped'
        /\ msg'[m].state = msg[m].state /\ msg'[m].attempts = msg[m].attempts
     \/ /\ ~stopped /\ ~stopped'
        /\ msg[m].state \in {"pending", "retrying"} /\ msg'[m].state = "delivered"
        /\ msg'[m].attempts = msg[m].attempts + 1
     \/ /\ msg[m].state = "delivered" /\ msg'[m].state \in {"ack", "retrying", "dead"}
        /\ msg'[m].attempts = msg[m].attempts

LEMMA AdvancesBecomes ==
  ASSUME TypeOK, NEW m \in Messages, Advances(m)
  PROVE  Deliveries!Becomes(Letters[m], Letters'[m])
<1>1. /\ Letters[m] = [queue |-> msg[m].queue, place |-> Place(m), given |-> msg[m].attempts]
      /\ Letters'[m] = [queue |-> msg'[m].queue, place |-> Place(m)', given |-> msg'[m].attempts]
  BY DEF Letters, Advances
<1>2. PICK a, b : a = Place(m) /\ b = Place(m)'
  OBVIOUS
<1>3. PICK s, z : s = msg[m].state /\ z = msg'[m].state
  OBVIOUS
<1>4. /\ Letters[m].queue = msg[m].queue /\ Letters[m].place = a /\ Letters[m].given = msg[m].attempts
      /\ Letters'[m].queue = msg[m].queue /\ Letters'[m].place = b /\ Letters'[m].given = msg'[m].attempts
  BY <1>1, <1>2 DEF Advances
<1>5. s \in {"pending", "delivered", "ack", "retrying", "dead"}
  BY <1>3, MessageType
<1>6. /\ s = "delivered" => a = "held"
      /\ s # "delivered" /\ stopped => a = "gone"
      /\ s = "ack" => a = "gone"
      /\ s = "dead" /\ ~stopped => a = "dead"
      /\ s \in {"pending", "retrying"} /\ ~stopped => a = "waits"
  BY <1>2, <1>3, Places
<1>7. z \in {"pending", "delivered", "ack", "retrying", "dead"}
  BY <1>3, <1>5 DEF Advances
<1>8. /\ z = "delivered" => b = "held"
      /\ z # "delivered" /\ stopped' => b = "gone"
      /\ z = "ack" => b = "gone"
      /\ z = "dead" /\ ~stopped' => b = "dead"
      /\ z \in {"pending", "retrying"} /\ ~stopped' => b = "waits"
  <2>1. CASE stopped'
    BY <1>2, <1>3, <1>7, <2>1 DEF Place
  <2>2. CASE ~stopped'
    BY <1>2, <1>3, <1>7, <2>2 DEF Place
  <2> QED
    BY <2>1, <2>2
<1>9. CASE (stopped => stopped') /\ z = s /\ msg'[m].attempts = msg[m].attempts
  BY <1>4, <1>5, <1>6, <1>8, <1>9
  DEF Deliveries!Becomes, Deliveries!Stays, Deliveries!Lapses, Deliveries!IsDrained
<1>10. CASE /\ ~stopped /\ s \in {"pending", "retrying"} /\ z = "delivered"
            /\ msg'[m].attempts = msg[m].attempts + 1
  BY <1>4, <1>6, <1>8, <1>10 DEF Deliveries!Becomes, Deliveries!IsGiven
<1>11. CASE /\ s = "delivered" /\ z \in {"ack", "retrying", "dead"}
            /\ msg'[m].attempts = msg[m].attempts
  BY <1>4, <1>6, <1>7, <1>8, <1>11 DEF Deliveries!Becomes, Deliveries!Leaves
<1> QED
  BY <1>3, <1>9, <1>10, <1>11 DEF Advances

\* After stop() there is no consumer that a tick could call.
LEMMA StoppedDeliversNothing ==
  ASSUME TypeOK, stopped, [Next]_vars, NEW m \in Messages, msg[m].state # "delivered"
  PROVE  msg'[m].state # "delivered"
<1>1. consumers = <<>> /\ DOMAIN consumers = {}
  BY DEF TypeOK
<1>2. ASSUME NEW t \in Ticks, NEW list, NEW size, NEW armed, GoOn(t, list, size, armed)
      PROVE  UNCHANGED msg
  BY <1>1, <1>2 DEF GoOn, Ends
<1>3. CASE TimerFires
  BY <1>2, <1>3 DEF TimerFires
<1>4. ASSUME NEW t \in Ticks, Resume(t) PROVE UNCHANGED msg
  BY <1>2, <1>4 DEF Resume
<1>5. ASSUME NEW t \in Ticks, NEW threw \in BOOLEAN, HandlerSettles(t, threw)
      PROVE  msg'[m].state # "delivered"
  <2>1. PICK batch, reg : batch = ticks[t].batch /\ reg = ticks[t].reg
    OBVIOUS
  <2>2. msg'[m] = IF m \in batch THEN Reconciled(m, After(m, threw, reg)) ELSE msg[m]
    BY <1>5, <2>1 DEF HandlerSettles
  <2>3. PICK x \in Message : x = msg[m]
    BY MessageType
  <2>4. PICK state \in {"ack", "dead", "retrying"} : state = After(m, threw, reg)
    BY DEF After
  <2>5. Reconciled(m, state).state = state
    BY <2>3 DEF Reconciled, Message
  <2> QED
    BY <2>2, <2>4, <2>5
<1>6. ASSUME NEW k \in Messages, Clock(k) \/ DelayEnds(k) \/ Ack(k) \/ Retry(k) \/ LateCall(k)
      PROVE  msg'[m].state # "delivered"
  <2>1. PICK x \in Message : x = msg[k]
    BY MessageType
  <2>2. PICK r : r.state = x.state /\ msg' = [msg EXCEPT ![k] = r]
    BY <1>6, <2>1 DEF Clock, DelayEnds, Ack, Retry, LateCall, Called, Message
  <2> QED
    BY <2>1, <2>2 DEF Messages
<1>7. CASE Stop \/ UNCHANGED vars
  BY <1>7 DEF Stop, vars
<1> QED
  BY <1>3, <1>4, <1>5, <1>6, <1>7 DEF Next, TickMoves, RegisterConsumer, Send

LEMMA StopIsFinal ==
  ASSUME [Next]_vars
  PROVE  stopped' = stopped \/ (stopped' = TRUE /\ msg' = msg)
<1>1. CASE \E t \in Ticks : Resume(t) \/ \E threw \in BOOLEAN : HandlerSettles(t, threw)
  BY <1>1 DEF Resume, HandlerSettles
<1>2. CASE \E m \in Messages : Clock(m) \/ DelayEnds(m) \/ Ack(m) \/ Retry(m) \/ LateCall(m)
  BY <1>2 DEF Clock, DelayEnds, Ack, Retry, LateCall
<1> QED
  BY <1>1, <1>2 DEF Next, TickMoves, TimerFires, RegisterConsumer, Send, Stop, vars

\* A step keeps the messages there are, and sends one at most.
LEMMA NextSends ==
  ASSUME TypeOK, [Next]_vars, NEW size \in Nat, Messages = 1..size
  PROVE  \/ Messages' = 1..size
         \/ /\ Messages' = 1..(size + 1) /\ size < MaxSends /\ ~stopped'
            /\ msg'[size + 1].state = "pending" /\ msg'[size + 1].attempts = 0
<1>1. ASSUME NEW q \in Queues, Send(q)
      PROVE  /\ Messages' = 1..(size + 1) /\ size < MaxSends /\ ~stopped'
             /\ msg'[size + 1].state = "pending" /\ msg'[size + 1].attempts = 0
  <2>1. Len(msg) = size /\ msg \in Seq(Message)
    BY LenProperties DEF TypeOK, Messages
  <2>2. PICK e : e.state = "pending" /\ e.attempts = 0 /\ msg' = Append(msg, e)
    BY <1>1 DEF Send
  <2>3. ~stopped' /\ size < MaxSends
    BY <1>1, <2>1 DEF Send
  <2>4. Len(msg') = size + 1 /\ DOMAIN msg' = 1..(size + 1) /\ msg'[size + 1] = e
    BY <2>1, <2>2
  <2> QED
    BY <2>2, <2>3, <2>4 DEF Messages
<1>2. ASSUME NEW t \in Ticks, NEW list, NEW n, NEW armed, GoOn(t, list, n, armed)
      PROVE  Messages' = Messages
  BY <1>2 DEF GoOn, Ends, Delivered, Messages
<1>3. CASE TimerFires
  BY <1>2, <1>3 DEF TimerFires
<1>4. CASE TickMoves
  BY <1>2, <1>4 DEF TickMoves, Resume, HandlerSettles, Messages
<1>5. ASSUME NEW k \in Messages, Clock(k) \/ DelayEnds(k) \/ Ack(k) \/ Retry(k) \/ LateCall(k)
      PROVE  Messages' = Messages
  BY <1>5 DEF Clock, DelayEnds, Ack, Retry, LateCall, Called, Messages
<1>6. CASE Stop \/ UNCHANGED vars \/ \E q \in Queues, o \in Options : RegisterConsumer(q, o)
  BY <1>6 DEF Stop, vars, RegisterConsumer, Messages
<1> QED
  BY <1>1, <1>3, <1>4, <1>5, <1>6 DEF Next

LEMMA NextMoves ==
  ASSUME IInv, NothingShared', [Next]_vars
  PROVE  Deliveries!Moves
<1>1. TypeOK /\ Walked
  BY NextIInv DEF IInv
<1>2. PICK size \in Nat : Messages = 1..size
  BY <1>1, MessageType
<1>3. ASSUME NEW m \in Messages PROVE Deliveries!Becomes(Letters[m], Letters'[m])
  <2>1. m \in Messages' /\ msg'[m].queue = msg[m].queue /\ Walks(m)
    BY <1>1 DEF Walked, NothingShared
  <2>2. stopped => stopped'
    BY StopIsFinal
  <2>3. msg[m].state # "delivered" /\ msg'[m].state = "delivered" => ~stopped /\ ~stopped'
    BY <1>1, StopIsFinal, StoppedDeliversNothing
  <2>4. Advances(m)
    BY <2>1, <2>2, <2>3 DEF Advances, Walks
  <2> QED
    BY <1>1, <2>4, AdvancesBecomes
<1>4. DOMAIN Letters = 1..size /\ Len(Letters) = size
  BY <1>2 DEF Letters
<1>5. CASE Messages' = 1..size
  <2>1. DOMAIN Letters' = 1..size /\ Len(Letters') = size
    BY <1>2, <1>5 DEF Letters
  <2> QED
    BY <1>2, <1>3, <1>4, <2>1 DEF Deliveries!Moves
<1>6. ASSUME NEW last \in Nat, last = size + 1, Messages' = 1..last, ~stopped',
             msg'[last].state = "pending", msg'[last].attempts = 0
      PROVE  Deliveries!Moves
  <2>1. DOMAIN Letters' = 1..last /\ Len(Letters') = last
    BY <1>6 DEF Letters
  <2>2. last \in 1..last /\ last \notin 1..size /\ \A m \in 1..last : m \in 1..size \/ m = last
    BY <1>6
  <2>3. Letters'[last] = [queue |-> msg'[last].queue, place |-> Place(last)', given |-> 0]
    BY <1>6, <2>2 DEF Letters
  <2>4. Place(last)' = "waits"
    BY <1>6 DEF Place
  <2>5. Deliveries!Arrives(Letters'[last])
    BY <2>3, <2>4 DEF Deliveries!Arrives
  <2> QED
    BY <1>2, <1>3, <1>4, <1>6, <2>1, <2>2, <2>5 DEF Deliveries!Moves
<1> QED
  BY <1>1, <1>2, <1>5, <1>6, NextSends

Few == Messages \subseteq 1..MaxSends

LEMMA NextIsFew ==
  ASSUME TypeOK, Few, [Next]_vars
  PROVE  Few'
<1>1. PICK size \in Nat : Messages = 1..size
  BY MessageType
<1>2. MaxSends \in Nat
  BY CloudflareQueueAssumption DEF CloudflareQueueAssumption
<1>3. Messages' = 1..size \/ (Messages' = 1..(size + 1) /\ size < MaxSends)
  BY <1>1, NextSends
<1> QED
  BY <1>1, <1>2, <1>3 DEF Few

LEMMA InitIsEmpty ==
  ASSUME Init
  PROVE  Deliveries!Init /\ Few
<1>1. msg = <<>> /\ DOMAIN <<>> = {}
  BY DEF Init
<1>2. Letters = <<>>
  BY <1>1 DEF Letters, Messages
<1> QED
  BY <1>1, <1>2 DEF Deliveries!Init, Few, Messages

\* First deliveries are in the order of the sends, where that of the ids is and
\* nothing is delayed.
LEMMA NextIsOrdered ==
  ASSUME IInv', Few', Delayed = {}, \A m, n \in 1..MaxSends : m < n => Before(m, n)
  PROVE  Deliveries!IsOrdered
<1>1. InTurn' /\ Messages' \subseteq 1..MaxSends
  BY DEF IInv, Few
<1>2. ASSUME NEW m \in Messages', NEW n \in Messages', n < m,
             msg'[n].queue = msg'[m].queue, msg'[m].attempts > 0
      PROVE  msg'[n].attempts > 0
  <2>1. Before(n, m)
    BY <1>1, <1>2
  <2>2. Ahead(n, m)'
    BY <1>2, <2>1 DEF Ahead, Before
  <2> QED
    BY <1>1, <1>2, <2>2 DEF InTurn
<1>3. DOMAIN Letters' = Messages' /\ \A m \in Messages' :
        Letters'[m].queue = msg'[m].queue /\ Letters'[m].given = msg'[m].attempts
  BY DEF Letters
<1> QED
  BY <1>2, <1>3 DEF Deliveries!IsOrdered, Deliveries!IsFirstGiven, Deliveries!InTurn

\* One tick at a time, and no batch size of 0, and these are queues with
\* acknowledgements: whatever is acked late, delayed, registered anew or
\* stopped meanwhile, what a batch is given was waiting, is in that batch only,
\* and has the delivery counted; and nothing is given after stop().
THEOREM OneTickDelivers ==
  ASSUME \A o \in Options : o.size > 0
  PROVE  Spec /\ []OneTick => Deliveries!Unordered
<1>1. Init => Rests /\ NothingShared /\ Deliveries!Init
  BY InitRests, InitIsEmpty DEF Init, NothingShared
<1>2. IInv /\ Rests /\ [Next]_vars => Rests'
  BY NextFills DEF Rests, Ticks
<1>3. IInv /\ Rests /\ OneTick' /\ NothingShared /\ [Next]_vars => NothingShared'
  BY NothingGetsShared
<1>4. IInv /\ NothingShared' /\ [Next]_vars => [Deliveries!Moves]_Letters
  BY NextMoves
<1> QED
  BY <1>1, <1>2, <1>3, <1>4, SpecIInv, PTL DEF Spec, Deliveries!Unordered

\* And they deliver in the order of the sends, where nothing is delayed and the
\* ids compare as their numbers do, which those of one length do.
THEOREM OneTickDeliversInOrder ==
  ASSUME \A o \in Options : o.size > 0, Delayed = {},
         \A m, n \in 1..MaxSends : m < n => Before(m, n)
  PROVE  Spec /\ []OneTick => Deliveries!Spec
<1>1. Init => Few
  BY InitIsEmpty
<1>2. IInv /\ Few /\ [Next]_vars => Few'
  BY NextIsFew DEF IInv
<1>3. IInv' /\ Few' /\ [Deliveries!Moves]_Letters => [Deliveries!Next]_Letters
  BY NextIsOrdered DEF Deliveries!Next
<1> QED
  BY <1>1, <1>2, <1>3, SpecIInv, OneTickDelivers, PTL
  DEF Spec, Deliveries!Unordered, Deliveries!Spec
=============================================================================
