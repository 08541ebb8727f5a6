-------------------------- MODULE RabbitQueueProofs --------------------------
(***************************************************************************)
(* What holds of the RabbitMQ emulation for any consumers, queues, routes, *)
(* options and bounds, however dispatches nest.                            *)
(***************************************************************************)
EXTENDS RabbitQueue, SequenceTheorems, FiniteSetTheorems, TLAPS

\* Of the messages x: who holds them, what was delivered, and in which order.
Good(x) ==
  /\ x \in Seq(Message)
  /\ \A n \in DOMAIN x : x[n].by # Nobody <=> x[n].state = "unacked"
  /\ \A n \in DOMAIN x : x[n].count = 0 => x[n].state \in {"ready", "dead"}
  /\ \A m, n \in DOMAIN x :
       m < n /\ x[m].queue = x[n].queue /\ x[n].count > 0
         => x[m].count > 0 \/ x[m].state = "dead" \/ x[m].dropped

\* A step from messages x to y, in which nobody but `by` is given a message.
Evolves(x, y, by) ==
  /\ DOMAIN x \subseteq DOMAIN y
  /\ \A n \in DOMAIN x :
       /\ y[n].queue = x[n].queue
       /\ x[n].dropped => y[n].dropped
       /\ x[n].state \in Settled => y[n].state = x[n].state
       /\ x[n].state = "unacked" /\ y[n].state = "unacked"
            => y[n].by = x[n].by /\ y[n].count = x[n].count
  /\ \A n \in DOMAIN y : y[n].state = "unacked" =>
       (n \in DOMAIN x /\ x[n].state = "unacked") \/ y[n].by = by

\* The messages that stay unacked, and those that are ready when y follows x.
KeepsUnacked(x, y) ==
  \A n \in DOMAIN x : x[n].state = "unacked" => y[n].state = "unacked"

IsLive(r) == r.state = "ready" /\ ~r.dropped /\ ~r.expired

NoneGetsReady(x, y) == \A n \in DOMAIN y : IsLive(y[n]) => n \in DOMAIN x /\ IsLive(x[n])

\* The dispatches in progress: one is lowest of those on its queue.
InHand == {stack[j].msg : j \in DOMAIN stack}
FramesOn(q) == {j \in DOMAIN stack : stack[j].queue = q}

\* c would be full without the messages that are in a handler's hands.
Pledged(c) == {i \in UnackedOf(c) : received[c][i] \notin InHand}
StaysFull(c) ==
  /\ option[c].prefetch > 0
  /\ Cardinality(Pledged(c)) >= option[c].prefetch

\* Consumers, what they received and dispatches keep to their queues.
AtHome(f, x, y) ==
  /\ f.at = 1 \/ f.at \in DOMAIN x[f.queue]
  /\ f.msg # None => y[f.msg].queue = f.queue /\ f.at \in DOMAIN x[f.queue]

Homes ==
  /\ \A q \in Queues : \A i \in DOMAIN consumers[q] : option[consumers[q][i]].queue = q
  /\ \A c \in Consumers : \A i \in DOMAIN received[c] :
       msg[received[c][i]].queue = option[c].queue
  /\ \A j \in DOMAIN stack : AtHome(stack[j], consumers, msg)

\* Whoever holds a message has it in `received`.
Listed ==
  \A m \in Msgs : msg[m].state = "unacked" /\ msg[m].by \in Consumers /\ ~msg[m].dropped =>
    \E i \in DOMAIN received[msg[m].by] : received[msg[m].by][i] = m

TimerOn(q) == \E m \in timers : msg[m].queue = q

\* Without a dispatch on q, what NoLostWakeup says.  With some, the lowest
\* will go on to every consumer that has room or may get some without a timer.
Attended(q) ==
  /\ FramesOn(q) = {} =>
       \/ q \in broken
       \/ Live(q) = {}
       \/ TimerOn(q)
       \/ \A i \in DOMAIN consumers[q] : ~CanTake(consumers[q][i])
  /\ \A l \in FramesOn(q) :
       (\A j \in FramesOn(q) : l <= j) =>
         \/ TimerOn(q)
         \/ \A i \in DOMAIN consumers[q] : i < stack[l].at =>
              consumers[q][i] \in cancelled \/ StaysFull(consumers[q][i])

IInv ==
  /\ TypeOK
  /\ Good(msg)
  /\ Homes
  /\ Listed
  /\ \A q \in Queues : Attended(q)
  /\ PrefetchHonoured

-----------------------------------------------------------------------------
\* Messages.

LEMMA MessageType ==
  ASSUME NEW x \in Seq(Message), NEW n \in DOMAIN x
  PROVE  /\ n \in Nat \ {0} /\ n \in 1..Len(x) /\ Len(x) \in Nat
         /\ x[n] \in Message
         /\ x[n].queue \in Queues /\ x[n].count \in Nat
         /\ x[n].state \in {"ready", "unacked", "requeued", "acked", "nacked", "dead"}
         /\ x[n].by \in Consumers \cup {Poller, Nobody}
         /\ x[n].expired \in BOOLEAN /\ x[n].dropped \in BOOLEAN
<1>1. n \in 1..Len(x) /\ Len(x) \in Nat
  BY LenProperties
<1>2. x[n] \in Message
  BY <1>1, ElementOfSeq
<1> QED
  BY <1>1, <1>2 DEF Message, Settled

\* A sequence of the same messages, each changed.
LEMMA Changed ==
  ASSUME NEW x \in Seq(Message), NEW y, y = [n \in DOMAIN x |-> y[n]],
         \A n \in DOMAIN x : y[n] \in Message
  PROVE  y \in Seq(Message) /\ DOMAIN y = DOMAIN x
<1>1. PICK size \in Nat : DOMAIN x = 1..size
  BY LenProperties
<1>2. y \in [1..size -> Message]
  BY <1>1
<1> QED
  BY <1>1, <1>2, SeqDef

LEMMA EvolvesTrans ==
  ASSUME NEW x, NEW y, NEW z, NEW by, Evolves(x, y, by), Evolves(y, z, Nobody), Good(z),
         Good(y), Good(x), KeepsUnacked(x, y)
  PROVE  Evolves(x, z, by)
<1>1. \A n \in DOMAIN z : z[n].state = "unacked" => n \in DOMAIN y /\ y[n].state = "unacked"
  BY DEF Evolves, Good
<1>2. DOMAIN x \subseteq DOMAIN y /\ DOMAIN y \subseteq DOMAIN z
  BY DEF Evolves
<1>3. ASSUME NEW n \in DOMAIN x
      PROVE  /\ z[n].queue = x[n].queue
             /\ x[n].dropped => z[n].dropped
             /\ x[n].state \in Settled => z[n].state = x[n].state
             /\ x[n].state = "unacked" /\ z[n].state = "unacked"
                  => z[n].by = x[n].by /\ z[n].count = x[n].count
  <2>1. n \in DOMAIN y /\ n \in DOMAIN z
    BY <1>2
  <2>2. /\ y[n].queue = x[n].queue
        /\ x[n].dropped => y[n].dropped
        /\ x[n].state \in Settled => y[n].state = x[n].state
        /\ x[n].state = "unacked" /\ y[n].state = "unacked"
                  => y[n].by = x[n].by /\ y[n].count = x[n].count
    BY DEF Evolves
  <2>3. /\ z[n].queue = y[n].queue
        /\ y[n].dropped => z[n].dropped
        /\ y[n].state \in Settled => z[n].state = y[n].state
        /\ y[n].state = "unacked" /\ z[n].state = "unacked"
                  => z[n].by = y[n].by /\ z[n].count = y[n].count
    BY <2>1 DEF Evolves
  <2> QED
    BY <2>1, <2>2, <2>3 DEF KeepsUnacked
<1>4. ASSUME NEW n \in DOMAIN z, z[n].state = "unacked"
      PROVE  (n \in DOMAIN x /\ x[n].state = "unacked") \/ z[n].by = by
  <2>1. n \in DOMAIN y /\ y[n].state = "unacked"
    BY <1>1, <1>4
  <2>2. z[n].by = y[n].by
    BY <1>4, <2>1 DEF Evolves
  <2> QED
    BY <2>1, <2>2 DEF Evolves
<1> QED
  BY <1>2, <1>3, <1>4 DEF Evolves

\* A new message for q is there.
Fresh(q) == [queue |-> q, state |-> "ready", count |-> 0, by |-> Nobody,
             expired |-> FALSE, dropped |-> FALSE]

Grown(x, y, q) ==
  /\ Good(y) /\ Evolves(x, y, Nobody) /\ KeepsUnacked(x, y)
  /\ \A n \in DOMAIN x : n \in DOMAIN y /\ y[n] = x[n]
  /\ \A n \in DOMAIN y : n \notin DOMAIN x => y[n] = Fresh(q)

LEMMA AppendOK ==
  ASSUME NEW x, Good(x), NEW q \in Queues, NEW y, y = Append(x, Fresh(q))
  PROVE  Grown(x, y, q)
<1>1. PICK r : r = Fresh(q)
  OBVIOUS
<1>2. r \in Message /\ y = Append(x, r) /\ x \in Seq(Message)
  BY <1>1 DEF Message, Good, Fresh
<1>3. PICK size \in Nat : size = Len(x) /\ DOMAIN x = 1..size
  BY <1>2, LenProperties
<1>4. /\ y \in Seq(Message)
      /\ Len(y) = size + 1
      /\ y[size + 1] = r
      /\ \A n \in 1..size : y[n] = x[n]
  BY <1>2, <1>3, AppendProperties
<1>5. DOMAIN y = 1..(size + 1)
  BY <1>4, LenProperties
<1>6. \A n \in DOMAIN x : n \in DOMAIN y /\ n < size + 1 /\ y[n] = x[n]
  BY <1>3, <1>4, <1>5
<1>7. \A n \in DOMAIN y : n \in DOMAIN x \/ n = size + 1
  BY <1>3, <1>5
<1>8. /\ r.queue = q /\ r.state = "ready" /\ r.count = 0 /\ r.by = Nobody
  BY <1>1 DEF Fresh
<1>9. ASSUME NEW m \in DOMAIN y, NEW n \in DOMAIN y, m < n, y[m].queue = y[n].queue, y[n].count > 0
      PROVE  y[m].count > 0 \/ y[m].state = "dead" \/ y[m].dropped
  <2>1. n \in DOMAIN x
    BY <1>4, <1>7, <1>8, <1>9
  <2>2. m \in DOMAIN x
    BY <1>3, <1>7, <1>9, <2>1
  <2> QED
    BY <1>6, <1>9, <2>1, <2>2 DEF Good
<1>10. Good(y)
  <2>1. ASSUME NEW n \in DOMAIN y
        PROVE  /\ y[n].by # Nobody <=> y[n].state = "unacked"
               /\ y[n].count = 0 => y[n].state \in {"ready", "dead"}
    <3>1. CASE n \in DOMAIN x
      BY <1>6, <3>1 DEF Good
    <3>2. CASE n = size + 1
      BY <1>4, <1>8, <3>2
    <3> QED
      BY <1>7, <3>1, <3>2
  <2> QED
    BY <1>4, <1>9, <2>1 DEF Good
<1>11. Evolves(x, y, Nobody)
  BY <1>4, <1>6, <1>7, <1>8 DEF Evolves
<1> QED
  BY <1>1, <1>4, <1>6, <1>7, <1>10, <1>11 DEF KeepsUnacked, Grown

\* A message that is unacked is settled, or one to be requeued gets ready.
LEMMA FreedOK ==
  ASSUME Good(msg), NEW m \in Msgs, NEW state \in {"acked", "nacked", "requeued", "ready"},
         msg[m].state = "unacked" \/ msg[m].state = "requeued",
         NEW new, new = Freed(m, state)
  PROVE  /\ Good(new) /\ Evolves(msg, new, Nobody) /\ DOMAIN new = Msgs
         /\ new[m].state = state
         /\ \A n \in Msgs : n # m => new[n] = msg[n]
<1>1. PICK r : r = [msg[m] EXCEPT !.state = state, !.by = Nobody]
  OBVIOUS
<1>2. msg \in Seq(Message) /\ m \in DOMAIN msg
  BY DEF Good, Msgs
<1>3. msg[m] \in Message
  BY <1>2, MessageType
<1>4. /\ r \in Message /\ r.state = state /\ r.by = Nobody
      /\ r.queue = msg[m].queue /\ r.count = msg[m].count /\ r.dropped = msg[m].dropped
  BY <1>1, <1>3 DEF Message, Settled
<1>5. new = [msg EXCEPT ![m] = r]
  BY <1>1 DEF Freed
<1>6. \A n \in DOMAIN msg : new[n] = IF n = m THEN r ELSE msg[n]
  BY <1>2, <1>5
<1>7. new \in Seq(Message) /\ DOMAIN new = DOMAIN msg
  <2>1. \A n \in DOMAIN msg : new[n] \in Message
    BY <1>2, <1>4, <1>6, MessageType
  <2>2. new = [n \in DOMAIN msg |-> new[n]]
    BY <1>5
  <2>3. PICK x : x = msg
    OBVIOUS
  <2> QED
    BY <1>2, <2>1, <2>2, <2>3, Changed
<1>8. msg[m].count # 0 /\ msg[m].count \in Nat
  BY <1>2, <1>3 DEF Good, Message
<1>9. Good(new)
  <2>1. \A n \in DOMAIN new : new[n].by # Nobody <=> new[n].state = "unacked"
    BY <1>4, <1>6, <1>7 DEF Good
  <2>2. \A n \in DOMAIN new : new[n].count = 0 => new[n].state \in {"ready", "dead"}
    BY <1>4, <1>6, <1>7, <1>8 DEF Good
  <2>3. \A n \in DOMAIN msg : /\ new[n].queue = msg[n].queue
                              /\ new[n].count = msg[n].count
                              /\ new[n].dropped = msg[n].dropped
    BY <1>4, <1>6
  <2>4. \A n \in DOMAIN msg : msg[n].count > 0 \/ msg[n].state = "dead" => new[n].count > 0 \/ new[n].state = "dead"
    BY <1>4, <1>6, <1>8
  <2>5. ASSUME NEW n1 \in DOMAIN new, NEW n2 \in DOMAIN new,
               n1 < n2, new[n1].queue = new[n2].queue, new[n2].count > 0
        PROVE  new[n1].count > 0 \/ new[n1].state = "dead" \/ new[n1].dropped
    <3>1. msg[n1].queue = msg[n2].queue /\ msg[n2].count > 0
      BY <1>7, <2>3, <2>5
    <3>2. msg[n1].count > 0 \/ msg[n1].state = "dead" \/ msg[n1].dropped
      BY <1>7, <2>5, <3>1 DEF Good
    <3> QED
      BY <1>7, <2>3, <2>4, <3>2
  <2> QED
    BY <1>7, <2>1, <2>2, <2>5 DEF Good
<1>10. Evolves(msg, new, Nobody)
  <2>1. state # "unacked" /\ msg[m].state \notin Settled
    BY DEF Settled
  <2> QED
    BY <1>4, <1>6, <1>7, <2>1 DEF Evolves
<1> QED
  BY <1>4, <1>6, <1>7, <1>9, <1>10 DEF Msgs

\* Message m, or none, is popped from q for `by`.
Taken(new, m, by) ==
  /\ DOMAIN new = Msgs
  /\ \A n \in Msgs : n # m =>
       /\ new[n].by = msg[n].by
       /\ msg[n].state # "ready" => new[n].state = msg[n].state
       /\ msg[n].state = "ready" => new[n].state \in {"ready", "dead"}
  /\ m # None =>
       /\ m \in Msgs /\ msg[m].state = "ready" /\ ~msg[m].dropped
       /\ new[m].by = by
       /\ new[m].state = IF by = Nobody THEN "acked" ELSE "unacked"

LEMMA PoppedOK ==
  ASSUME Good(msg), NEW q, NEW m, NEW by \in Consumers \cup {Poller, Nobody},
         m = None \/ IsNext(q, m), NEW new, new = Popped(q, m, by)
  PROVE  /\ Good(new) /\ Evolves(msg, new, by)
         /\ KeepsUnacked(msg, new) /\ NoneGetsReady(msg, new)
         /\ Taken(new, m, by)
<1>1. /\ msg \in Seq(Message)
      /\ \A n \in Msgs : n \in Nat \ {0} /\ msg[n] \in Message /\ msg[n].count \in Nat
  BY MessageType DEF Good, Msgs
<1>2. /\ None \notin Msgs
      /\ m # None => /\ m \in Msgs /\ msg[m].queue = q /\ msg[m].state = "ready"
                     /\ ~msg[m].dropped /\ ~msg[m].expired
                     /\ \A n \in Live(q) : m <= n
  BY <1>1 DEF IsNext, Live, Ready, Expired, None
<1>3. \A n \in Msgs : new[n] =
        IF n \in Passed(q) THEN [msg[n] EXCEPT !.state = "dead"]
        ELSE IF n = m THEN [msg[n] EXCEPT !.state = IF by = Nobody THEN "acked" ELSE "unacked",
                                          !.count = @ + 1, !.by = by]
        ELSE msg[n]
  BY DEF Popped
<1>4. m \notin Passed(q)
  BY <1>2 DEF Passed, Ready, Expired
<1>5. \A n \in Passed(q) : n \in Msgs /\ n # m /\ msg[n].state = "ready"
  BY <1>4 DEF Passed, Ready
<1>6. ASSUME NEW n \in Passed(q)
      PROVE  /\ new[n] \in Message /\ new[n].state = "dead"
             /\ new[n].queue = msg[n].queue /\ new[n].count = msg[n].count
             /\ new[n].by = msg[n].by /\ new[n].dropped = msg[n].dropped
  <2>1. new[n] = [msg[n] EXCEPT !.state = "dead"] /\ msg[n] \in Message
    BY <1>1, <1>3, <1>5
  <2> QED
    BY <2>1 DEF Message, Settled
<1>7. ASSUME m # None
      PROVE  /\ new[m] \in Message /\ new[m].state = IF by = Nobody THEN "acked" ELSE "unacked"
             /\ new[m].queue = msg[m].queue /\ new[m].count = msg[m].count + 1
             /\ new[m].by = by /\ new[m].dropped = msg[m].dropped
  <2>1. PICK state : state = IF by = Nobody THEN "acked" ELSE "unacked"
    OBVIOUS
  <2>2. new[m] = [msg[m] EXCEPT !.state = state, !.count = @ + 1, !.by = by]
    BY <1>2, <1>3, <1>4, <1>7, <2>1
  <2>3. msg[m] \in Message /\ state \in {"acked", "unacked"}
    BY <1>1, <1>2, <1>7, <2>1
  <2>4. PICK r \in Message : r = msg[m]
    BY <2>3
  <2>5. PICK count \in Nat : count = r.count + 1
    BY DEF Message
  <2>6. new[m] = [r EXCEPT !.state = state, !.count = count, !.by = by]
    BY <2>2, <2>4, <2>5 DEF Message
  <2>7. /\ new[m] \in Message /\ new[m].state = state
        /\ new[m].queue = r.queue /\ new[m].count = count
        /\ new[m].by = by /\ new[m].dropped = r.dropped
    BY <2>3, <2>6 DEF Message, Settled
  <2> QED
    BY <2>1, <2>4, <2>5, <2>7
<1>8. \A n \in Msgs : n \notin Passed(q) /\ n # m => new[n] = msg[n]
  BY <1>3
<1>9. new \in Seq(Message) /\ DOMAIN new = Msgs
  <2>1. \A n \in Msgs : new[n] \in Message
    <3> SUFFICES ASSUME NEW n \in Msgs PROVE new[n] \in Message
      OBVIOUS
    <3>1. n = m => m # None
      BY <1>2
    <3> QED
      BY <1>1, <1>6, <1>7, <1>8, <3>1
  <2>2. new = [n \in Msgs |-> new[n]]
    BY DEF Popped
  <2>3. PICK x : x = msg /\ DOMAIN x = Msgs
    BY DEF Msgs
  <2> QED
    BY <1>1, <2>1, <2>2, <2>3, Changed
<1>10. \A n \in Msgs : /\ new[n].queue = msg[n].queue
                       /\ new[n].dropped = msg[n].dropped
                       /\ n # m => new[n].count = msg[n].count /\ new[n].by = msg[n].by
                       /\ n # m => new[n].state = IF n \in Passed(q) THEN "dead" ELSE msg[n].state
                       /\ msg[n].count > 0 => new[n].count > 0
  <2> SUFFICES ASSUME NEW n \in Msgs
               PROVE  /\ new[n].queue = msg[n].queue
                      /\ new[n].dropped = msg[n].dropped
                      /\ n # m => new[n].count = msg[n].count /\ new[n].by = msg[n].by
                      /\ n # m => new[n].state = IF n \in Passed(q) THEN "dead" ELSE msg[n].state
                      /\ msg[n].count > 0 => new[n].count > 0
    OBVIOUS
  <2>1. CASE n \in Passed(q)
    BY <1>5, <1>6, <2>1
  <2>2. CASE n = m
    BY <1>1, <1>2, <1>7, <2>2
  <2>3. CASE n \notin Passed(q) /\ n # m
    BY <1>8, <2>3
  <2> QED
    BY <2>1, <2>2, <2>3
<1>11. Taken(new, m, by)
  <2>1. \A n \in Msgs : n # m =>
          /\ new[n].by = msg[n].by
          /\ msg[n].state # "ready" => new[n].state = msg[n].state
          /\ msg[n].state = "ready" => new[n].state \in {"ready", "dead"}
    BY <1>5, <1>10
  <2> QED
    BY <1>2, <1>7, <1>9, <2>1 DEF Taken
<1>12. Good(new)
  <2>1. ASSUME NEW n \in Msgs
        PROVE  /\ new[n].by # Nobody <=> new[n].state = "unacked"
               /\ new[n].count = 0 => new[n].state \in {"ready", "dead"}
    <3>1. CASE n \in Passed(q)
      <4>1. msg[n].by = Nobody
        BY <1>5, <3>1 DEF Good, Msgs
      <4> QED
        BY <1>6, <3>1, <4>1
    <3>2. CASE n = m
      <4>1. msg[m].count \in Nat /\ m # None
        BY <1>1, <1>2, <3>2
      <4> QED
        BY <1>7, <3>2, <4>1
    <3>3. CASE n \notin Passed(q) /\ n # m
      BY <1>8, <3>3 DEF Good, Msgs
    <3> QED
      BY <3>1, <3>2, <3>3
  <2>2. ASSUME NEW a \in Msgs, NEW b \in Msgs,
               a < b, new[a].queue = new[b].queue, new[b].count > 0
        PROVE  new[a].count > 0 \/ new[a].state = "dead" \/ new[a].dropped
    <3>1. msg[a].queue = msg[b].queue
      BY <1>10, <2>2
    <3>2. CASE b # m
      <4>1. msg[b].count > 0
        BY <1>10, <2>2, <3>2
      <4>2. msg[a].count > 0 \/ msg[a].state = "dead" \/ msg[a].dropped
        BY <2>2, <3>1, <4>1 DEF Good, Msgs
      <4>3. msg[a].state = "dead" => a # m
        BY <1>2
      <4> QED
        BY <1>10, <4>2, <4>3
    <3>3. CASE b = m
      <4>1. a # m /\ msg[a].queue = q /\ a \in Nat /\ m \in Nat
        BY <1>1, <1>2, <2>2, <3>1, <3>3
      <4>2. a \notin Live(q)
        BY <1>2, <2>2, <3>3, <4>1
      <4>3. CASE msg[a].state = "ready" /\ ~msg[a].dropped
        <5>1. a \in Ready(q) /\ Expired(a)
          BY <4>1, <4>2, <4>3 DEF Live, Ready
        <5>2. \A k \in Live(q) : k \in Nat /\ m <= k
          BY <1>1, <1>2, <3>3 DEF Live, Ready
        <5>3. \A k \in Live(q) : a < k
          BY <2>2, <3>3, <4>1, <5>2
        <5>4. a \in Passed(q)
          BY <5>1, <5>3 DEF Passed
        <5> QED
          BY <1>6, <5>4
      <4>4. CASE msg[a].dropped
        BY <1>10, <4>4
      <4>5. CASE msg[a].state # "ready"
        <5>1. msg[a].state = "dead" \/ msg[a].count # 0
          BY <4>5 DEF Good, Msgs
        <5> QED
          BY <1>1, <1>5, <1>10, <4>1, <4>5, <5>1
      <4> QED
        BY <4>3, <4>4, <4>5
    <3> QED
      BY <3>2, <3>3
  <2> QED
    BY <1>9, <2>1, <2>2 DEF Good
<1>13. Evolves(msg, new, by) /\ KeepsUnacked(msg, new)
  <2>1. ASSUME NEW n \in Msgs
        PROVE  /\ msg[n].state \in Settled => new[n].state = msg[n].state
               /\ msg[n].state = "unacked" => new[n].state = "unacked" /\ n # m
               /\ new[n].state = "unacked" => msg[n].state = "unacked" \/ new[n].by = by
    <3>1. n = m => msg[n].state = "ready"
      BY <1>2
    <3>2. n \in Passed(q) => msg[n].state = "ready" /\ n # m
      BY <1>5
    <3>3. msg[n].state \in Settled \cup {"unacked"} => msg[n].state # "ready"
      BY DEF Settled
    <3>4. n = m => new[n].by = by
      BY <1>2, <1>7
    <3> QED
      BY <1>10, <3>1, <3>2, <3>3, <3>4
  <2> QED
    BY <1>9, <1>10, <2>1 DEF Evolves, KeepsUnacked, Msgs
<1>14. NoneGetsReady(msg, new)
  <2> SUFFICES ASSUME NEW n \in Msgs, IsLive(new[n]) PROVE IsLive(msg[n])
    BY <1>9 DEF NoneGetsReady, Msgs
  <2>1. n \notin Passed(q)
    BY <1>6 DEF IsLive
  <2>2. n # m
    BY <1>2, <1>7 DEF IsLive
  <2> QED
    BY <1>8, <2>1, <2>2
<1> QED
  BY <1>11, <1>12, <1>13, <1>14

\* The clock moves, or a reset() drops what there is.
LEMMA MarkedOK ==
  ASSUME Good(msg), NEW new, new = [n \in Msgs |-> new[n]],
         \A n \in Msgs :
           \/ new[n] = msg[n]
           \/ new[n] = [msg[n] EXCEPT !.expired = TRUE]
           \/ new[n] = [msg[n] EXCEPT !.dropped = TRUE]
  PROVE  /\ Good(new) /\ Evolves(msg, new, Nobody) /\ DOMAIN new = Msgs
         /\ KeepsUnacked(msg, new) /\ NoneGetsReady(msg, new)
<1>1. /\ msg \in Seq(Message)
      /\ \A n \in Msgs : msg[n] \in Message /\ msg[n].dropped \in BOOLEAN
  BY MessageType DEF Good, Msgs
<1>2. ASSUME NEW n \in Msgs
      PROVE  /\ new[n] \in Message
             /\ new[n].queue = msg[n].queue /\ new[n].state = msg[n].state
             /\ new[n].count = msg[n].count /\ new[n].by = msg[n].by
             /\ new[n].dropped = msg[n].dropped \/ new[n].dropped = TRUE
             /\ new[n].expired = msg[n].expired \/ new[n].expired = TRUE
  <2>1. msg[n] \in Message
    BY <1>1
  <2>2. CASE new[n] = msg[n]
    BY <2>1, <2>2
  <2>3. CASE new[n] = [msg[n] EXCEPT !.expired = TRUE]
    BY <2>1, <2>3 DEF Message
  <2>4. CASE new[n] = [msg[n] EXCEPT !.dropped = TRUE]
    BY <2>1, <2>4 DEF Message
  <2> QED
    BY <2>2, <2>3, <2>4
<1>3. new \in Seq(Message) /\ DOMAIN new = Msgs
  <2>1. PICK x : x = msg /\ DOMAIN x = Msgs
    BY DEF Msgs
  <2> QED
    BY <1>1, <1>2, <2>1, Changed
<1>4. Good(new)
  <2>1. \A n \in Msgs : new[n].dropped \in BOOLEAN /\ (msg[n].dropped => new[n].dropped)
    BY <1>1, <1>2
  <2>2. ASSUME NEW a \in Msgs, NEW b \in Msgs,
               a < b, new[a].queue = new[b].queue, new[b].count > 0
        PROVE  new[a].count > 0 \/ new[a].state = "dead" \/ new[a].dropped
    <3>1. msg[a].queue = msg[b].queue /\ msg[b].count > 0
      BY <1>2, <2>2
    <3>2. msg[a].count > 0 \/ msg[a].state = "dead" \/ msg[a].dropped
      BY <2>2, <3>1 DEF Good, Msgs
    <3> QED
      BY <1>2, <2>1, <3>2
  <2>3. \A n \in Msgs : /\ new[n].by # Nobody <=> new[n].state = "unacked"
                        /\ new[n].count = 0 => new[n].state \in {"ready", "dead"}
    BY <1>2 DEF Good, Msgs
  <2> QED
    BY <1>3, <2>2, <2>3 DEF Good
<1>5. Evolves(msg, new, Nobody)
  BY <1>2, <1>3 DEF Evolves, Msgs
<1>6. KeepsUnacked(msg, new) /\ NoneGetsReady(msg, new)
  BY <1>2, <1>3 DEF KeepsUnacked, NoneGetsReady, IsLive, Msgs
<1> QED
  BY <1>3, <1>4, <1>5, <1>6

-----------------------------------------------------------------------------
\* The stack of dispatches.

LEMMA FrameTypes ==
  ASSUME NEW f \in Frame
  PROVE  /\ f.queue \in Queues /\ f.at \in Nat /\ f.inside \in BOOLEAN
         /\ f.msg \in Msgs \cup {None} /\ f.rest \in Seq(Queues)
BY DEF Frame

LEMMA StackFacts ==
  ASSUME TypeOK
  PROVE  /\ Len(stack) \in Nat /\ DOMAIN stack = 1..Len(stack)
         /\ \A j \in DOMAIN stack : stack[j] \in Frame
         /\ stack # <<>> => Len(stack) \in DOMAIN stack /\ Top = stack[Len(stack)] /\ Top \in Frame
         /\ stack = <<>> => DOMAIN stack = {}
<1>1. stack \in Seq(Frame)
  BY DEF TypeOK
<1>2. Len(stack) \in Nat /\ DOMAIN stack = 1..Len(stack)
  BY <1>1, LenProperties
<1>3. \A j \in DOMAIN stack : stack[j] \in Frame
  BY <1>1, <1>2, ElementOfSeq
<1>4. stack # <<>> => Len(stack) # 0
  BY <1>1, EmptySeq
<1>5. stack # <<>> => Len(stack) \in DOMAIN stack
  BY <1>2, <1>4
<1>6. Top = stack[Len(stack)]
  BY DEF Top, Last
<1>7. stack = <<>> => DOMAIN stack = {}
  BY <1>2, EmptySeq
<1> QED
  BY <1>2, <1>3, <1>5, <1>6, <1>7

LEMMA Widened ==
  ASSUME TypeOK, Msgs \subseteq Msgs'
  PROVE  /\ \A c \in Consumers : received[c] \in Seq(Msgs')
         /\ timers \subseteq Msgs'
         /\ stack \in Seq(Frame')
<1>1. \A c \in Consumers : received[c] \in Seq(Msgs)
  BY DEF TypeOK
<1>2. PICK M, N, F, G : M = Msgs /\ N = Msgs' /\ F = Frame /\ G = Frame'
  OBVIOUS
<1>3. M \subseteq N
  BY <1>2
<1>4. F \subseteq G
  BY <1>2 DEF Frame
<1>5. \A c \in Consumers : received[c] \in Seq(N)
  BY <1>1, <1>2, <1>3, SeqMonotonic
<1>6. stack \in Seq(F)
  BY <1>2 DEF TypeOK
<1>7. stack \in Seq(G)
  BY <1>4, <1>6, SeqMonotonic
<1> QED
  BY <1>2, <1>5, <1>7 DEF TypeOK

LEMMA StackGrows ==
  ASSUME TypeOK, Msgs \subseteq Msgs', NEW f, f \in Frame', stack' = Append(stack, f)
  PROVE  /\ stack' \in Seq(Frame')
         /\ DOMAIN stack' = 1..(Len(stack) + 1)
         /\ stack'[Len(stack) + 1] = f
         /\ \A j \in DOMAIN stack : stack'[j] = stack[j]
<1>1. PICK G, s : G = Frame' /\ s = stack
  OBVIOUS
<1>2. s \in Seq(G) /\ f \in G
  BY <1>1, Widened
<1>3. /\ Append(s, f) \in Seq(G)
      /\ Len(Append(s, f)) = Len(s) + 1
      /\ Append(s, f)[Len(s) + 1] = f
      /\ \A j \in 1..Len(s) : Append(s, f)[j] = s[j]
  BY <1>2, AppendProperties
<1>4. DOMAIN Append(s, f) = 1..(Len(s) + 1) /\ DOMAIN s = 1..Len(s)
  BY <1>2, <1>3, LenProperties
<1> QED
  BY <1>1, <1>3, <1>4

LEMMA StackTurns ==
  ASSUME TypeOK, Msgs \subseteq Msgs', stack # <<>>, NEW f, f \in Frame', stack' = SetTop(f)
  PROVE  /\ stack' \in Seq(Frame')
         /\ DOMAIN stack' = DOMAIN stack
         /\ \A j \in DOMAIN stack : stack'[j] = IF j = Len(stack) THEN f ELSE stack[j]
<1>1. PICK G, s, size : G = Frame' /\ s = stack /\ size = Len(stack)
  OBVIOUS
<1>2. s \in Seq(G) /\ f \in G
  BY <1>1, Widened
<1>3. size \in 1..Len(s) /\ DOMAIN s = 1..Len(s)
  BY <1>1, StackFacts
<1>4. PICK t : t = [s EXCEPT ![size] = f]
  OBVIOUS
<1>5. t \in Seq(G) /\ Len(t) = Len(s) /\ \A j \in 1..Len(s) : t[j] = IF j = size THEN f ELSE s[j]
  BY <1>2, <1>3, <1>4, ExceptSeq
<1>6. stack' = t
  BY <1>1, <1>4 DEF SetTop
<1>7. DOMAIN t = DOMAIN s
  BY <1>4
<1> QED
  BY <1>1, <1>3, <1>5, <1>6, <1>7

LEMMA StackShrinks ==
  ASSUME TypeOK, Msgs \subseteq Msgs', stack # <<>>, stack' = Front(stack)
  PROVE  /\ stack' \in Seq(Frame')
         /\ DOMAIN stack' = 1..(Len(stack) - 1)
         /\ \A j \in DOMAIN stack' : j \in DOMAIN stack /\ stack'[j] = stack[j]
<1>1. PICK G, s, size : G = Frame' /\ s = stack /\ size = Len(stack)
  OBVIOUS
<1>2. s \in Seq(G)
  BY <1>1, Widened
<1>3. size \in Nat \ {0} /\ size = Len(s) /\ DOMAIN s = 1..size
  BY <1>1, StackFacts
<1>4. PICK t : t = SubSeq(s, 1, size - 1)
  OBVIOUS
<1>5. stack' = t
  BY <1>1, <1>4 DEF Front
<1>6. t = [j \in 1..(size - 1) |-> s[j]]
  BY <1>3, <1>4
<1>7. \A j \in 1..(size - 1) : s[j] \in G /\ j \in DOMAIN s
  BY <1>2, <1>3, ElementOfSeq
<1>8. t \in [1..(size - 1) -> G]
  BY <1>6, <1>7
<1>9. t \in Seq(G)
  BY <1>3, <1>8, SeqDef
<1>10. DOMAIN t = 1..(size - 1) /\ \A j \in 1..(size - 1) : t[j] = s[j]
  BY <1>6
<1> QED
  BY <1>1, <1>5, <1>7, <1>9, <1>10

LEMMA DispatchingType ==
  ASSUME TypeOK, NEW route \in Seq(Queues), route # <<>>
  PROVE  LET f == Dispatching(route)
         IN /\ f \in Frame /\ f.queue = Head(route) /\ f.at = 1 /\ f.msg = None
            /\ ~f.inside /\ Head(route) \in Queues /\ f \in Frame'
<1>1. Head(route) \in Queues /\ Tail(route) \in Seq(Queues)
  BY HeadTailProperties
<1> QED
  BY <1>1 DEF Dispatching, Frame

-----------------------------------------------------------------------------
\* Who is full stays full, and who is attended to stays so.

LEMMA PartIsSmaller ==
  ASSUME NEW n \in Nat, NEW T, T \subseteq 1..n, NEW S, S \subseteq T
  PROVE  /\ IsFiniteSet(S) /\ IsFiniteSet(T)
         /\ Cardinality(S) \in Nat /\ Cardinality(T) \in Nat
         /\ Cardinality(S) <= Cardinality(T)
<1>1. IsFiniteSet(1..n)
  BY FS_Interval
<1>2. IsFiniteSet(T)
  BY <1>1, FS_Subset
<1>3. IsFiniteSet(S) /\ Cardinality(S) <= Cardinality(T)
  BY <1>2, FS_Subset
<1> QED
  BY <1>2, <1>3, FS_CardinalityType

LEMMA UnackedBounds ==
  ASSUME TypeOK, NEW c \in Consumers
  PROVE  /\ Len(received[c]) \in Nat /\ DOMAIN received[c] = 1..Len(received[c])
         /\ \A i \in DOMAIN received[c] : received[c][i] \in Msgs
         /\ UnackedOf(c) \subseteq 1..Len(received[c])
         /\ Pledged(c) \subseteq UnackedOf(c)
         /\ option[c].queue \in Queues /\ option[c].prefetch \in Nat
<1>1. received[c] \in Seq(Msgs)
  BY DEF TypeOK
<1>2. Len(received[c]) \in Nat /\ DOMAIN received[c] = 1..Len(received[c])
  BY <1>1, LenProperties
<1>3. \A i \in DOMAIN received[c] : received[c][i] \in Msgs
  BY <1>1, <1>2, ElementOfSeq
<1>4. option[c].queue \in Queues /\ option[c].prefetch \in Nat
  BY RabbitAssumption DEF RabbitAssumption
<1>5. UnackedOf(c) \subseteq DOMAIN received[c] /\ Pledged(c) \subseteq UnackedOf(c)
  BY DEF UnackedOf, Pledged
<1> QED
  BY <1>2, <1>3, <1>4, <1>5

LEMMA FullStays ==
  ASSUME TypeOK', NEW c \in Consumers,
         UnackedOf(c) \subseteq UnackedOf(c)', Full(c)
  PROVE  Full(c)'
<1>1. PICK S, T, r : S = UnackedOf(c) /\ T = UnackedOf(c)' /\ r = received'[c]
  OBVIOUS
<1>2. r \in Seq(Msgs')
  BY <1>1 DEF TypeOK
<1>3. Len(r) \in Nat /\ DOMAIN r = 1..Len(r)
  BY <1>2, LenProperties
<1>4. T \subseteq 1..Len(r)
  BY <1>1, <1>3 DEF UnackedOf
<1>5. Cardinality(S) \in Nat /\ Cardinality(T) \in Nat /\ Cardinality(S) <= Cardinality(T)
  BY <1>1, <1>3, <1>4, PartIsSmaller
<1>6. option[c].prefetch \in Nat
  BY RabbitAssumption DEF RabbitAssumption
<1> QED
  BY <1>1, <1>5, <1>6 DEF Full

LEMMA PledgeStays ==
  ASSUME TypeOK', NEW c \in Consumers,
         Pledged(c) \subseteq Pledged(c)', StaysFull(c)
  PROVE  StaysFull(c)'
<1>1. PICK S, T, r : S = Pledged(c) /\ T = Pledged(c)' /\ r = received'[c]
  OBVIOUS
<1>2. r \in Seq(Msgs')
  BY <1>1 DEF TypeOK
<1>3. Len(r) \in Nat /\ DOMAIN r = 1..Len(r)
  BY <1>2, LenProperties
<1>4. T \subseteq 1..Len(r)
  BY <1>1, <1>3 DEF UnackedOf, Pledged
<1>5. Cardinality(S) \in Nat /\ Cardinality(T) \in Nat /\ Cardinality(S) <= Cardinality(T)
  BY <1>1, <1>3, <1>4, PartIsSmaller
<1>6. option[c].prefetch \in Nat
  BY RabbitAssumption DEF RabbitAssumption
<1> QED
  BY <1>1, <1>5, <1>6 DEF StaysFull

\* What a step must keep so that q stays attended to: the lowest dispatch on q
\* and how far it has come, or that there is none; timers; and who is full.
KeepsAttention(q) ==
  /\ \A l \in FramesOn(q)' : (\A j \in FramesOn(q)' : l <= j) =>
       stack'[l].at = 1 \/ (l \in FramesOn(q) /\ stack'[l].at = stack[l].at)
  /\ \A l \in FramesOn(q)', j \in FramesOn(q) : j \in FramesOn(q)' \/ l <= j
  /\ \A i \in DOMAIN consumers[q] :
       i \in DOMAIN consumers'[q] /\ consumers'[q][i] = consumers[q][i]
  /\ cancelled \subseteq cancelled'
  /\ TimerOn(q) => TimerOn(q)'
  /\ \A c \in Consumers : option[c].queue = q =>
       Pledged(c) \subseteq Pledged(c)' \/ TimerOn(q)'
  /\ FramesOn(q)' = {} =>
       \/ q \in broken'
       \/ /\ FramesOn(q) = {}
          /\ q \in broken => q \in broken'
          /\ Live(q) = {} => Live(q)' = {}
          /\ consumers'[q] = consumers[q]
          /\ \A c \in Consumers : option[c].queue = q =>
               UnackedOf(c) \subseteq UnackedOf(c)' \/ TimerOn(q)'

LEMMA AttentionKept ==
  ASSUME TypeOK, Homes, TypeOK', NEW q \in Queues, Attended(q), KeepsAttention(q)
  PROVE  Attended(q)'
<1>1. /\ Len(consumers[q]) \in Nat /\ DOMAIN consumers[q] = 1..Len(consumers[q])
      /\ \A i \in DOMAIN consumers[q] :
           consumers[q][i] \in Consumers /\ option[consumers[q][i]].queue = q
  <2>1. consumers[q] \in Seq(Consumers)
    BY DEF TypeOK
  <2>2. Len(consumers[q]) \in Nat /\ DOMAIN consumers[q] = 1..Len(consumers[q])
    BY <2>1, LenProperties
  <2>3. \A i \in DOMAIN consumers[q] : consumers[q][i] \in Consumers
    BY <2>1, <2>2, ElementOfSeq
  <2> QED
    BY <2>2, <2>3 DEF Homes
<1>2. DOMAIN consumers'[q] = 1..Len(consumers'[q]) /\ Len(consumers'[q]) \in Nat
  <2>1. PICK r : r = consumers'[q]
    OBVIOUS
  <2>2. r \in Seq(Consumers)
    BY <2>1 DEF TypeOK
  <2> QED
    BY <2>1, <2>2, LenProperties
<1>3. ASSUME FramesOn(q)' = {}
      PROVE  \/ q \in broken'
             \/ Live(q)' = {}
             \/ TimerOn(q)'
             \/ (\A i \in DOMAIN consumers[q] : ~CanTake(consumers[q][i]))'
  <2>1. CASE q \in broken'
    BY <2>1
  <2>2. CASE q \notin broken'
    <3>1. /\ FramesOn(q) = {}
          /\ q \in broken => q \in broken'
          /\ Live(q) = {} => Live(q)' = {}
          /\ consumers'[q] = consumers[q]
          /\ \A c \in Consumers : option[c].queue = q =>
               UnackedOf(c) \subseteq UnackedOf(c)' \/ TimerOn(q)'
          /\ TimerOn(q) => TimerOn(q)'
          /\ cancelled \subseteq cancelled'
      BY <1>3, <2>2 DEF KeepsAttention
    <3>2. CASE q \in broken \/ Live(q) = {} \/ TimerOn(q)
      BY <3>1, <3>2
    <3>3. CASE \A i \in DOMAIN consumers[q] : ~CanTake(consumers[q][i])
      <4> SUFFICES ASSUME ~TimerOn(q)', NEW i \in DOMAIN consumers[q]
                   PROVE  ~CanTake(consumers[q][i])'
        BY <3>1
      <4>1. PICK c \in Consumers : c = consumers[q][i] /\ option[c].queue = q
        BY <1>1
      <4>2. c \in cancelled \/ Full(c)
        BY <3>3, <4>1 DEF CanTake
      <4>3. UnackedOf(c) \subseteq UnackedOf(c)'
        BY <3>1, <4>1
      <4>4. c \in cancelled' \/ Full(c)'
        BY <3>1, <4>2, <4>3, FullStays
      <4> QED
        BY <3>1, <4>1, <4>4 DEF CanTake
    <3> QED
      BY <3>1, <3>2, <3>3 DEF Attended
  <2> QED
    BY <2>1, <2>2
<1>4. ASSUME NEW l, l \in FramesOn(q)', \A j \in FramesOn(q)' : l <= j, ~TimerOn(q)',
             NEW i, i \in DOMAIN consumers'[q], i < stack'[l].at
      PROVE  (consumers[q][i] \in cancelled \/ StaysFull(consumers[q][i]))'
  <2>1. i \in Nat /\ i >= 1
    BY <1>2, <1>4
  <2>2. l \in FramesOn(q) /\ stack'[l].at = stack[l].at
    BY <1>4, <2>1 DEF KeepsAttention
  <2>3. \A j \in FramesOn(q) : l <= j
    BY <1>4 DEF KeepsAttention
  <2>4. ~TimerOn(q)
    BY <1>4 DEF KeepsAttention
  <2>5. i \in DOMAIN consumers[q]
    <3>1. stack[l].at = 1 \/ stack[l].at \in DOMAIN consumers[q]
      BY <2>2 DEF Homes, AtHome, FramesOn
    <3> QED
      BY <1>1, <1>4, <2>1, <2>2, <3>1
  <2>6. PICK c \in Consumers : c = consumers[q][i] /\ option[c].queue = q
    BY <1>1, <2>5
  <2>7. c \in cancelled \/ StaysFull(c)
    BY <1>4, <2>2, <2>3, <2>4, <2>5, <2>6 DEF Attended
  <2>8. consumers'[q][i] = c /\ cancelled \subseteq cancelled' /\ Pledged(c) \subseteq Pledged(c)'
    BY <1>4, <2>5, <2>6 DEF KeepsAttention
  <2>9. c \in cancelled' \/ StaysFull(c)'
    BY <2>7, <2>8, PledgeStays
  <2> QED
    BY <2>8, <2>9 DEF StaysFull, Pledged, UnackedOf
<1> QED
  BY <1>3, <1>4 DEF Attended

\* Nobody but `by`, who is no consumer, is given a message.
LEMMA Undelivered ==
  ASSUME IInv, Good(msg'), NEW by \in {Poller, Nobody}, Evolves(msg, msg', by),
         received' = received
  PROVE  /\ Listed' /\ PrefetchHonoured' /\ Msgs \subseteq Msgs'
         /\ \A c \in Consumers : \A i \in DOMAIN received'[c] :
              msg'[received'[c][i]].queue = option[c].queue
<1>1. TypeOK /\ Good(msg) /\ Homes /\ Listed /\ PrefetchHonoured
  BY DEF IInv
<1>2. Msgs \subseteq Msgs'
  BY DEF Evolves, Msgs
<1>3. by \notin Consumers
  BY RabbitAssumption DEF RabbitAssumption
<1>4. ASSUME NEW m, m \in Msgs', msg'[m].state = "unacked", msg'[m].by \in Consumers, ~msg'[m].dropped
      PROVE  /\ m \in Msgs /\ msg[m].state = "unacked" /\ msg[m].by = msg'[m].by
             /\ ~msg[m].dropped
  <2>1. m \in Msgs /\ msg[m].state = "unacked"
    BY <1>3, <1>4 DEF Evolves, Msgs
  <2> QED
    BY <1>4, <2>1 DEF Evolves, Msgs
<1>5. Listed'
  <2> SUFFICES ASSUME NEW m, m \in Msgs', msg'[m].state = "unacked", msg'[m].by \in Consumers,
                      ~msg'[m].dropped
               PROVE  \E i \in DOMAIN received'[msg'[m].by] : received'[msg'[m].by][i] = m
    BY DEF Listed
  <2> QED
    BY <1>1, <1>4 DEF Listed
<1>6. PrefetchHonoured'
  <2> SUFFICES ASSUME NEW c \in Consumers, option[c].prefetch > 0
               PROVE  (Cardinality(Held(c)) <= option[c].prefetch)'
    BY DEF PrefetchHonoured
  <2>1. Held(c)' \subseteq Held(c)
    BY <1>4 DEF Held
  <2>2. PICK S, T : S = Held(c)' /\ T = Held(c)
    OBVIOUS
  <2>3. T \subseteq 1..Len(msg) /\ Len(msg) \in Nat
    BY <1>1, <2>2, LenProperties DEF Held, Msgs, TypeOK
  <2>4. Cardinality(S) \in Nat /\ Cardinality(T) \in Nat /\ Cardinality(S) <= Cardinality(T)
    BY <2>1, <2>2, <2>3, PartIsSmaller
  <2>5. Cardinality(T) <= option[c].prefetch /\ option[c].prefetch \in Nat
    BY <1>1, <2>2, UnackedBounds DEF PrefetchHonoured
  <2> QED
    BY <2>2, <2>4, <2>5
<1>7. ASSUME NEW c \in Consumers, NEW i \in DOMAIN received[c]
      PROVE  msg'[received'[c][i]].queue = option[c].queue
  <2>1. received[c][i] \in Msgs /\ msg[received[c][i]].queue = option[c].queue
    BY <1>1, UnackedBounds DEF Homes
  <2> QED
    BY <2>1 DEF Evolves, Msgs
<1> QED
  BY <1>2, <1>5, <1>6, <1>7

\* Frames stay at home while queues only get more consumers.
LEMMA FramesStayHome ==
  ASSUME IInv, NEW by, Evolves(msg, msg', by),
         \A q \in Queues : DOMAIN consumers[q] \subseteq DOMAIN consumers'[q]
  PROVE  \A j \in DOMAIN stack : AtHome(stack[j], consumers', msg')
<1> SUFFICES ASSUME NEW j \in DOMAIN stack PROVE AtHome(stack[j], consumers', msg')
  OBVIOUS
<1>1. TypeOK /\ Homes
  BY DEF IInv
<1>2. PICK f \in Frame : f = stack[j]
  BY <1>1, StackFacts
<1>3. f.queue \in Queues /\ (f.msg # None => f.msg \in Msgs)
  BY FrameTypes
<1>4. AtHome(f, consumers, msg)
  BY <1>1, <1>2 DEF Homes
<1>5. f.msg # None => msg'[f.msg].queue = msg[f.msg].queue
  BY <1>3 DEF Evolves, Msgs
<1>6. DOMAIN consumers[f.queue] \subseteq DOMAIN consumers'[f.queue]
  BY <1>3
<1> QED
  BY <1>2, <1>4, <1>5, <1>6 DEF AtHome

\* A step next to the dispatches: nobody gets a message to settle but a
\* poller, and who settles one starts a timer.
LEMMA Aside ==
  ASSUME IInv, Good(msg'), NEW by \in {Poller, Nobody}, Evolves(msg, msg', by),
         UNCHANGED <<consumers, received, stack, broken>>,
         cancelled \subseteq cancelled', cancelled' \subseteq Consumers,
         timers \subseteq timers', timers' \subseteq Msgs',
         \A m \in Msgs' : msg'[m].state = "requeued" => m \in timers',
         NoneGetsReady(msg, msg'),
         \A m \in Msgs : msg[m].state = "unacked" => msg'[m].state = "unacked" \/ m \in timers'
  PROVE  IInv'
<1>1. TypeOK /\ Homes /\ \A q \in Queues : Attended(q)
  BY DEF IInv
<1>2. /\ Listed' /\ PrefetchHonoured' /\ Msgs \subseteq Msgs'
      /\ \A c \in Consumers : \A i \in DOMAIN received'[c] :
           msg'[received'[c][i]].queue = option[c].queue
  BY Undelivered
<1>3. TypeOK'
  <2>1. \A m \in Msgs' : msg'[m].by # Nobody <=> msg'[m].state = "unacked"
    BY DEF Good, Msgs
  <2>2. stack' \in Seq(Frame')
    BY <1>1, <1>2, Widened
  <2>3. received' \in [Consumers -> Seq(Msgs')]
    BY <1>1, <1>2, Widened DEF TypeOK
  <2> QED
    BY <1>1, <2>1, <2>2, <2>3 DEF TypeOK, Good
<1>4. Homes'
  <2>1. \A j \in DOMAIN stack : AtHome(stack[j], consumers', msg')
    BY FramesStayHome
  <2> QED
    BY <1>1, <1>2, <2>1 DEF Homes
<1>5. ASSUME NEW q \in Queues PROVE KeepsAttention(q)
  <2>1. FramesOn(q)' = FramesOn(q) /\ InHand' = InHand
    BY DEF FramesOn, InHand
  <2>2. TimerOn(q) => TimerOn(q)'
    BY <1>1 DEF TimerOn, Evolves, TypeOK, Msgs
  <2>3. Live(q) = {} => Live(q)' = {}
    <3>1. ASSUME NEW n, n \in Live(q)' PROVE n \in Live(q)
      <4>1. n \in Msgs' /\ msg'[n].queue = q /\ IsLive(msg'[n])
        BY <3>1 DEF Live, Ready, Expired, IsLive
      <4>2. n \in Msgs /\ IsLive(msg[n])
        BY <4>1 DEF NoneGetsReady, Msgs
      <4> QED
        BY <4>1, <4>2 DEF Live, Ready, Expired, IsLive, Evolves, Msgs
    <3> QED
      BY <3>1
  <2>4. ASSUME NEW c \in Consumers, option[c].queue = q, ~TimerOn(q)'
        PROVE  UnackedOf(c) \subseteq UnackedOf(c)' /\ Pledged(c) \subseteq Pledged(c)'
    <3>1. ASSUME NEW i \in UnackedOf(c) PROVE i \in UnackedOf(c)'
      <4>1. /\ i \in DOMAIN received[c] /\ received[c][i] \in Msgs
            /\ msg[received[c][i]].state = "unacked"
            /\ msg'[received[c][i]].queue = q
        BY <1>1, <1>2, <2>4, UnackedBounds DEF UnackedOf
      <4>2. received[c][i] \notin timers'
        BY <2>4, <4>1 DEF TimerOn
      <4> QED
        BY <4>1, <4>2 DEF UnackedOf
    <3> QED
      BY <2>1, <3>1 DEF Pledged
  <2> QED
    BY <2>1, <2>2, <2>3, <2>4 DEF KeepsAttention
<1>6. \A q \in Queues : Attended(q)'
  BY <1>1, <1>3, <1>5, AttentionKept
<1> QED
  BY <1>2, <1>3, <1>4, <1>6 DEF IInv

\* A step in which nobody is given a message, but dispatches start or end.
LEMMA Calm ==
  ASSUME IInv, Good(msg'), Evolves(msg, msg', Nobody), received' = received,
         stack' \in Seq(Frame'), consumers' \in [Queues -> Seq(Consumers)],
         cancelled' = cancelled, broken' \subseteq Queues, timers' \subseteq Msgs',
         \A m \in Msgs' : msg'[m].state = "requeued" => m \in timers',
         \A q \in Queues : \A i \in DOMAIN consumers'[q] : option[consumers'[q][i]].queue = q,
         \A j \in DOMAIN stack' : AtHome(stack'[j], consumers', msg')
  PROVE  TypeOK' /\ Homes' /\ Listed' /\ PrefetchHonoured' /\ Msgs \subseteq Msgs'
<1>1. TypeOK /\ Homes
  BY DEF IInv
<1>2. /\ Listed' /\ PrefetchHonoured' /\ Msgs \subseteq Msgs'
      /\ \A c \in Consumers : \A i \in DOMAIN received'[c] :
           msg'[received'[c][i]].queue = option[c].queue
  BY Undelivered
<1>3. TypeOK'
  <2>1. \A m \in Msgs' : msg'[m].by # Nobody <=> msg'[m].state = "unacked"
    BY DEF Good, Msgs
  <2>2. received' \in [Consumers -> Seq(Msgs')]
    BY <1>1, <1>2, Widened DEF TypeOK
  <2> QED
    BY <1>1, <2>1, <2>2 DEF TypeOK, Good
<1> QED
  BY <1>2, <1>3 DEF Homes

\* A dispatch starts.
LEMMA Joins ==
  ASSUME IInv, TypeOK', NEW f, f \in Frame', f.at = 1, f.msg = None, stack' = Append(stack, f),
         Msgs \subseteq Msgs', Evolves(msg, msg', Nobody), KeepsUnacked(msg, msg'),
         \A n \in Msgs' : IsLive(msg'[n]) =>
           (n \in Msgs /\ IsLive(msg[n])) \/ msg'[n].queue = f.queue,
         received' = received, cancelled' = cancelled, broken' = broken,
         \A q \in Queues : q # f.queue => consumers'[q] = consumers[q],
         \A q \in Queues : \A i \in DOMAIN consumers[q] :
           i \in DOMAIN consumers'[q] /\ consumers'[q][i] = consumers[q][i],
         \A m \in timers : m \in timers' \/ (stack = <<>> /\ msg[m].queue = f.queue)
  PROVE  \A q \in Queues : Attended(q)'
<1>1. TypeOK /\ Homes /\ \A q \in Queues : Attended(q)
  BY DEF IInv
<1>2. PICK size \in Nat : size = Len(stack) /\ DOMAIN stack = 1..size
  BY <1>1, StackFacts
<1>3. /\ DOMAIN stack' = 1..(size + 1) /\ stack'[size + 1] = f
      /\ \A j \in 1..size : stack'[j] = stack[j]
  BY <1>1, <1>2, StackGrows
<1>4. SUFFICES ASSUME NEW q \in Queues PROVE Attended(q)'
  OBVIOUS
<1>5. CASE q = f.queue /\ stack = <<>>
  <2>1. size = 0
    BY <1>1, <1>2, <1>5, StackFacts
  <2>2. FramesOn(q)' = {1} /\ stack'[1].at = 1
    BY <1>3, <1>5, <2>1 DEF FramesOn
  <2>3. PICK r : r = consumers'[q]
    OBVIOUS
  <2>4. r \in Seq(Consumers)
    BY <2>3 DEF TypeOK
  <2>5. DOMAIN r = 1..Len(r) /\ Len(r) \in Nat
    BY <2>4, LenProperties
  <2>6. \A i \in DOMAIN consumers'[q] : ~(i < 1)
    BY <2>3, <2>5
  <2> QED
    BY <2>2, <2>6 DEF Attended
<1>6. CASE q # f.queue \/ stack # <<>>
  <2>1. /\ FramesOn(q) \subseteq FramesOn(q)'
        /\ \A l \in FramesOn(q)' : l \in FramesOn(q) \/ l = size + 1
        /\ \A l \in FramesOn(q) : l \in 1..size
        /\ q = f.queue => size + 1 \in FramesOn(q)'
    BY <1>2, <1>3 DEF FramesOn
  <2>2. \A l \in FramesOn(q)' : stack'[l].at = 1 \/ (l \in FramesOn(q) /\ stack'[l].at = stack[l].at)
    BY <1>3, <2>1
  <2>3. TimerOn(q) => TimerOn(q)'
    <3> SUFFICES ASSUME NEW m \in timers, msg[m].queue = q PROVE TimerOn(q)'
      BY DEF TimerOn
    <3>1. m \in timers' /\ m \in Msgs
      BY <1>1, <1>6 DEF TypeOK
    <3> QED
      BY <3>1 DEF TimerOn, Evolves, Msgs
  <2>4. ASSUME NEW c \in Consumers
        PROVE  UnackedOf(c) \subseteq UnackedOf(c)' /\ Pledged(c) \subseteq Pledged(c)'
    <3>1. \A i \in DOMAIN received[c] : received[c][i] \in Msgs
      BY <1>1, UnackedBounds
    <3>2. UnackedOf(c) \subseteq UnackedOf(c)'
      BY <3>1 DEF UnackedOf, KeepsUnacked, Msgs
    <3>3. InHand' \subseteq InHand \cup {None}
      BY <1>2, <1>3 DEF InHand
    <3>4. None \notin Msgs
      BY <1>1, LenProperties DEF TypeOK, Msgs, None
    <3> QED
      BY <3>1, <3>2, <3>3, <3>4 DEF Pledged, UnackedOf
  <2>5. q # f.queue /\ Live(q) = {} => Live(q)' = {}
    <3>1. ASSUME q # f.queue, NEW n, n \in Live(q)' PROVE n \in Live(q)
      <4>1. n \in Msgs' /\ msg'[n].queue = q /\ IsLive(msg'[n])
        BY <3>1 DEF Live, Ready, Expired, IsLive
      <4>2. n \in Msgs /\ IsLive(msg[n])
        BY <3>1, <4>1
      <4> QED
        BY <4>1, <4>2 DEF Live, Ready, Expired, IsLive, Evolves, Msgs
    <3> QED
      BY <3>1
  <2>6. KeepsAttention(q)
    <3>1. FramesOn(q)' = {} => FramesOn(q) = {} /\ q # f.queue
      BY <2>1
    <3> QED
      BY <2>1, <2>2, <2>3, <2>4, <2>5, <3>1 DEF KeepsAttention
  <2> QED
    BY <1>1, <2>6, AttentionKept
<1> QED
  BY <1>5, <1>6

LEMMA OneQueue ==
  ASSUME NEW q \in Queues
  PROVE  <<q>> \in Seq(Queues) /\ <<q>> # <<>> /\ Head(<<q>>) = q
<1>1. <<q>> \in Seq(Queues)
  OBVIOUS
<1>2. Head(<<q>>) = q
  OBVIOUS
<1>3. Len(<<q>>) = 1 /\ Len(<<>>) = 0
  OBVIOUS
<1> QED
  BY <1>1, <1>2, <1>3

-----------------------------------------------------------------------------
\* One lemma for each action.

LEMMA PublishIInv ==
  ASSUME IInv, NEW r \in Routes, Publish(r)
  PROVE  IInv' /\ Evolves(msg, msg', Nobody)
<1>1. TypeOK /\ Good(msg) /\ Homes
  BY DEF IInv
<1>2. r \in Seq(Queues) /\ r # <<>>
  BY RabbitAssumption DEF RabbitAssumption
<1>3. PICK q, f : /\ q = Head(r) /\ f = Dispatching(r) /\ f \in Frame'
                  /\ f.queue = q /\ f.at = 1 /\ f.msg = None /\ q \in Queues
  BY <1>1, <1>2, DispatchingType
<1>4. /\ Good(msg') /\ Evolves(msg, msg', Nobody) /\ KeepsUnacked(msg, msg')
      /\ \A n \in Msgs' : n \notin Msgs => msg'[n].queue = q /\ msg'[n].state = "ready"
      /\ \A n \in Msgs : n \in Msgs' /\ msg'[n] = msg[n]
  <2>1. PICK x, y : x = msg /\ y = msg' /\ Good(x)
    BY <1>1
  <2>2. y = Append(x, Fresh(q))
    BY <1>3, <2>1 DEF Publish, NewMessage, Fresh
  <2>3. Grown(x, y, q)
    BY <1>3, <2>1, <2>2, AppendOK
  <2> QED
    BY <2>1, <2>3 DEF Msgs, Grown, Fresh
<1>5. stack' = Append(stack, f)
  BY <1>3 DEF Publish
<1>6. UNCHANGED <<consumers, cancelled, received, timers, broken>>
  BY DEF Publish
<1>7. Msgs \subseteq Msgs'
  BY <1>4
<1>8. PICK size \in Nat : /\ DOMAIN stack = 1..size /\ DOMAIN stack' = 1..(size + 1)
                          /\ stack' \in Seq(Frame') /\ stack'[size + 1] = f
                          /\ \A j \in DOMAIN stack : stack'[j] = stack[j]
  BY <1>1, <1>3, <1>5, <1>7, StackGrows, StackFacts
<1>9. \A j \in DOMAIN stack' : AtHome(stack'[j], consumers', msg')
  <2>1. \A j \in DOMAIN stack : AtHome(stack[j], consumers', msg')
    BY <1>4, <1>6, FramesStayHome
  <2>2. AtHome(f, consumers', msg')
    BY <1>3 DEF AtHome
  <2>3. \A j \in DOMAIN stack' : j \in DOMAIN stack \/ j = size + 1
    BY <1>8
  <2> QED
    BY <1>8, <2>1, <2>2, <2>3
<1>10. \A m \in Msgs' : msg'[m].state = "requeued" => m \in timers'
  BY <1>1, <1>4, <1>6 DEF TypeOK
<1>11. TypeOK' /\ Homes' /\ Listed' /\ PrefetchHonoured'
  <2>1. timers' \subseteq Msgs'
    BY <1>1, <1>6, <1>7, Widened
  <2>2. /\ consumers' \in [Queues -> Seq(Consumers)] /\ broken' \subseteq Queues
        /\ \A a \in Queues : \A i \in DOMAIN consumers'[a] : option[consumers'[a][i]].queue = a
    BY <1>1, <1>6 DEF TypeOK, Homes
  <2> QED
    BY <1>4, <1>6, <1>8, <1>9, <1>10, <2>1, <2>2, Calm
<1>12. \A a \in Queues : Attended(a)'
  <2>1. \A n \in Msgs' : IsLive(msg'[n]) =>
          (n \in Msgs /\ IsLive(msg[n])) \/ msg'[n].queue = f.queue
    BY <1>3, <1>4
  <2> QED
    BY <1>3, <1>4, <1>5, <1>6, <1>7, <1>11, <2>1, Joins
<1> QED
  BY <1>4, <1>11, <1>12 DEF IInv

LEMMA ConsumeIInv ==
  ASSUME IInv, NEW c \in Consumers, Consume(c)
  PROVE  IInv' /\ msg' = msg
<1>1. TypeOK /\ Good(msg) /\ Homes
  BY DEF IInv
<1>2. PICK q \in Queues : q = option[c].queue
  BY RabbitAssumption DEF RabbitAssumption
<1>3. PICK r : r = <<q>> /\ r \in Seq(Queues) /\ r # <<>> /\ Head(r) = q
  BY OneQueue
<1>4. PICK f : /\ f = Dispatching(r) /\ f \in Frame'
               /\ f.queue = q /\ f.at = 1 /\ f.msg = None
  BY <1>1, <1>3, DispatchingType
<1>5. stack' = Append(stack, f)
  BY <1>2, <1>3, <1>4 DEF Consume, Dispatch
<1>6. UNCHANGED <<msg, cancelled, received, timers, broken>>
  BY DEF Consume
<1>7. Good(msg') /\ Evolves(msg, msg', Nobody) /\ KeepsUnacked(msg, msg') /\ Msgs' = Msgs
  BY <1>1, <1>6 DEF Evolves, KeepsUnacked, Msgs
<1>8. PICK size \in Nat : /\ DOMAIN stack = 1..size /\ DOMAIN stack' = 1..(size + 1)
                          /\ stack' \in Seq(Frame') /\ stack'[size + 1] = f
                          /\ \A j \in DOMAIN stack : stack'[j] = stack[j]
  BY <1>1, <1>4, <1>5, <1>7, StackGrows, StackFacts
<1>9. PICK x, y : /\ x = consumers[q] /\ y = Append(x, c)
                  /\ consumers' = [consumers EXCEPT ![q] = y]
  BY <1>2 DEF Consume
<1>10. /\ x \in Seq(Consumers) /\ y \in Seq(Consumers)
       /\ \A i \in DOMAIN x : i \in DOMAIN y /\ y[i] = x[i]
       /\ \A i \in DOMAIN y : i \in DOMAIN x \/ y[i] = c
  <2>1. x \in Seq(Consumers)
    BY <1>1, <1>9 DEF TypeOK
  <2>2. DOMAIN x = 1..Len(x) /\ Len(x) \in Nat
    BY <2>1, LenProperties
  <2>3. /\ y \in Seq(Consumers) /\ Len(y) = Len(x) + 1 /\ y[Len(x) + 1] = c
        /\ \A i \in 1..Len(x) : y[i] = x[i]
    BY <1>9, <2>1, AppendProperties
  <2>4. DOMAIN y = 1..(Len(x) + 1)
    BY <2>3, LenProperties
  <2>5. \A i \in DOMAIN x : i \in DOMAIN y
    BY <2>2, <2>4
  <2>6. \A i \in DOMAIN y : i \in DOMAIN x \/ i = Len(x) + 1
    BY <2>2, <2>4
  <2> QED
    BY <2>1, <2>2, <2>3, <2>5, <2>6
<1>11. /\ consumers' \in [Queues -> Seq(Consumers)]
       /\ consumers'[q] = y
       /\ \A a \in Queues : a # q => consumers'[a] = consumers[a]
  BY <1>1, <1>9, <1>10 DEF TypeOK
<1>12. \A a \in Queues : \A i \in DOMAIN consumers[a] :
         i \in DOMAIN consumers'[a] /\ consumers'[a][i] = consumers[a][i]
  BY <1>9, <1>10, <1>11
<1>13. \A a \in Queues : \A i \in DOMAIN consumers'[a] : option[consumers'[a][i]].queue = a
  <2>1. \A i \in DOMAIN y : option[y[i]].queue = q
    BY <1>1, <1>2, <1>9, <1>10 DEF Homes
  <2> QED
    BY <1>1, <1>11, <2>1 DEF Homes
<1>14. \A j \in DOMAIN stack' : AtHome(stack'[j], consumers', msg')
  <2>1. \A j \in DOMAIN stack : AtHome(stack[j], consumers', msg')
    BY <1>7, <1>12, FramesStayHome
  <2>2. AtHome(f, consumers', msg')
    BY <1>4 DEF AtHome
  <2>3. \A j \in DOMAIN stack' : j \in DOMAIN stack \/ j = size + 1
    BY <1>8
  <2> QED
    BY <1>8, <2>1, <2>2, <2>3
<1>15. TypeOK' /\ Homes' /\ Listed' /\ PrefetchHonoured'
  <2>1. timers' \subseteq Msgs' /\ broken' \subseteq Queues
    BY <1>1, <1>6, <1>7 DEF TypeOK
  <2>2. \A m \in Msgs' : msg'[m].state = "requeued" => m \in timers'
    BY <1>1, <1>6, <1>7 DEF TypeOK
  <2> QED
    BY <1>6, <1>7, <1>8, <1>11, <1>13, <1>14, <2>1, <2>2, Calm
<1>16. \A a \in Queues : Attended(a)'
  BY <1>4, <1>5, <1>6, <1>7, <1>11, <1>12, <1>15, Joins
<1> QED
  BY <1>6, <1>7, <1>15, <1>16 DEF IInv

LEMMA TimerFiresIInv ==
  ASSUME IInv, NEW m \in Msgs, TimerFires(m)
  PROVE  IInv' /\ Evolves(msg, msg', Nobody)
<1>1. TypeOK /\ Good(msg) /\ Homes
  BY DEF IInv
<1>2. PICK q \in Queues : q = msg[m].queue
  <2>1. msg \in Seq(Message) /\ m \in DOMAIN msg
    BY <1>1 DEF TypeOK, Msgs
  <2> QED
    BY <2>1, MessageType
<1>3. PICK r : r = <<q>> /\ r \in Seq(Queues) /\ r # <<>> /\ Head(r) = q
  BY OneQueue
<1>4. PICK f : /\ f = Dispatching(r) /\ f \in Frame'
               /\ f.queue = q /\ f.at = 1 /\ f.msg = None
  BY <1>1, <1>3, DispatchingType
<1>5. stack = <<>> /\ stack' = <<f>> /\ stack' = Append(stack, f)
  BY <1>2, <1>3, <1>4 DEF TimerFires, Dispatch
<1>6. UNCHANGED <<consumers, cancelled, received, broken>> /\ timers' = timers \ {m}
  BY DEF TimerFires
<1>7. /\ Good(msg') /\ Evolves(msg, msg', Nobody) /\ KeepsUnacked(msg, msg') /\ Msgs' = Msgs
      /\ \A n \in Msgs : n # m => msg'[n] = msg[n]
      /\ msg'[m].state # "requeued"
  <2>1. CASE BackToReady(m)
    <3>1. msg' = Freed(m, "ready") /\ msg[m].state = "requeued"
      BY <2>1 DEF TimerFires, BackToReady
    <3>2. PICK new : new = msg'
      OBVIOUS
    <3>3. /\ Good(new) /\ Evolves(msg, new, Nobody) /\ DOMAIN new = Msgs
          /\ new[m].state = "ready"
          /\ \A n \in Msgs : n # m => new[n] = msg[n]
      BY <1>1, <3>1, <3>2, FreedOK
    <3>4. KeepsUnacked(msg, new)
      BY <3>1, <3>3 DEF KeepsUnacked, Msgs
    <3> QED
      BY <3>2, <3>3, <3>4 DEF Msgs
  <2>2. CASE ~BackToReady(m)
    <3>1. msg' = msg /\ msg[m].state # "requeued"
      BY <2>2 DEF TimerFires, BackToReady
    <3> QED
      BY <1>1, <3>1 DEF Evolves, KeepsUnacked, Msgs
  <2> QED
    BY <2>1, <2>2
<1>8. /\ stack' \in Seq(Frame') /\ DOMAIN stack' = {1} /\ stack'[1] = f
  <2>1. PICK G : G = Frame'
    OBVIOUS
  <2>2. <<f>> \in Seq(G)
    BY <1>4, <2>1
  <2>3. Len(<<f>>) = 1 /\ <<f>>[1] = f
    OBVIOUS
  <2>4. DOMAIN <<f>> = {1}
    BY <2>2, <2>3, LenProperties
  <2> QED
    BY <1>5, <2>1, <2>2, <2>3, <2>4
<1>9. TypeOK' /\ Homes' /\ Listed' /\ PrefetchHonoured'
  <2>1. timers' \subseteq Msgs'
    BY <1>1, <1>6, <1>7 DEF TypeOK
  <2>2. \A n \in Msgs' : msg'[n].state = "requeued" => n \in timers'
    BY <1>1, <1>6, <1>7 DEF TypeOK
  <2>3. /\ consumers' \in [Queues -> Seq(Consumers)] /\ broken' \subseteq Queues
        /\ \A a \in Queues : \A i \in DOMAIN consumers'[a] : option[consumers'[a][i]].queue = a
    BY <1>1, <1>6 DEF TypeOK, Homes
  <2>4. \A j \in DOMAIN stack' : AtHome(stack'[j], consumers', msg')
    BY <1>4, <1>8 DEF AtHome
  <2> QED
    BY <1>6, <1>7, <1>8, <2>1, <2>2, <2>3, <2>4, Calm
<1>10. \A a \in Queues : Attended(a)'
  <2>1. \A n \in Msgs' : IsLive(msg'[n]) => (n \in Msgs /\ IsLive(msg[n])) \/ msg'[n].queue = f.queue
    BY <1>2, <1>4, <1>7 DEF Evolves, Msgs
  <2>2. \A n \in timers : n \in timers' \/ (stack = <<>> /\ msg[n].queue = f.queue)
    BY <1>2, <1>4, <1>5, <1>6
  <2>3. \A a \in Queues : \A i \in DOMAIN consumers[a] :
          i \in DOMAIN consumers'[a] /\ consumers'[a][i] = consumers[a][i]
    BY <1>6
  <2> QED
    BY <1>4, <1>5, <1>6, <1>7, <1>9, <2>1, <2>2, <2>3, Joins
<1> QED
  BY <1>7, <1>9, <1>10 DEF IInv

LEMMA GetIInv ==
  ASSUME IInv, NEW q \in Queues, NEW b \in BOOLEAN, Get(q, b) \/ GetNull(q)
  PROVE  IInv' /\ \E by \in {Poller, Nobody} : Evolves(msg, msg', by)
<1>1. TypeOK /\ Good(msg)
  BY DEF IInv
<1>2. PICK by \in {Poller, Nobody} :
        \E m : (m = None \/ IsNext(q, m)) /\ msg' = Popped(q, m, by)
  <2>1. CASE Get(q, b)
    <3>1. PICK m \in Msgs : /\ IsNext(q, m)
                            /\ msg' = Popped(q, m, IF b THEN Nobody ELSE Poller)
      BY <2>1 DEF Get
    <3> QED
      BY <3>1
  <2>2. CASE GetNull(q)
    BY <2>2 DEF GetNull
  <2> QED
    BY <2>1, <2>2
<1>3. PICK m : (m = None \/ IsNext(q, m)) /\ msg' = Popped(q, m, by)
  BY <1>2
<1>4. PICK new : new = msg'
  OBVIOUS
<1>5. /\ Good(new) /\ Evolves(msg, new, by) /\ KeepsUnacked(msg, new) /\ NoneGetsReady(msg, new)
      /\ Taken(new, m, by)
  BY <1>1, <1>3, <1>4, PoppedOK
<1>6. UNCHANGED <<consumers, cancelled, received, timers, stack, broken>>
  BY DEF Get, GetNull
<1>7. \A n \in Msgs' : msg'[n].state = "requeued" => n \in timers'
  <2>1. \A n \in Msgs : new[n].state = "requeued" => msg[n].state = "requeued"
    <3> SUFFICES ASSUME NEW n \in Msgs, new[n].state = "requeued" PROVE msg[n].state = "requeued"
      OBVIOUS
    <3>1. m \in Msgs => m # None
      BY <1>1, LenProperties DEF TypeOK, Msgs, None
    <3>2. n # m
      BY <1>5, <3>1 DEF Taken
    <3> QED
      BY <1>5, <3>2 DEF Taken
  <2> QED
    BY <1>1, <1>4, <1>5, <1>6, <2>1 DEF Taken, TypeOK, Msgs
<1>8. /\ cancelled \subseteq cancelled' /\ cancelled' \subseteq Consumers
      /\ timers \subseteq timers' /\ timers' \subseteq Msgs'
      /\ \A n \in Msgs : msg[n].state = "unacked" => msg'[n].state = "unacked" \/ n \in timers'
  BY <1>1, <1>4, <1>5, <1>6 DEF TypeOK, Taken, KeepsUnacked, Msgs
<1>9. IInv'
  BY <1>4, <1>5, <1>6, <1>7, <1>8, Aside
<1> QED
  BY <1>4, <1>5, <1>9

LEMMA SettleIInv ==
  ASSUME IInv, NEW m \in Msgs, NEW state \in {"acked", "nacked", "requeued"}, Settle(m, state)
  PROVE  IInv' /\ Evolves(msg, msg', Nobody)
<1>1. TypeOK /\ Good(msg)
  BY DEF IInv
<1>2. /\ msg' = Freed(m, state) /\ timers' = timers \cup {m} /\ msg[m].state = "unacked"
      /\ UNCHANGED <<consumers, cancelled, received, stack, broken>>
  BY DEF Settle, TimersAfter, IsOpen
<1>3. PICK new : new = msg'
  OBVIOUS
<1>4. /\ Good(new) /\ Evolves(msg, new, Nobody) /\ DOMAIN new = Msgs
      /\ new[m].state = state
      /\ \A n \in Msgs : n # m => new[n] = msg[n]
  BY <1>1, <1>2, <1>3, FreedOK
<1>5. /\ cancelled \subseteq cancelled' /\ cancelled' \subseteq Consumers
      /\ timers \subseteq timers' /\ timers' \subseteq Msgs'
  BY <1>1, <1>2, <1>3, <1>4 DEF TypeOK, Msgs
<1>6. \A n \in Msgs' : msg'[n].state = "requeued" => n \in timers'
  BY <1>1, <1>2, <1>3, <1>4 DEF TypeOK, Msgs
<1>7. NoneGetsReady(msg, new)
  BY <1>4 DEF NoneGetsReady, IsLive, Msgs
<1>8. \A n \in Msgs : msg[n].state = "unacked" => msg'[n].state = "unacked" \/ n \in timers'
  BY <1>2, <1>3, <1>4
<1>9. IInv'
  BY <1>2, <1>3, <1>4, <1>5, <1>6, <1>7, <1>8, Aside
<1> QED
  BY <1>3, <1>4, <1>9

LEMMA ExpiresIInv ==
  ASSUME IInv, NEW m \in Msgs, Expires(m)
  PROVE  IInv' /\ Evolves(msg, msg', Nobody)
<1>1. TypeOK /\ Good(msg)
  BY DEF IInv
<1>2. /\ msg' = [msg EXCEPT ![m] = [@ EXCEPT !.expired = TRUE]]
      /\ UNCHANGED <<consumers, cancelled, received, timers, stack, broken>>
  BY DEF Expires
<1>3. PICK r : r = [msg[m] EXCEPT !.expired = TRUE]
  OBVIOUS
<1>4. PICK new : new = msg' /\ new = [msg EXCEPT ![m] = r]
  BY <1>2, <1>3
<1>5. /\ Good(new) /\ Evolves(msg, new, Nobody) /\ DOMAIN new = Msgs
      /\ KeepsUnacked(msg, new) /\ NoneGetsReady(msg, new)
  <2>1. new = [n \in Msgs |-> new[n]]
    BY <1>4 DEF Msgs
  <2>2. \A n \in Msgs : new[n] = IF n = m THEN r ELSE msg[n]
    BY <1>4 DEF Msgs
  <2>3. \A n \in Msgs : \/ new[n] = msg[n]
                        \/ new[n] = [msg[n] EXCEPT !.expired = TRUE]
                        \/ new[n] = [msg[n] EXCEPT !.dropped = TRUE]
    BY <1>3, <2>2
  <2> QED
    BY <1>1, <2>1, <2>3, MarkedOK
<1>6. \A n \in Msgs : new[n].state = msg[n].state
  <2>1. \A n \in Msgs : msg[n] \in Message
    BY <1>1, MessageType DEF TypeOK, Msgs
  <2>2. r.state = msg[m].state
    BY <1>3, <2>1 DEF Message
  <2> QED
    BY <1>4, <2>2 DEF Msgs
<1>7. /\ cancelled \subseteq cancelled' /\ cancelled' \subseteq Consumers
      /\ timers \subseteq timers' /\ timers' \subseteq Msgs'
  BY <1>1, <1>2, <1>4, <1>5 DEF TypeOK, Msgs
<1>8. \A n \in Msgs' : msg'[n].state = "requeued" => n \in timers'
  BY <1>1, <1>2, <1>4, <1>5, <1>6 DEF TypeOK, Msgs
<1>9. IInv'
  <2>1. \A n \in Msgs : msg[n].state = "unacked" => msg'[n].state = "unacked" \/ n \in timers'
    BY <1>4, <1>6
  <2> QED
    BY <1>2, <1>4, <1>5, <1>7, <1>8, <2>1, Aside
<1> QED
  BY <1>4, <1>5, <1>9

LEMMA CancelIInv ==
  ASSUME IInv, NEW c \in Consumers, Cancel(c)
  PROVE  IInv' /\ msg' = msg
<1>1. TypeOK /\ Good(msg)
  BY DEF IInv
<1>2. /\ cancelled' = cancelled \cup {c}
      /\ UNCHANGED <<msg, consumers, received, timers, stack, broken>>
  BY DEF Cancel
<1>3. /\ Good(msg') /\ Evolves(msg, msg', Nobody) /\ NoneGetsReady(msg, msg')
  BY <1>1, <1>2 DEF Evolves, NoneGetsReady
<1>4. /\ cancelled \subseteq cancelled' /\ cancelled' \subseteq Consumers
      /\ timers \subseteq timers' /\ timers' \subseteq Msgs'
      /\ \A n \in Msgs' : msg'[n].state = "requeued" => n \in timers'
      /\ \A n \in Msgs : msg[n].state = "unacked" => msg'[n].state = "unacked" \/ n \in timers'
  BY <1>1, <1>2 DEF TypeOK, Msgs
<1> QED
  BY <1>2, <1>3, <1>4, Aside

LEMMA HandlerReturnsIInv ==
  ASSUME IInv, HandlerReturns
  PROVE  IInv' /\ Evolves(msg, msg', Nobody)
<1>1. TypeOK /\ Good(msg) /\ Homes /\ \A q \in Queues : Attended(q)
  BY DEF IInv
<1>2. PICK size, f : /\ size = Len(stack) /\ size \in DOMAIN stack /\ size \in Nat
                     /\ DOMAIN stack = 1..size /\ f = stack[size] /\ f = Top /\ f \in Frame
  BY <1>1, StackFacts DEF HandlerReturns
<1>3. /\ f.queue \in Queues /\ f.at \in Nat /\ f.inside \in BOOLEAN
      /\ f.msg \in Msgs /\ f.rest \in Seq(Queues)
  BY <1>2, FrameTypes DEF HandlerReturns
<1>4. msg[f.msg].queue = f.queue /\ f.at \in DOMAIN consumers[f.queue]
  <2>1. AtHome(f, consumers, msg)
    BY <1>1, <1>2 DEF Homes
  <2>2. f.msg # None
    BY <1>2 DEF HandlerReturns
  <2> QED
    BY <2>1, <2>2 DEF AtHome
<1>5. PICK g : g = [f EXCEPT !.msg = None]
  OBVIOUS
<1>6. g.queue = f.queue /\ g.at = f.at /\ g.msg = None /\ g \in Frame'
  BY <1>2, <1>3, <1>5 DEF Frame
<1>7. stack' = SetTop(g) /\ UNCHANGED <<consumers, cancelled, received, timers, broken>>
  BY <1>2, <1>5 DEF HandlerReturns
<1>8. /\ Good(msg') /\ Evolves(msg, msg', Nobody) /\ Msgs' = Msgs
      /\ \A n \in Msgs : n # f.msg => msg'[n] = msg[n]
      /\ \A n \in Msgs : msg'[n].state = "requeued" \/ IsLive(msg'[n]) => msg'[n] = msg[n]
  <2>1. CASE /\ option[consumers[f.queue][f.at]].noAck
             /\ msg[f.msg].state = "unacked"
    <3>1. msg' = Freed(f.msg, "acked")
      BY <1>2, <2>1 DEF HandlerReturns
    <3>2. PICK new : new = msg'
      OBVIOUS
    <3>3. /\ Good(new) /\ Evolves(msg, new, Nobody) /\ DOMAIN new = Msgs
          /\ new[f.msg].state = "acked"
          /\ \A n \in Msgs : n # f.msg => new[n] = msg[n]
      BY <1>1, <1>3, <2>1, <3>1, <3>2, FreedOK
    <3> QED
      BY <3>2, <3>3 DEF Msgs, IsLive
  <2>2. CASE ~(/\ option[consumers[f.queue][f.at]].noAck
               /\ msg[f.msg].state = "unacked")
    <3>1. msg' = msg
      BY <1>2, <2>2 DEF HandlerReturns
    <3> QED
      BY <1>1, <3>1 DEF Evolves, Msgs
  <2> QED
    BY <2>1, <2>2
<1>9. /\ stack' \in Seq(Frame') /\ DOMAIN stack' = DOMAIN stack
      /\ \A j \in DOMAIN stack : stack'[j] = IF j = size THEN g ELSE stack[j]
  <2>1. stack # <<>> /\ Msgs \subseteq Msgs'
    BY <1>8 DEF HandlerReturns
  <2> QED
    BY <1>1, <1>2, <1>6, <1>7, <2>1, StackTurns
<1>10. TypeOK' /\ Homes' /\ Listed' /\ PrefetchHonoured'
  <2>1. timers' \subseteq Msgs' /\ broken' \subseteq Queues
    BY <1>1, <1>7, <1>8 DEF TypeOK
  <2>2. \A n \in Msgs' : msg'[n].state = "requeued" => n \in timers'
    BY <1>1, <1>7, <1>8 DEF TypeOK
  <2>3. /\ consumers' \in [Queues -> Seq(Consumers)]
        /\ \A a \in Queues : \A i \in DOMAIN consumers'[a] : option[consumers'[a][i]].queue = a
    BY <1>1, <1>7 DEF TypeOK, Homes
  <2>4. \A j \in DOMAIN stack' : AtHome(stack'[j], consumers', msg')
    <3>1. \A j \in DOMAIN stack : AtHome(stack[j], consumers', msg')
      BY <1>7, <1>8, FramesStayHome
    <3>2. AtHome(g, consumers', msg')
      BY <1>4, <1>6, <1>7 DEF AtHome
    <3> QED
      BY <1>9, <3>1, <3>2
  <2> QED
    BY <1>7, <1>8, <1>9, <2>1, <2>2, <2>3, <2>4, Calm
<1>11. ASSUME NEW q \in Queues PROVE KeepsAttention(q)
  <2>1. FramesOn(q)' = FramesOn(q) /\ \A j \in DOMAIN stack : stack'[j].at = stack[j].at
    BY <1>2, <1>6, <1>9 DEF FramesOn
  <2>2. InHand' \subseteq InHand \cup {None} /\ f.msg \in InHand
    BY <1>2, <1>6, <1>9 DEF InHand
  <2>3. TimerOn(q) => TimerOn(q)'
    BY <1>1, <1>7, <1>8 DEF TimerOn, TypeOK, Evolves, Msgs
  <2>4. Live(q) = {} => Live(q)' = {}
    <3>1. ASSUME NEW n, n \in Live(q)' PROVE n \in Live(q)
      <4>1. n \in Msgs' /\ msg'[n].queue = q /\ IsLive(msg'[n])
        BY <3>1 DEF Live, Ready, Expired, IsLive
      <4>2. n \in Msgs /\ msg'[n] = msg[n]
        BY <1>8, <4>1
      <4> QED
        BY <4>1, <4>2 DEF Live, Ready, Expired, IsLive
    <3> QED
      BY <3>1
  <2>5. ASSUME NEW c \in Consumers, option[c].queue = q
        PROVE  /\ Pledged(c) \subseteq Pledged(c)'
               /\ q # f.queue => UnackedOf(c) \subseteq UnackedOf(c)'
    <3>1. \A i \in DOMAIN received[c] : received[c][i] \in Msgs /\ msg[received[c][i]].queue = q
      BY <1>1, <2>5, UnackedBounds DEF Homes
    <3>2. None \notin Msgs
      BY <1>1, LenProperties DEF TypeOK, Msgs, None
    <3>3. Pledged(c) \subseteq Pledged(c)'
      <4>1. ASSUME NEW i \in Pledged(c) PROVE i \in Pledged(c)'
        <5>1. /\ i \in DOMAIN received[c] /\ received[c][i] \in Msgs /\ received[c][i] \notin InHand
              /\ msg[received[c][i]].state = "unacked"
          BY <3>1, <4>1 DEF Pledged, UnackedOf
        <5>2. msg'[received[c][i]] = msg[received[c][i]]
          BY <1>8, <2>2, <5>1
        <5> QED
          BY <1>7, <2>2, <3>2, <5>1, <5>2 DEF Pledged, UnackedOf
      <4> QED
        BY <4>1
    <3>4. ASSUME q # f.queue, NEW i \in UnackedOf(c) PROVE i \in UnackedOf(c)'
      <4>1. /\ i \in DOMAIN received[c] /\ msg[received[c][i]].state = "unacked"
            /\ received[c][i] \in Msgs /\ received[c][i] # f.msg
        BY <1>4, <3>1, <3>4 DEF UnackedOf
      <4>2. msg'[received[c][i]] = msg[received[c][i]]
        BY <1>8, <4>1
      <4> QED
        BY <1>7, <4>1, <4>2 DEF UnackedOf
    <3> QED
      BY <3>3, <3>4
  <2>6. FramesOn(q)' = {} => FramesOn(q) = {} /\ q # f.queue
    BY <1>2, <2>1 DEF FramesOn
  <2>7. \A l \in FramesOn(q)' : l \in FramesOn(q) /\ stack'[l].at = stack[l].at
    BY <2>1 DEF FramesOn
  <2> QED
    BY <1>7, <2>1, <2>3, <2>4, <2>5, <2>6, <2>7 DEF KeepsAttention
<1>12. \A q \in Queues : Attended(q)'
  BY <1>1, <1>10, <1>11, AttentionKept
<1> QED
  BY <1>8, <1>10, <1>12 DEF IInv

LEMMA HandlerThrowsIInv ==
  ASSUME IInv, HandlerThrows
  PROVE  IInv' /\ msg' = msg
<1>1. TypeOK /\ Good(msg) /\ Homes /\ \A q \in Queues : Attended(q)
  BY DEF IInv
<1>2. PICK size, f : /\ size = Len(stack) /\ size \in DOMAIN stack /\ size \in Nat
                     /\ DOMAIN stack = 1..size /\ f = stack[size] /\ f = Top /\ f \in Frame
  BY <1>1, StackFacts DEF HandlerThrows
<1>3. /\ stack' = Front(stack) /\ broken' = broken \cup {f.queue} /\ stack # <<>>
      /\ UNCHANGED <<msg, consumers, cancelled, received, timers>>
  BY <1>2 DEF HandlerThrows
<1>4. Good(msg') /\ Evolves(msg, msg', Nobody) /\ Msgs' = Msgs
  BY <1>1, <1>3 DEF Evolves, Msgs
<1>5. /\ stack' \in Seq(Frame') /\ DOMAIN stack' = 1..(size - 1)
      /\ \A j \in DOMAIN stack' : j \in DOMAIN stack /\ stack'[j] = stack[j]
  BY <1>1, <1>2, <1>3, <1>4, StackShrinks
<1>6. TypeOK' /\ Homes' /\ Listed' /\ PrefetchHonoured'
  <2>1. timers' \subseteq Msgs' /\ broken' \subseteq Queues
    BY <1>1, <1>2, <1>3, <1>4, FrameTypes DEF TypeOK
  <2>2. \A n \in Msgs' : msg'[n].state = "requeued" => n \in timers'
    BY <1>1, <1>3, <1>4 DEF TypeOK
  <2>3. /\ consumers' \in [Queues -> Seq(Consumers)]
        /\ \A a \in Queues : \A i \in DOMAIN consumers'[a] : option[consumers'[a][i]].queue = a
    BY <1>1, <1>3 DEF TypeOK, Homes
  <2>4. \A j \in DOMAIN stack' : AtHome(stack'[j], consumers', msg')
    <3>1. \A j \in DOMAIN stack : AtHome(stack[j], consumers', msg')
      BY <1>3, <1>4, FramesStayHome
    <3> QED
      BY <1>5, <3>1
  <2> QED
    BY <1>3, <1>4, <1>5, <2>1, <2>2, <2>3, <2>4, Calm
<1>7. ASSUME NEW q \in Queues PROVE KeepsAttention(q)
  <2>1. /\ \A l \in FramesOn(q)' : l \in FramesOn(q) /\ stack'[l].at = stack[l].at /\ l <= size
        /\ \A l \in FramesOn(q) : l \in FramesOn(q)' \/ l = size
    BY <1>2, <1>5 DEF FramesOn
  <2>2. FramesOn(q)' = {} => q \in broken' \/ FramesOn(q) = {}
    <3>1. ASSUME FramesOn(q)' = {}, FramesOn(q) # {} PROVE q \in broken'
      <4>1. size \in FramesOn(q)
        BY <2>1, <3>1
      <4> QED
        BY <1>2, <1>3, <4>1 DEF FramesOn
    <3> QED
      BY <3>1
  <2>3. (TimerOn(q) => TimerOn(q)') /\ Live(q)' = Live(q)
    BY <1>3, <1>4 DEF TimerOn, Live, Ready, Expired
  <2>4. ASSUME NEW c \in Consumers
        PROVE  Pledged(c) \subseteq Pledged(c)' /\ UnackedOf(c) \subseteq UnackedOf(c)'
    <3>1. InHand' \subseteq InHand
      BY <1>5 DEF InHand
    <3>2. UnackedOf(c)' = UnackedOf(c)
      BY <1>3 DEF UnackedOf
    <3> QED
      BY <1>3, <3>1, <3>2 DEF Pledged
  <2>5. \A l \in FramesOn(q)', j \in FramesOn(q) : j \in FramesOn(q)' \/ l <= j
    BY <2>1
  <2> QED
    BY <1>3, <2>1, <2>2, <2>3, <2>4, <2>5 DEF KeepsAttention
<1>8. \A q \in Queues : Attended(q)'
  BY <1>1, <1>6, <1>7, AttentionKept
<1> QED
  BY <1>3, <1>4, <1>6, <1>8 DEF IInv

\* The innermost dispatch leaves its queue: it is over, or stands at the
\* beginning of a dispatch on the next queue of its publish.
LEMMA Leaves ==
  ASSUME IInv, TypeOK', DispatchRuns, NoTurn(Top) \/ Live(Top.queue) = {},
         Msgs \subseteq Msgs', Evolves(msg, msg', Nobody), KeepsUnacked(msg, msg'),
         UNCHANGED <<consumers, cancelled, received, timers>>,
         broken' = broken \ {Top.queue},
         \A j \in DOMAIN stack : j # Len(stack) => j \in DOMAIN stack' /\ stack'[j] = stack[j],
         \A j \in DOMAIN stack' : j \in DOMAIN stack,
         Len(stack) \in DOMAIN stack' =>
           stack'[Len(stack)].at = 1 /\ stack'[Len(stack)].msg = None,
         \A n \in Msgs' : IsLive(msg'[n]) =>
           \/ n \in Msgs /\ IsLive(msg[n])
           \/ Len(stack) \in DOMAIN stack' /\ stack'[Len(stack)].queue = msg'[n].queue
  PROVE  \A q \in Queues : Attended(q)'
<1> SUFFICES ASSUME NEW q \in Queues PROVE Attended(q)'
  OBVIOUS
<1>1. TypeOK /\ Homes /\ Attended(q)
  BY DEF IInv
<1>2. PICK size, f : /\ size = Len(stack) /\ size \in DOMAIN stack /\ size \in Nat
                     /\ DOMAIN stack = 1..size /\ f = stack[size] /\ f = Top /\ f \in Frame
                     /\ f.msg = None
  BY <1>1, StackFacts DEF DispatchRuns
<1>3. /\ \A l \in FramesOn(q)' : l \in 1..size
      /\ \A l \in FramesOn(q)' : l = size \/ (l \in FramesOn(q) /\ stack'[l].at = stack[l].at)
      /\ \A l \in FramesOn(q)' : l = size => stack'[l].at = 1
      /\ \A l \in FramesOn(q) : l \in 1..size /\ (l = size \/ l \in FramesOn(q)')
  BY <1>2 DEF FramesOn
<1>4. TimerOn(q) => TimerOn(q)'
  BY <1>1 DEF TimerOn, TypeOK, Evolves, Msgs
<1>5. ASSUME NEW c \in Consumers
      PROVE  Pledged(c) \subseteq Pledged(c)' /\ UnackedOf(c) \subseteq UnackedOf(c)'
  <2>1. \A i \in DOMAIN received[c] : received[c][i] \in Msgs
    BY <1>1, UnackedBounds
  <2>2. UnackedOf(c) \subseteq UnackedOf(c)'
    BY <2>1 DEF UnackedOf, KeepsUnacked, Msgs
  <2>3. InHand' \subseteq InHand \cup {None}
    <3>1. \A j \in DOMAIN stack' : j = size \/ stack'[j] = stack[j]
      BY <1>2
    <3> QED
      BY <1>2, <3>1 DEF InHand
  <2>4. None \notin Msgs
    BY <1>1, LenProperties DEF TypeOK, Msgs, None
  <2> QED
    BY <2>1, <2>2, <2>3, <2>4 DEF Pledged, UnackedOf
<1>6. FramesOn(q)' = {} /\ Live(q) = {} => Live(q)' = {}
  <2>1. ASSUME FramesOn(q)' = {}, NEW n, n \in Live(q)' PROVE n \in Live(q)
    <3>1. n \in Msgs' /\ msg'[n].queue = q /\ IsLive(msg'[n])
      BY <2>1 DEF Live, Ready, Expired, IsLive
    <3>2. n \in Msgs /\ IsLive(msg[n])
      BY <1>2, <2>1, <3>1 DEF FramesOn
    <3> QED
      BY <3>1, <3>2 DEF Live, Ready, Expired, IsLive, Evolves, Msgs
  <2> QED
    BY <2>1
<1>7. CASE FramesOn(q)' = {} /\ q = f.queue
  <2>1. size \in FramesOn(q) /\ \A j \in FramesOn(q) : size <= j
    <3>1. size \in FramesOn(q)
      BY <1>2, <1>7 DEF FramesOn
    <3>2. \A j \in FramesOn(q) : j = size
      BY <1>3, <1>7
    <3> QED
      BY <1>2, <3>1, <3>2
  <2>2. \/ TimerOn(q)
        \/ \A i \in DOMAIN consumers[q] : i < f.at =>
             consumers[q][i] \in cancelled \/ StaysFull(consumers[q][i])
    BY <1>1, <1>2, <2>1 DEF Attended
  <2>3. CASE TimerOn(q)
    BY <1>4, <1>7, <2>3 DEF Attended
  <2>4. CASE Live(q) = {}
    BY <1>6, <1>7, <2>4 DEF Attended
  <2>5. CASE ~TimerOn(q) /\ NoTurn(f)
    <3>1. consumers[q] \in Seq(Consumers)
      BY <1>1 DEF TypeOK
    <3>2. DOMAIN consumers[q] = 1..Len(consumers[q]) /\ Len(consumers[q]) \in Nat
      BY <3>1, LenProperties
    <3>3. ASSUME NEW i \in DOMAIN consumers[q] PROVE ~CanTake(consumers[q][i])'
      <4>1. PICK c \in Consumers : c = consumers[q][i]
        BY <3>1, <3>2, <3>3, ElementOfSeq
      <4>2. c \in cancelled \/ Full(c)
        <5>1. CASE i < f.at
          <6>1. c \in cancelled \/ StaysFull(c)
            BY <2>2, <2>5, <4>1, <5>1
          <6>2. StaysFull(c) => Full(c)
            <7>1. PICK S, T, size2 : S = Pledged(c) /\ T = UnackedOf(c) /\ size2 = Len(received[c])
              OBVIOUS
            <7>2. T \subseteq 1..size2 /\ S \subseteq T /\ size2 \in Nat
                  /\ option[c].prefetch \in Nat
              BY <1>1, <7>1, UnackedBounds
            <7>3. /\ Cardinality(S) \in Nat /\ Cardinality(T) \in Nat
                  /\ Cardinality(S) <= Cardinality(T)
              BY <7>2, PartIsSmaller
            <7> QED
              BY <7>1, <7>2, <7>3 DEF StaysFull, Full
          <6> QED
            BY <6>1, <6>2
        <5>2. CASE ~(i < f.at)
          <6>1. f.at \in Nat
            BY FrameTypes, <1>2
          <6>2. i \in f.at..Len(consumers[q])
            BY <3>2, <3>3, <5>2, <6>1
          <6>3. Skips(f, i)
            BY <1>7, <2>5, <6>2 DEF NoTurn
          <6> QED
            BY <1>7, <4>1, <6>3 DEF Skips
        <5> QED
          BY <5>1, <5>2
      <4>3. c \in cancelled' \/ Full(c)'
        BY <1>5, <4>2, FullStays
      <4> QED
        BY <4>1, <4>3 DEF CanTake
    <3> QED
      BY <1>7, <3>3 DEF Attended
  <2> QED
    BY <1>2, <1>7, <2>3, <2>4, <2>5
<1>8. CASE ~(FramesOn(q)' = {} /\ q = f.queue)
  <2>1. FramesOn(q)' = {} => FramesOn(q) = {} /\ (q \in broken => q \in broken')
    <3>1. ASSUME FramesOn(q)' = {} PROVE FramesOn(q) = {}
      <4>1. q # f.queue
        BY <1>8, <3>1
      <4>2. size \notin FramesOn(q)
        BY <1>2, <4>1 DEF FramesOn
      <4> QED
        BY <1>3, <3>1, <4>2
    <3> QED
      BY <1>2, <1>8, <3>1
  <2>2. \A l \in FramesOn(q)', j \in FramesOn(q) : j \in FramesOn(q)' \/ l <= j
    BY <1>2, <1>3
  <2>3. KeepsAttention(q)
    BY <1>3, <1>4, <1>5, <1>6, <2>1, <2>2 DEF KeepsAttention
  <2> QED
    BY <1>1, <2>3, AttentionKept
<1> QED
  BY <1>7, <1>8

LEMMA DispatchEndsIInv ==
  ASSUME IInv, DispatchEnds
  PROVE  IInv' /\ Evolves(msg, msg', Nobody)
<1>1. TypeOK /\ Good(msg) /\ Homes
  BY DEF IInv
<1>2. PICK size, f : /\ size = Len(stack) /\ size \in DOMAIN stack /\ size \in Nat
                     /\ DOMAIN stack = 1..size /\ f = stack[size] /\ f = Top /\ f \in Frame
                     /\ stack # <<>> /\ DispatchRuns
  BY <1>1, StackFacts DEF DispatchEnds, DispatchRuns
<1>3. f.queue \in Queues /\ f.rest \in Seq(Queues)
  BY <1>2, FrameTypes
<1>4. PICK over : /\ over = IF NoTurn(f) THEN msg ELSE Popped(f.queue, None, Nobody)
                  /\ IF f.rest = <<>>
                     THEN msg' = over /\ stack' = Front(stack)
                     ELSE /\ msg' = Append(over, NewMessage(f.rest))
                          /\ stack' = SetTop(Dispatching(f.rest))
  BY <1>2 DEF DispatchEnds
<1>5. /\ NoTurn(Top) \/ Live(Top.queue) = {}
      /\ UNCHANGED <<consumers, cancelled, received, timers>>
      /\ broken' = broken \ {Top.queue}
  BY DEF DispatchEnds
<1>6. /\ Good(over) /\ Evolves(msg, over, Nobody) /\ KeepsUnacked(msg, over) /\ DOMAIN over = Msgs
      /\ NoneGetsReady(msg, over)
      /\ \A n \in Msgs : over[n].state = "requeued" => msg[n].state = "requeued"
  <2>1. CASE over = msg
    BY <1>1, <2>1 DEF Evolves, KeepsUnacked, NoneGetsReady, Msgs
  <2>2. CASE over = Popped(f.queue, None, Nobody)
    <3>1. /\ Good(over) /\ Evolves(msg, over, Nobody) /\ KeepsUnacked(msg, over)
          /\ NoneGetsReady(msg, over) /\ Taken(over, None, Nobody)
      BY <1>1, <2>2, PoppedOK
    <3>2. None \notin Msgs
      BY <1>1, LenProperties DEF TypeOK, Msgs, None
    <3>3. \A n \in Msgs : over[n].state = "requeued" => msg[n].state = "requeued"
      <4> SUFFICES ASSUME NEW n \in Msgs, over[n].state = "requeued"
                   PROVE  msg[n].state = "requeued"
        OBVIOUS
      <4>1. n # None
        BY <3>2
      <4> QED
        BY <3>1, <4>1 DEF Taken
    <3> QED
      BY <3>1, <3>3 DEF Taken
  <2> QED
    BY <1>4, <2>1, <2>2
<1>7. CASE f.rest = <<>>
  <2>1. msg' = over /\ stack' = Front(stack)
    BY <1>4, <1>7
  <2>2. /\ Good(msg') /\ Evolves(msg, msg', Nobody) /\ KeepsUnacked(msg, msg') /\ Msgs' = Msgs
        /\ NoneGetsReady(msg, msg')
    BY <1>6, <2>1 DEF Msgs
  <2>3. /\ stack' \in Seq(Frame') /\ DOMAIN stack' = 1..(size - 1)
        /\ \A j \in DOMAIN stack' : j \in DOMAIN stack /\ stack'[j] = stack[j]
    BY <1>1, <1>2, <2>1, <2>2, StackShrinks
  <2>4. TypeOK' /\ Homes' /\ Listed' /\ PrefetchHonoured'
    <3>1. timers' \subseteq Msgs' /\ broken' \subseteq Queues
      BY <1>1, <1>5, <2>2 DEF TypeOK
    <3>2. \A n \in Msgs' : msg'[n].state = "requeued" => n \in timers'
      BY <1>1, <1>5, <1>6, <2>1, <2>2 DEF TypeOK
    <3>3. /\ consumers' \in [Queues -> Seq(Consumers)]
          /\ \A a \in Queues : \A i \in DOMAIN consumers'[a] : option[consumers'[a][i]].queue = a
      BY <1>1, <1>5 DEF TypeOK, Homes
    <3>4. \A j \in DOMAIN stack' : AtHome(stack'[j], consumers', msg')
      <4>1. \A j \in DOMAIN stack : AtHome(stack[j], consumers', msg')
        BY <1>5, <2>2, FramesStayHome
      <4> QED
        BY <2>3, <4>1
    <3> QED
      BY <1>5, <2>2, <2>3, <3>1, <3>2, <3>3, <3>4, Calm
  <2>5. \A q \in Queues : Attended(q)'
    <3>1. size \notin DOMAIN stack'
      BY <1>2, <2>3
    <3>2. \A j \in DOMAIN stack : j # Len(stack) => j \in DOMAIN stack' /\ stack'[j] = stack[j]
      BY <1>2, <2>3
    <3>3. \A n \in Msgs' : IsLive(msg'[n]) => n \in Msgs /\ IsLive(msg[n])
      BY <2>2 DEF NoneGetsReady, Msgs
    <3> QED
      BY <1>2, <1>5, <2>2, <2>3, <2>4, <3>1, <3>2, <3>3, Leaves
  <2> QED
    BY <2>2, <2>4, <2>5 DEF IInv
<1>8. CASE f.rest # <<>>
  <2>1. PICK q, g : /\ q = Head(f.rest) /\ g = Dispatching(f.rest) /\ g \in Frame'
                    /\ g.queue = q /\ g.at = 1 /\ g.msg = None /\ q \in Queues
    BY <1>1, <1>3, <1>8, DispatchingType
  <2>2. /\ Good(msg') /\ Evolves(msg, msg', Nobody) /\ KeepsUnacked(msg, msg') /\ Msgs \subseteq Msgs'
        /\ \A n \in Msgs : msg'[n] = over[n]
        /\ \A n \in Msgs' : n \notin Msgs => msg'[n].queue = q /\ msg'[n].state = "ready"
    <3>1. PICK y : y = msg' /\ y = Append(over, NewMessage(f.rest))
      BY <1>4, <1>8
    <3>2. y = Append(over, Fresh(q))
      BY <2>1, <3>1 DEF NewMessage, Fresh
    <3>3. Grown(over, y, q)
      BY <1>6, <2>1, <3>2, AppendOK
    <3>4. /\ Good(y) /\ Evolves(over, y, Nobody) /\ KeepsUnacked(over, y)
          /\ \A n \in Msgs : n \in DOMAIN y /\ y[n] = over[n]
          /\ \A n \in DOMAIN y : n \notin Msgs => y[n].queue = q /\ y[n].state = "ready"
      BY <1>6, <3>3 DEF Grown, Fresh
    <3>5. Evolves(msg, y, Nobody)
      BY <1>1, <1>6, <3>4, EvolvesTrans
    <3>6. KeepsUnacked(msg, y)
      BY <1>6, <3>4 DEF KeepsUnacked, Msgs
    <3> QED
      BY <3>1, <3>4, <3>5, <3>6 DEF Msgs
  <2>3. /\ stack' \in Seq(Frame') /\ DOMAIN stack' = DOMAIN stack
        /\ \A j \in DOMAIN stack : stack'[j] = IF j = size THEN g ELSE stack[j]
    BY <1>1, <1>2, <1>4, <1>8, <2>1, <2>2, StackTurns
  <2>4. TypeOK' /\ Homes' /\ Listed' /\ PrefetchHonoured'
    <3>1. timers' \subseteq Msgs' /\ broken' \subseteq Queues
      BY <1>1, <1>5, <2>2 DEF TypeOK
    <3>2. \A n \in Msgs' : msg'[n].state = "requeued" => n \in timers'
      BY <1>1, <1>5, <1>6, <2>2 DEF TypeOK
    <3>3. /\ consumers' \in [Queues -> Seq(Consumers)]
          /\ \A a \in Queues : \A i \in DOMAIN consumers'[a] : option[consumers'[a][i]].queue = a
      BY <1>1, <1>5 DEF TypeOK, Homes
    <3>4. \A j \in DOMAIN stack' : AtHome(stack'[j], consumers', msg')
      <4>1. \A j \in DOMAIN stack : AtHome(stack[j], consumers', msg')
        BY <1>5, <2>2, FramesStayHome
      <4>2. AtHome(g, consumers', msg')
        BY <2>1 DEF AtHome
      <4> QED
        BY <2>3, <4>1, <4>2
    <3> QED
      BY <1>5, <2>2, <2>3, <3>1, <3>2, <3>3, <3>4, Calm
  <2>5. \A a \in Queues : Attended(a)'
    <3>1. /\ size \in DOMAIN stack' /\ stack'[size] = g
          /\ \A j \in DOMAIN stack : j # Len(stack) => j \in DOMAIN stack' /\ stack'[j] = stack[j]
          /\ \A j \in DOMAIN stack' : j \in DOMAIN stack
      BY <1>2, <2>3
    <3>2. \A n \in Msgs' : IsLive(msg'[n]) =>
            \/ n \in Msgs /\ IsLive(msg[n])
            \/ Len(stack) \in DOMAIN stack' /\ stack'[Len(stack)].queue = msg'[n].queue
      <4> SUFFICES ASSUME NEW n \in Msgs', IsLive(msg'[n]), n \in Msgs
                   PROVE  IsLive(msg[n])
        BY <1>2, <2>1, <2>2, <3>1
      <4> QED
        BY <1>6, <2>2 DEF NoneGetsReady
    <3> QED
      BY <1>2, <1>5, <2>1, <2>2, <2>4, <3>1, <3>2, Leaves
  <2> QED
    BY <2>2, <2>4, <2>5 DEF IInv
<1> QED
  BY <1>7, <1>8

\* Whom a dispatch can give a message holds fewer than prefetch.
LEMMA HasRoomLeft ==
  ASSUME TypeOK, Listed, NEW c \in Consumers
  PROVE  /\ IsFiniteSet(Held(c)) /\ Cardinality(Held(c)) \in Nat
         /\ Cardinality(UnackedOf(c)) \in Nat
         /\ Cardinality(Held(c)) <= Cardinality(UnackedOf(c))
<1>1. PICK S, T, size : S = Held(c) /\ T = UnackedOf(c) /\ size = Len(received[c])
  OBVIOUS
<1>2. T \subseteq 1..size /\ size \in Nat
  BY <1>1, UnackedBounds
<1>3. IsFiniteSet(T) /\ Cardinality(T) \in Nat
  BY <1>2, PartIsSmaller
<1>4. \A m \in S : \E i \in T : received[c][i] = m
  <2> SUFFICES ASSUME NEW m \in S PROVE \E i \in T : received[c][i] = m
    OBVIOUS
  <2>1. m \in Msgs /\ msg[m].state = "unacked" /\ msg[m].by = c /\ ~msg[m].dropped
    BY <1>1 DEF Held
  <2>2. PICK i \in DOMAIN received[c] : received[c][i] = m
    BY <2>1 DEF Listed
  <2> QED
    BY <1>1, <2>1, <2>2 DEF UnackedOf
<1>5. PICK at : at = [m \in S |-> CHOOSE i \in T : received[c][i] = m]
  OBVIOUS
<1>6. \A m \in S : at[m] \in T /\ received[c][at[m]] = m
  BY <1>4, <1>5
<1>7. at \in [S -> T]
  BY <1>5, <1>6
<1>8. \A m, n \in S : at[m] = at[n] => m = n
  BY <1>6
<1>9. at \in Injection(S, T)
  BY <1>7, <1>8 DEF Injection, IsInjective
<1>10. IsFiniteSet(S) /\ Cardinality(S) <= Cardinality(T)
  BY <1>3, <1>9, FS_Injection
<1> QED
  BY <1>1, <1>3, <1>10, FS_CardinalityType

\* A dispatch that is lowest on its queue, and in whose hands there is no
\* message, finds nobody full for the sake of a message in other hands.
LEMMA FullToTheLowest ==
  ASSUME TypeOK, Homes, DispatchRuns, \A j \in FramesOn(Top.queue) : Len(stack) <= j,
         NEW c \in Consumers, option[c].queue = Top.queue, Full(c)
  PROVE  StaysFull(c)
<1>1. PICK size, f : /\ size = Len(stack) /\ size \in DOMAIN stack /\ size \in Nat
                     /\ DOMAIN stack = 1..size /\ f = stack[size] /\ f = Top /\ f.msg = None
  BY StackFacts DEF DispatchRuns
<1>2. ASSUME NEW i \in UnackedOf(c) PROVE received[c][i] \notin InHand
  <2> SUFFICES ASSUME NEW j \in DOMAIN stack, stack[j].msg = received[c][i] PROVE FALSE
    BY DEF InHand
  <2>1. i \in DOMAIN received[c] /\ received[c][i] \in Msgs /\ msg[received[c][i]].queue = f.queue
    BY <1>1, UnackedBounds DEF UnackedOf, Homes
  <2>2. None \notin Msgs
    BY LenProperties DEF TypeOK, Msgs, None
  <2>3. stack[j].msg # None
    BY <2>1, <2>2
  <2>4. stack[j].queue = f.queue
    <3>1. AtHome(stack[j], consumers, msg)
      BY DEF Homes
    <3> QED
      BY <2>1, <2>3, <3>1 DEF AtHome
  <2>5. j = size
    BY <1>1, <2>4 DEF FramesOn
  <2> QED
    BY <1>1, <2>3, <2>5
<1>3. Pledged(c) = UnackedOf(c)
  BY <1>2 DEF Pledged
<1> QED
  BY <1>3 DEF Full, StaysFull

LEMMA DeliverIInv ==
  ASSUME IInv, Deliver
  PROVE  IInv' /\ \E by \in Consumers : Evolves(msg, msg', by)
<1>1. TypeOK /\ Good(msg) /\ Homes /\ Listed /\ PrefetchHonoured
  BY DEF IInv
<1>2. PICK size, f : /\ size = Len(stack) /\ size \in DOMAIN stack /\ size \in Nat
                     /\ DOMAIN stack = 1..size /\ f = stack[size] /\ f = Top /\ f \in Frame
                     /\ f.msg = None /\ stack # <<>> /\ DispatchRuns
  BY <1>1, StackFacts DEF Deliver, DispatchRuns
<1>3. /\ f.queue \in Queues /\ f.at \in Nat /\ f.inside \in BOOLEAN /\ f.rest \in Seq(Queues)
  BY <1>2, FrameTypes
<1>4. PICK q \in Queues : q = f.queue
  BY <1>3
<1>5. PICK i \in DOMAIN consumers[q], m \in Msgs :
        /\ IsTurnOf(f, i) /\ IsNext(q, m)
        /\ msg' = Popped(q, m, consumers[q][i])
        /\ received' = [received EXCEPT ![consumers[q][i]] = Append(@, m)]
        /\ stack' = SetTop([f EXCEPT !.at = i, !.inside = TRUE, !.msg = m])
  BY <1>2, <1>4 DEF Deliver
<1>6. UNCHANGED <<consumers, cancelled, timers, broken>>
  BY DEF Deliver
<1>7. /\ DOMAIN consumers[q] = 1..Len(consumers[q]) /\ Len(consumers[q]) \in Nat
      /\ \A k \in DOMAIN consumers[q] :
           consumers[q][k] \in Consumers /\ option[consumers[q][k]].queue = q
  <2>1. consumers[q] \in Seq(Consumers)
    BY <1>1 DEF TypeOK
  <2>2. DOMAIN consumers[q] = 1..Len(consumers[q]) /\ Len(consumers[q]) \in Nat
    BY <2>1, LenProperties
  <2>3. \A k \in DOMAIN consumers[q] : consumers[q][k] \in Consumers
    BY <2>1, <2>2, ElementOfSeq
  <2> QED
    BY <1>1, <2>2, <2>3 DEF Homes
<1>8. PICK c \in Consumers : c = consumers[q][i] /\ option[c].queue = q
  BY <1>7
<1>9. PICK new : new = msg'
  OBVIOUS
<1>10. m # None /\ m \in Nat /\ None \notin Msgs
  BY <1>1, LenProperties DEF TypeOK, Msgs, None
<1>11. /\ Good(new) /\ Evolves(msg, new, c) /\ KeepsUnacked(msg, new) /\ NoneGetsReady(msg, new)
       /\ Taken(new, m, c)
  BY <1>1, <1>5, <1>8, <1>9, PoppedOK
<1>12. /\ Msgs' = Msgs /\ c # Nobody
       /\ msg[m].state = "ready" /\ ~msg[m].dropped /\ msg[m].queue = q
       /\ new[m].by = c /\ new[m].state = "unacked"
       /\ \A n \in Msgs : n # m => /\ new[n].by = msg[n].by
                                   /\ msg[n].state # "ready" => new[n].state = msg[n].state
                                   /\ msg[n].state = "ready" => new[n].state \in {"ready", "dead"}
       /\ \A n \in Msgs : new[n].queue = msg[n].queue /\ (msg[n].dropped => new[n].dropped)
  <2>1. Msgs' = Msgs
    BY <1>9, <1>11 DEF Taken, Msgs
  <2>2. c # Nobody
    BY RabbitAssumption DEF RabbitAssumption
  <2>3. msg[m].queue = q
    BY <1>5 DEF IsNext, Live, Ready
  <2> QED
    BY <1>10, <1>11, <2>1, <2>2, <2>3 DEF Taken, Evolves, Msgs
<1>13. PICK x, y : /\ x = received[c] /\ y = Append(x, m)
                   /\ received' = [received EXCEPT ![c] = y]
  BY <1>5, <1>8
<1>14. /\ x \in Seq(Msgs) /\ y \in Seq(Msgs)
       /\ \A k \in DOMAIN x : k \in DOMAIN y /\ y[k] = x[k]
       /\ \A k \in DOMAIN y : k \in DOMAIN x \/ y[k] = m
       /\ \E k \in DOMAIN y : y[k] = m
  <2>1. x \in Seq(Msgs)
    BY <1>1, <1>13 DEF TypeOK
  <2>2. DOMAIN x = 1..Len(x) /\ Len(x) \in Nat
    BY <2>1, LenProperties
  <2>3. PICK last \in Nat : last = Len(x) + 1
    BY <2>2
  <2>4. /\ y \in Seq(Msgs) /\ Len(y) = last /\ y[last] = m
        /\ \A k \in 1..Len(x) : y[k] = x[k]
    BY <1>13, <2>1, <2>3, AppendProperties
  <2>5. DOMAIN y = 1..last
    BY <2>4, LenProperties
  <2>6. last \in DOMAIN y /\ \A k \in DOMAIN x : k \in DOMAIN y
    BY <2>2, <2>3, <2>5
  <2>7. \A k \in DOMAIN y : k \in DOMAIN x \/ k = last
    BY <2>2, <2>3, <2>5
  <2> QED
    BY <2>1, <2>2, <2>4, <2>6, <2>7
<1>15. /\ received' \in [Consumers -> Seq(Msgs)] /\ received'[c] = y
       /\ \A d \in Consumers : d # c => received'[d] = received[d]
       /\ \A d \in Consumers : \A k \in DOMAIN received[d] :
            k \in DOMAIN received'[d] /\ received'[d][k] = received[d][k]
       /\ \A d \in Consumers : \A k \in DOMAIN received'[d] :
            \/ k \in DOMAIN received[d] /\ received'[d][k] = received[d][k]
            \/ received'[d][k] = m /\ d = c
  <2>1. PICK lists : lists = received /\ lists \in [Consumers -> Seq(Msgs)]
    BY <1>1 DEF TypeOK
  <2>2. received' = [lists EXCEPT ![c] = y] /\ y \in Seq(Msgs)
    BY <1>13, <1>14, <2>1
  <2>3. /\ received' \in [Consumers -> Seq(Msgs)] /\ received'[c] = y
        /\ \A d \in Consumers : d # c => received'[d] = received[d]
    BY <2>1, <2>2
  <2> QED
    BY <1>13, <1>14, <2>3
<1>16. PICK g : g = [f EXCEPT !.at = i, !.inside = TRUE, !.msg = m]
  OBVIOUS
<1>17. g.queue = q /\ g.at = i /\ g.msg = m /\ g \in Frame'
  <2>1. i \in Nat /\ m \in Msgs'
    BY <1>7, <1>12
  <2>2. g.queue = q /\ g.at = i /\ g.msg = m
    BY <1>2, <1>4, <1>16 DEF Frame
  <2>3. g \in Frame'
    BY <1>2, <1>3, <1>4, <1>16, <2>1 DEF Frame
  <2> QED
    BY <2>2, <2>3
<1>18. /\ stack' \in Seq(Frame') /\ DOMAIN stack' = DOMAIN stack
       /\ \A j \in DOMAIN stack : stack'[j] = IF j = size THEN g ELSE stack[j]
  <2>1. stack' = SetTop(g) /\ Msgs \subseteq Msgs'
    BY <1>5, <1>12, <1>16
  <2> QED
    BY <1>1, <1>2, <1>17, <2>1, StackTurns
<1>19. TypeOK'
  <2>1. \A n \in Msgs' : msg'[n].by # Nobody <=> msg'[n].state = "unacked"
    BY <1>9, <1>11 DEF Good, Msgs
  <2>2. \A n \in Msgs' : msg'[n].state = "requeued" => n \in timers'
    <3> SUFFICES ASSUME NEW n \in Msgs, new[n].state = "requeued" PROVE n \in timers
      BY <1>6, <1>9, <1>12
    <3>1. msg[n].state = "requeued"
      BY <1>12
    <3> QED
      BY <1>1, <3>1 DEF TypeOK
  <2>3. received' \in [Consumers -> Seq(Msgs')]
    BY <1>12, <1>15
  <2>4. timers' \subseteq Msgs' /\ broken' \subseteq Queues /\ cancelled' \subseteq Consumers
        /\ consumers' \in [Queues -> Seq(Consumers)]
    BY <1>1, <1>6, <1>12 DEF TypeOK
  <2>5. msg' \in Seq(Message)
    BY <1>9, <1>11 DEF Good
  <2> QED
    BY <1>18, <2>1, <2>2, <2>3, <2>4, <2>5 DEF TypeOK
<1>20. Homes'
  <2>1. \A d \in Consumers : \A k \in DOMAIN received'[d] : msg'[received'[d][k]].queue = option[d].queue
    <3> SUFFICES ASSUME NEW d \in Consumers, NEW k \in DOMAIN received'[d]
                 PROVE  new[received'[d][k]].queue = option[d].queue
      BY <1>9
    <3>1. CASE k \in DOMAIN received[d] /\ received'[d][k] = received[d][k]
      <4>1. received[d][k] \in Msgs /\ msg[received[d][k]].queue = option[d].queue
        BY <1>1, <3>1, UnackedBounds DEF Homes
      <4> QED
        BY <1>12, <3>1, <4>1
    <3>2. CASE received'[d][k] = m /\ d = c
      BY <1>8, <1>12, <3>2
    <3> QED
      BY <1>15, <3>1, <3>2
  <2>2. \A j \in DOMAIN stack' : AtHome(stack'[j], consumers', msg')
    <3>1. \A j \in DOMAIN stack : AtHome(stack[j], consumers', msg')
      BY <1>6, <1>9, <1>11, FramesStayHome
    <3>2. AtHome(g, consumers', msg')
      BY <1>6, <1>9, <1>12, <1>17 DEF AtHome
    <3> QED
      BY <1>18, <3>1, <3>2
  <2> QED
    BY <1>1, <1>6, <2>1, <2>2 DEF Homes
<1>21. Listed'
  <2> SUFFICES ASSUME NEW n \in Msgs, new[n].state = "unacked", new[n].by \in Consumers,
                      ~new[n].dropped
               PROVE  \E k \in DOMAIN received'[new[n].by] : received'[new[n].by][k] = n
    BY <1>9, <1>12 DEF Listed
  <2>1. CASE n = m
    BY <1>12, <1>14, <1>15, <2>1
  <2>2. CASE n # m
    <3>1. /\ msg[n].state = "unacked" /\ msg[n].by = new[n].by /\ ~msg[n].dropped
      BY <1>12, <2>2
    <3>2. PICK k \in DOMAIN received[new[n].by] : received[new[n].by][k] = n
      BY <1>1, <3>1 DEF Listed
    <3> QED
      BY <1>15, <3>2
  <2> QED
    BY <2>1, <2>2
<1>22. PrefetchHonoured'
  <2> SUFFICES ASSUME NEW d \in Consumers, option[d].prefetch > 0
               PROVE  (Cardinality(Held(d)) <= option[d].prefetch)'
    BY DEF PrefetchHonoured
  <2>1. PICK S, T, U : S = Held(d) /\ T = Held(d)' /\ U = UnackedOf(d)
    OBVIOUS
  <2>2. /\ IsFiniteSet(S) /\ Cardinality(S) \in Nat /\ Cardinality(U) \in Nat
        /\ Cardinality(S) <= Cardinality(U) /\ option[d].prefetch \in Nat
    BY <1>1, <2>1, HasRoomLeft, UnackedBounds
  <2>3. ASSUME NEW n \in T PROVE n \in S \/ (n = m /\ d = c)
    <3>1. n \in Msgs /\ new[n].state = "unacked" /\ new[n].by = d /\ ~new[n].dropped
      BY <1>9, <1>12, <2>1 DEF Held
    <3>2. n # m => msg[n].state = "unacked" /\ msg[n].by = d /\ ~msg[n].dropped
      BY <1>12, <3>1
    <3> QED
      BY <1>12, <2>1, <3>1, <3>2 DEF Held
  <2>4. CASE d # c
    <3>1. T \subseteq S
      BY <2>3, <2>4
    <3>2. Cardinality(T) <= Cardinality(S) /\ Cardinality(T) \in Nat
      BY <2>2, <3>1, FS_Subset, FS_CardinalityType
    <3>3. Cardinality(S) <= option[d].prefetch
      BY <1>1, <2>1 DEF PrefetchHonoured
    <3> QED
      BY <2>1, <2>2, <3>2, <3>3
  <2>5. CASE d = c
    <3>1. ~Full(c)
      <4>1. ~Skips(f, i)
        BY <1>5 DEF IsTurnOf
      <4> QED
        BY <1>4, <1>8, <4>1 DEF Skips
    <3>2. Cardinality(U) < option[d].prefetch
      BY <2>1, <2>2, <2>5, <3>1 DEF Full
    <3>3. m \notin S
      BY <1>12, <2>1 DEF Held
    <3>4. T \subseteq S \cup {m}
      BY <2>3
    <3>5. IsFiniteSet(S \cup {m}) /\ Cardinality(S \cup {m}) = Cardinality(S) + 1
      BY <2>2, <3>3, FS_AddElement
    <3>6. Cardinality(T) <= Cardinality(S \cup {m}) /\ Cardinality(T) \in Nat
      BY <3>4, <3>5, FS_Subset, FS_CardinalityType
    <3> QED
      BY <2>1, <2>2, <3>2, <3>5, <3>6
  <2> QED
    BY <2>4, <2>5
<1>23. ASSUME NEW d \in Consumers
       PROVE  UnackedOf(d) \subseteq UnackedOf(d)' /\ Pledged(d) \subseteq Pledged(d)'
  <2>1. \A k \in DOMAIN received[d] : received[d][k] \in Msgs
    BY <1>1, UnackedBounds
  <2>2. UnackedOf(d) \subseteq UnackedOf(d)'
    BY <1>9, <1>11, <1>15, <2>1 DEF UnackedOf, KeepsUnacked, Msgs
  <2>3. InHand' \subseteq InHand \cup {m}
    BY <1>2, <1>17, <1>18 DEF InHand
  <2>4. ASSUME NEW k \in Pledged(d) PROVE k \in Pledged(d)'
    <3>1. /\ k \in UnackedOf(d) /\ k \in DOMAIN received[d] /\ received[d][k] \notin InHand
          /\ msg[received[d][k]].state = "unacked"
      BY <2>4 DEF Pledged, UnackedOf
    <3>2. received'[d][k] = received[d][k]
      BY <1>15, <3>1
    <3>3. received[d][k] # m
      BY <1>12, <3>1
    <3> QED
      BY <2>2, <2>3, <3>1, <3>2, <3>3 DEF Pledged
  <2> QED
    BY <2>2, <2>4
<1>24. ASSUME NEW a \in Queues PROVE Attended(a)'
  <2>1. /\ FramesOn(a)' = FramesOn(a)
        /\ \A l \in FramesOn(a) : l # size => stack'[l].at = stack[l].at
        /\ \A l \in FramesOn(a) : l \in 1..size
        /\ a = q => size \in FramesOn(a)
    BY <1>2, <1>4, <1>17, <1>18 DEF FramesOn
  <2>2. TimerOn(a) => TimerOn(a)'
    BY <1>1, <1>6, <1>9, <1>12 DEF TimerOn, TypeOK
  <2>3. Live(a) = {} => Live(a)' = {}
    <3>1. ASSUME NEW n, n \in Live(a)' PROVE n \in Live(a)
      <4>1. n \in Msgs /\ new[n].queue = a /\ IsLive(new[n])
        BY <1>9, <1>12, <3>1 DEF Live, Ready, Expired, IsLive
      <4>2. IsLive(msg[n])
        BY <1>9, <1>11, <1>12, <4>1 DEF NoneGetsReady, Msgs
      <4> QED
        BY <1>12, <4>1, <4>2 DEF Live, Ready, Expired, IsLive
    <3> QED
      BY <3>1
  <2>4. CASE a = q /\ \A j \in FramesOn(a) : size <= j
    <3>1. size \in FramesOn(a)'
      BY <2>1, <2>4
    <3>2. \A l \in FramesOn(a)' : l = size
      BY <1>2, <2>1, <2>4
    <3>3. stack'[size].at = i
      BY <1>2, <1>17, <1>18
    <3>4. \/ TimerOn(a)
          \/ \A k \in DOMAIN consumers[a] : k < f.at =>
               consumers[a][k] \in cancelled \/ StaysFull(consumers[a][k])
      <4>1. Attended(a) /\ size \in FramesOn(a)
        BY <2>1, <2>4 DEF IInv
      <4> QED
        BY <1>2, <2>4, <4>1 DEF Attended
    <3>5. CASE TimerOn(a)
      BY <2>2, <3>1, <3>5 DEF Attended
    <3>6. CASE ~TimerOn(a)
      <4>1. ASSUME NEW k \in DOMAIN consumers[a], k < i
            PROVE  (consumers[a][k] \in cancelled \/ StaysFull(consumers[a][k]))'
        <5>1. PICK d \in Consumers : d = consumers[a][k] /\ option[d].queue = q
          BY <1>7, <2>4, <4>1
        <5>2. d \in cancelled \/ StaysFull(d)
          <6>1. CASE k < f.at
            BY <3>4, <3>6, <5>1, <6>1
          <6>2. CASE ~(k < f.at)
            <7>1. k \in f.at..(i - 1) /\ k # i
              BY <1>3, <1>7, <2>4, <4>1, <6>2
            <7>2. Skips(f, k)
              BY <1>5, <7>1 DEF IsTurnOf
            <7>3. Full(d) \/ d \in cancelled
              BY <1>4, <2>4, <5>1, <7>2 DEF Skips
            <7>4. Full(d) => StaysFull(d)
              BY <1>1, <1>2, <1>4, <2>4, <5>1, FullToTheLowest
            <7> QED
              BY <7>3, <7>4
          <6> QED
            BY <6>1, <6>2
        <5>3. d \in cancelled' \/ StaysFull(d)'
          BY <1>6, <1>19, <1>23, <5>2, PledgeStays
        <5> QED
          BY <1>6, <5>1, <5>3 DEF StaysFull, Pledged, UnackedOf
      <4>2. \A k \in DOMAIN consumers'[a] : k < i =>
              (consumers[a][k] \in cancelled \/ StaysFull(consumers[a][k]))'
        BY <1>6, <4>1
      <4> QED
        BY <3>1, <3>2, <3>3, <4>2 DEF Attended
    <3> QED
      BY <3>5, <3>6
  <2>5. CASE ~(a = q /\ \A j \in FramesOn(a) : size <= j)
    <3>1. \A l \in FramesOn(a)' : (\A j \in FramesOn(a)' : l <= j) =>
            l \in FramesOn(a) /\ stack'[l].at = stack[l].at
      <4> SUFFICES ASSUME NEW l \in FramesOn(a), \A j \in FramesOn(a) : l <= j
                   PROVE  stack'[l].at = stack[l].at
        BY <2>1
      <4>1. l # size
        BY <1>2, <1>4, <2>5 DEF FramesOn
      <4> QED
        BY <2>1, <4>1
    <3>2. KeepsAttention(a)
      BY <1>6, <1>23, <2>1, <2>2, <2>3, <3>1 DEF KeepsAttention
    <3> QED
      BY <1>1, <1>19, <3>2, AttentionKept DEF IInv
  <2> QED
    BY <2>4, <2>5
<1> QED
  BY <1>9, <1>11, <1>19, <1>20, <1>21, <1>22, <1>24 DEF IInv

LEMMA ResetIInv ==
  ASSUME IInv, Reset
  PROVE  IInv' /\ Evolves(msg, msg', Nobody)
<1>1. TypeOK /\ Good(msg)
  BY DEF IInv
<1>2. /\ msg' = [m \in Msgs |-> [msg[m] EXCEPT !.dropped = TRUE]]
      /\ consumers' = [q \in Queues |-> <<>>]
      /\ cancelled' = {} /\ received' = [c \in Consumers |-> <<>>] /\ broken' = {}
      /\ UNCHANGED <<timers, stack>> /\ stack = <<>>
  BY DEF Reset
<1>3. PICK new : new = msg'
  OBVIOUS
<1>4. /\ Good(new) /\ Evolves(msg, new, Nobody) /\ DOMAIN new = Msgs
  <2>1. new = [n \in Msgs |-> new[n]]
    BY <1>2, <1>3
  <2>2. \A n \in Msgs : \/ new[n] = msg[n]
                        \/ new[n] = [msg[n] EXCEPT !.expired = TRUE]
                        \/ new[n] = [msg[n] EXCEPT !.dropped = TRUE]
    BY <1>2, <1>3
  <2> QED
    BY <1>1, <2>1, <2>2, MarkedOK
<1>5. Msgs' = Msgs /\ \A n \in Msgs : new[n].dropped /\ new[n].state = msg[n].state
  <2>1. \A n \in Msgs : msg[n] \in Message
    BY <1>1, MessageType DEF TypeOK, Msgs
  <2>2. \A n \in Msgs : new[n].dropped /\ new[n].state = msg[n].state
    BY <1>2, <1>3, <2>1 DEF Message
  <2> QED
    BY <1>3, <1>4, <2>2 DEF Msgs
<1>6. DOMAIN stack = {} /\ \A x : DOMAIN <<>> = {} /\ <<>> \in Seq(x)
  <2>1. DOMAIN stack = {}
    BY <1>1, <1>2, StackFacts
  <2> QED
    BY <2>1
<1>7. TypeOK'
  <2>1. stack' \in Seq(Frame')
    BY <1>1, <1>2, <1>5, Widened
  <2>2. received' \in [Consumers -> Seq(Msgs')] /\ consumers' \in [Queues -> Seq(Consumers)]
    BY <1>2, <1>6
  <2>3. timers' \subseteq Msgs' /\ cancelled' \subseteq Consumers /\ broken' \subseteq Queues
    BY <1>1, <1>2, <1>5 DEF TypeOK
  <2>4. \A n \in Msgs' : /\ msg'[n].by # Nobody <=> msg'[n].state = "unacked"
                         /\ msg'[n].state = "requeued" => n \in timers'
    BY <1>1, <1>2, <1>3, <1>4, <1>5 DEF TypeOK, Good, Msgs
  <2> QED
    BY <1>3, <1>4, <2>1, <2>2, <2>3, <2>4 DEF TypeOK, Good
<1>8. Homes'
  <2>1. (\A q \in Queues : DOMAIN consumers[q] = {})' /\ (\A c \in Consumers : DOMAIN received[c] = {})'
        /\ (DOMAIN stack = {})'
    BY <1>2, <1>6
  <2> QED
    BY <2>1 DEF Homes
<1>9. Listed' /\ PrefetchHonoured'
  <2>1. \A n \in Msgs' : msg'[n].dropped
    BY <1>3, <1>5
  <2>2. ASSUME NEW c \in Consumers PROVE (Cardinality(Held(c)) = 0)'
    <3>1. Held(c)' = {}
      BY <2>1 DEF Held
    <3> QED
      BY <3>1, FS_EmptySet
  <2>3. \A c \in Consumers : option[c].prefetch \in Nat
    BY <1>1, UnackedBounds
  <2> QED
    BY <2>1, <2>2, <2>3 DEF Listed, PrefetchHonoured
<1>10. ASSUME NEW q \in Queues PROVE Attended(q)'
  <2>1. FramesOn(q)' = {}
    BY <1>2, <1>6 DEF FramesOn
  <2>2. Live(q)' = {}
    BY <1>3, <1>5 DEF Live, Ready
  <2> QED
    BY <2>1, <2>2 DEF Attended
<1> QED
  BY <1>3, <1>4, <1>7, <1>8, <1>9, <1>10 DEF IInv

LEMMA InitIInv ==
  Init => IInv
<1> SUFFICES ASSUME Init PROVE IInv
  OBVIOUS
<1>1. \A x : DOMAIN <<>> = {} /\ <<>> \in Seq(x)
  OBVIOUS
<1>2. /\ Msgs = {} /\ DOMAIN stack = {}
      /\ \A c \in Consumers : DOMAIN received[c] = {}
      /\ \A q \in Queues : DOMAIN consumers[q] = {}
  BY <1>1 DEF Init, Msgs
<1>3. TypeOK
  BY <1>1, <1>2 DEF Init, TypeOK
<1>4. Good(msg)
  BY <1>1, <1>2 DEF Init, Good, Msgs
<1>5. PrefetchHonoured
  <2>1. \A c \in Consumers : Held(c) = {}
    BY <1>2 DEF Held
  <2>2. \A c \in Consumers : option[c].prefetch \in Nat
    BY <1>3, UnackedBounds
  <2> QED
    BY <2>1, <2>2, FS_EmptySet DEF PrefetchHonoured
<1>6. \A q \in Queues : Attended(q)
  BY <1>2 DEF Attended, FramesOn, Live, Ready
<1> QED
  BY <1>2, <1>3, <1>4, <1>5, <1>6 DEF IInv, Homes, Listed

LEMMA NextIInv ==
  ASSUME IInv, [Next]_vars
  PROVE  IInv' /\ (msg' = msg \/ \E by \in Consumers \cup {Poller, Nobody} : Evolves(msg, msg', by))
<1>1. CASE \E r \in Routes : Publish(r)
  BY <1>1, PublishIInv
<1>2. CASE \E c \in Consumers : Consume(c) \/ Cancel(c)
  BY <1>2, ConsumeIInv, CancelIInv
<1>3. CASE \E q \in Queues : GetNull(q) \/ \E b \in BOOLEAN : Get(q, b)
  <2>1. PICK q \in Queues, b \in BOOLEAN : Get(q, b) \/ GetNull(q)
    BY <1>3
  <2>2. IInv' /\ \E by \in {Poller, Nobody} : Evolves(msg, msg', by)
    BY <2>1, GetIInv
  <2> QED
    BY <2>2
<1>4. CASE \E m \in Msgs : Ack(m) \/ Nack(m) \/ NackRequeue(m) \/ TimerFires(m) \/ Expires(m)
  <2>1. PICK m \in Msgs : Ack(m) \/ Nack(m) \/ NackRequeue(m) \/ TimerFires(m) \/ Expires(m)
    BY <1>4
  <2>2. CASE Settle(m, "acked") \/ Settle(m, "nacked") \/ Settle(m, "requeued")
    BY <2>2, SettleIInv
  <2>3. CASE TimerFires(m)
    BY <2>3, TimerFiresIInv
  <2>4. CASE Expires(m)
    BY <2>4, ExpiresIInv
  <2> QED
    BY <2>1, <2>2, <2>3, <2>4 DEF Ack, Nack, NackRequeue
<1>5. CASE Reset
  BY <1>5, ResetIInv
<1>6. CASE Loop
  <2>1. CASE Deliver
    <3>1. IInv' /\ \E by \in Consumers : Evolves(msg, msg', by)
      BY <2>1, DeliverIInv
    <3> QED
      BY <3>1
  <2>2. CASE DispatchEnds
    BY <2>2, DispatchEndsIInv
  <2>3. CASE HandlerReturns
    BY <2>3, HandlerReturnsIInv
  <2>4. CASE HandlerThrows
    BY <2>4, HandlerThrowsIInv
  <2> QED
    BY <1>6, <2>1, <2>2, <2>3, <2>4 DEF Loop
<1>7. CASE UNCHANGED vars
  <2>1. UNCHANGED <<msg, consumers, cancelled, received, timers, stack, broken>>
    BY <1>7 DEF vars
  <2>2. /\ TypeOK' /\ Good(msg') /\ Homes' /\ Listed' /\ PrefetchHonoured'
    <3>1. TypeOK'
      BY <2>1 DEF IInv, TypeOK, Msgs, Frame
    <3>2. Good(msg')
      BY <2>1 DEF IInv
    <3>3. Homes' /\ Listed'
      BY <2>1 DEF IInv, Homes, Listed, Msgs
    <3>4. PrefetchHonoured'
      BY <2>1 DEF IInv, PrefetchHonoured, Held, Msgs
    <3> QED
      BY <3>1, <3>2, <3>3, <3>4
  <2>3. \A q \in Queues : Attended(q)'
    <3> SUFFICES ASSUME NEW q \in Queues PROVE Attended(q)'
      OBVIOUS
    <3>1. KeepsAttention(q)
      BY <2>1 DEF KeepsAttention, FramesOn, InHand, TimerOn, Pledged, UnackedOf, Live, Ready, Expired, Msgs
    <3> QED
      BY <2>2, <3>1, AttentionKept DEF IInv
  <2> QED
    BY <2>1, <2>2, <2>3 DEF IInv
<1> QED
  BY <1>1, <1>2, <1>3, <1>4, <1>5, <1>6, <1>7 DEF Next

\* The invariant that the theorems below rest on.
THEOREM SpecIInv ==
  Spec => []IInv
<1>1. IInv /\ [Next]_vars => IInv'
  BY NextIInv
<1> QED
  BY InitIInv, <1>1, PTL DEF Spec

-----------------------------------------------------------------------------
\* The variables have their types; whoever is to get a message back by a
\* requeue has the timer for it.
THEOREM SpecTypeOK ==
  Spec => []TypeOK
<1>1. IInv => TypeOK
  BY DEF IInv
<1> QED
  BY SpecIInv, <1>1, PTL

\* consume() with a prefetch: no consumer ever holds more unacked messages.
THEOREM SpecPrefetchHonoured ==
  Spec => []PrefetchHonoured
<1>1. IInv => PrefetchHonoured
  BY DEF IInv
<1> QED
  BY SpecIInv, <1>1, PTL

\* popNextReadyMessage: messages are first delivered in the order of enqueue.
THEOREM SpecFirstDeliveryInOrder ==
  Spec => []FirstDeliveryInOrder
<1>1. IInv => FirstDeliveryInOrder
  BY DEF IInv, Good, FirstDeliveryInOrder, Msgs
<1> QED
  BY SpecIInv, <1>1, PTL

\* dispatchToConsumers() forgets no message that a consumer could take, but
\* for the timer that will start it again, or after a handler threw out of it.
THEOREM SpecNoLostWakeup ==
  Spec => []NoLostWakeup
<1>1. IInv => NoLostWakeup
  <2> SUFFICES ASSUME IInv, stack = <<>>, NEW q \in Queues \ broken
               PROVE  \/ Live(q) = {}
                      \/ \A c \in Range(consumers[q]) : ~CanTake(c)
                      \/ \E m \in timers : msg[m].queue = q
    BY DEF NoLostWakeup
  <2>1. Attended(q) /\ FramesOn(q) = {}
    BY StackFacts DEF IInv, FramesOn
  <2>2. \A c \in Range(consumers[q]) : \E i \in DOMAIN consumers[q] : c = consumers[q][i]
    BY DEF Range
  <2> QED
    BY <2>1, <2>2 DEF Attended, TimerOn
<1> QED
  BY SpecIInv, <1>1, PTL

\* ack(), nack() and expiry are final, and an unacked message changes hands
\* only by way of a requeue.
THEOREM SpecSettledIsFinal ==
  Spec => SettledIsFinal
<1>1. ASSUME IInv, [Next]_vars
      PROVE  [\A m \in Msgs :
                /\ msg[m].state \in Settled => msg'[m].state = msg[m].state
                /\ msg[m].state = "unacked" /\ msg'[m].state = "unacked"
                     => msg'[m].by = msg[m].by /\ msg'[m].count = msg[m].count]_vars
  <2>1. CASE msg' = msg
    BY <2>1
  <2>2. CASE \E by \in Consumers \cup {Poller, Nobody} : Evolves(msg, msg', by)
    BY <2>2 DEF Evolves, Msgs
  <2> QED
    BY <1>1, <2>1, <2>2, NextIInv
<1> QED
  BY SpecIInv, <1>1, PTL DEF Spec, SettledIsFinal

-----------------------------------------------------------------------------
\* When prefetch is what types.ts:85 says: nobody requeues a message.
NeverRequeued == \A m \in Msgs : msg[m].state # "requeued"

\* Then `received` names a message once, and one that is unacked is held by
\* the consumer that received it, so that Full counts what Held has.
OwnReceipt(x, c, m) ==
  /\ x[m].state # "ready"
  /\ ~x[m].dropped
  /\ x[m].state = "unacked" => x[m].by = c

OwnReceipts ==
  \A c \in Consumers :
    /\ \A i, j \in DOMAIN received[c] : received[c][i] = received[c][j] => i = j
    /\ \A i \in DOMAIN received[c] : OwnReceipt(msg, c, received[c][i])

\* The messages y, after x, of those that were delivered.
StaysDelivered(x, y) ==
  \A n \in DOMAIN x : x[n].state # "ready" =>
    /\ y[n].state # "ready"
    /\ y[n].dropped = x[n].dropped
    /\ y[n].state = "unacked" => x[n].state = "unacked" /\ y[n].by = x[n].by

LEMMA AppendStays ==
  ASSUME NEW x \in Seq(Message), NEW r
  PROVE  DOMAIN x \subseteq DOMAIN Append(x, r) /\ \A n \in DOMAIN x : Append(x, r)[n] = x[n]
<1> DEFINE M == Message \cup {r}
<1>1. x \in Seq(M)
  <2>1. Message \subseteq M
    OBVIOUS
  <2> HIDE DEF M
  <2> QED
    BY <2>1, SeqMonotonic
<1>2. r \in M
  OBVIOUS
<1> HIDE DEF M
<1>3. /\ Append(x, r) \in Seq(M)
      /\ Len(Append(x, r)) = Len(x) + 1
      /\ \A n \in 1..Len(x) : Append(x, r)[n] = x[n]
  BY <1>1, <1>2, AppendProperties
<1>4. DOMAIN x = 1..Len(x) /\ Len(x) \in Nat /\ DOMAIN Append(x, r) = 1..Len(Append(x, r))
  BY <1>1, <1>3, LenProperties
<1> QED
  BY <1>3, <1>4

LEMMA PoppedStays ==
  ASSUME Good(msg), NEW q, NEW m, NEW by, m = None \/ IsNext(q, m)
  PROVE  /\ DOMAIN Popped(q, m, by) = Msgs
         /\ \A n \in Msgs : msg[n].state # "ready" => Popped(q, m, by)[n] = msg[n]
<1>1. \A n \in Msgs : n # None
  BY MessageType DEF Good, Msgs, None
<1>2. \A n \in Msgs : msg[n].state # "ready" => n \notin Passed(q) /\ n # m
  BY <1>1 DEF Passed, Ready, IsNext, Live
<1> QED
  BY <1>2 DEF Popped

LEMMA FreedStays ==
  ASSUME Good(msg), NEW m \in Msgs, NEW state \in {"acked", "nacked", "requeued"}
  PROVE  StaysDelivered(msg, Freed(m, state))
<1>1. PICK r : r = [msg[m] EXCEPT !.state = state, !.by = Nobody]
  OBVIOUS
<1>2. msg[m] \in Message /\ m \in DOMAIN msg
  BY MessageType DEF Good, Msgs
<1>3. r.state = state /\ r.dropped = msg[m].dropped
  BY <1>1, <1>2 DEF Message
<1>4. Freed(m, state) = [msg EXCEPT ![m] = r]
  BY <1>1 DEF Freed
<1>5. \A n \in DOMAIN msg : Freed(m, state)[n] = IF n = m THEN r ELSE msg[n]
  BY <1>2, <1>4
<1> QED
  BY <1>3, <1>5 DEF StaysDelivered

\* Every step but a reset keeps what was delivered, in the hands it is in.
LEMMA StepStaysDelivered ==
  ASSUME IInv, NeverRequeued, Next, ~Reset
  PROVE  StaysDelivered(msg, msg')
<1>1. TypeOK /\ Good(msg) /\ msg \in Seq(Message) /\ Msgs = DOMAIN msg
  BY DEF IInv, Good, Msgs
<1>2. ASSUME NEW r \in Routes, Publish(r) PROVE StaysDelivered(msg, msg')
  BY <1>1, <1>2, AppendStays DEF Publish, StaysDelivered
<1>3. ASSUME NEW c \in Consumers, Consume(c) \/ Cancel(c) PROVE StaysDelivered(msg, msg')
  BY <1>3 DEF Consume, Cancel, StaysDelivered
<1>4. ASSUME NEW q \in Queues, NEW b \in BOOLEAN, GetNull(q) \/ Get(q, b)
      PROVE  StaysDelivered(msg, msg')
  BY <1>1, <1>4, PoppedStays DEF Get, GetNull, StaysDelivered
<1>5. ASSUME NEW m \in Msgs, Ack(m) \/ Nack(m) \/ NackRequeue(m)
      PROVE  StaysDelivered(msg, msg')
  BY <1>1, <1>5, FreedStays DEF Ack, Nack, NackRequeue, Settle
<1>6. ASSUME NEW m \in Msgs, TimerFires(m) PROVE StaysDelivered(msg, msg')
  <2>1. msg' = msg
    BY <1>6 DEF TimerFires, BackToReady, NeverRequeued
  <2> QED
    BY <2>1 DEF StaysDelivered
<1>7. ASSUME NEW m \in Msgs, Expires(m) PROVE StaysDelivered(msg, msg')
  <2>1. PICK r : r = [msg[m] EXCEPT !.expired = TRUE]
    OBVIOUS
  <2>2. msg' = [msg EXCEPT ![m] = r]
    BY <1>7, <2>1 DEF Expires
  <2>3. msg[m] \in Message
    BY <1>1, MessageType
  <2>4. r.state = msg[m].state /\ r.dropped = msg[m].dropped /\ r.by = msg[m].by
    BY <2>1, <2>3 DEF Message
  <2>5. \A n \in DOMAIN msg : msg'[n] = IF n = m THEN r ELSE msg[n]
    BY <2>2
  <2> QED
    BY <2>4, <2>5 DEF StaysDelivered
<1>8. CASE Deliver
  <2>1. PICK c, m : m \in Msgs /\ IsNext(Top.queue, m) /\ msg' = Popped(Top.queue, m, c)
    BY <1>8 DEF Deliver
  <2> QED
    BY <1>1, <2>1, PoppedStays DEF StaysDelivered
<1>9. CASE DispatchEnds
  <2>1. PICK over : /\ over = IF NoTurn(Top) THEN msg ELSE Popped(Top.queue, None, Nobody)
                    /\ msg' = over \/ msg' = Append(over, NewMessage(Top.rest))
    BY <1>9 DEF DispatchEnds
  <2>2. DOMAIN over = Msgs /\ \A n \in Msgs : msg[n].state # "ready" => over[n] = msg[n]
    BY <1>1, <2>1, PoppedStays
  <2>3. over \in Seq(Message)
    <3>1. Good(Popped(Top.queue, None, Nobody))
      BY <1>1, PoppedOK
    <3> QED
      BY <1>1, <2>1, <3>1 DEF Good
  <2>4. \A n \in Msgs : msg'[n] = over[n]
    <3>1. PICK r : r = NewMessage(Top.rest)
      OBVIOUS
    <3>2. \A n \in DOMAIN over : Append(over, r)[n] = over[n]
      BY <2>3, AppendStays
    <3> QED
      BY <2>1, <2>2, <3>1, <3>2
  <2> QED
    BY <1>1, <2>2, <2>4 DEF StaysDelivered
<1>10. CASE HandlerReturns
  <2>1. PICK m : m = Top.msg
    OBVIOUS
  <2>2. m \in Msgs
    BY <1>1, <1>10, <2>1, StackFacts DEF HandlerReturns, Frame
  <2>3. msg' = msg \/ msg' = Freed(m, "acked")
    BY <1>10, <2>1 DEF HandlerReturns
  <2> QED
    BY <1>1, <2>2, <2>3, FreedStays DEF StaysDelivered
<1>11. CASE HandlerThrows
  BY <1>11 DEF HandlerThrows, StaysDelivered
<1> QED
  BY <1>2, <1>3, <1>4, <1>5, <1>6, <1>7, <1>8, <1>9, <1>10, <1>11 DEF Next, Loop

LEMMA ReceiptsStay ==
  ASSUME IInv, OwnReceipts, StaysDelivered(msg, msg'), UNCHANGED received
  PROVE  OwnReceipts'
<1> SUFFICES ASSUME NEW c \in Consumers, NEW i \in DOMAIN received[c]
             PROVE  OwnReceipt(msg', c, received[c][i])
  BY DEF OwnReceipts
<1>1. received[c][i] \in DOMAIN msg
  BY UnackedBounds DEF IInv, Msgs
<1>2. OwnReceipt(msg, c, received[c][i])
  BY DEF OwnReceipts
<1> QED
  BY <1>1, <1>2 DEF StaysDelivered, OwnReceipt

\* A message is delivered: it was ready, so nobody had received it.
LEMMA DeliverReceipts ==
  ASSUME IInv, OwnReceipts, StaysDelivered(msg, msg'), Deliver
  PROVE  OwnReceipts'
<1>1. TypeOK /\ Good(msg) /\ \A q \in Queues : \A i \in DOMAIN consumers[q] : consumers[q][i] \in Consumers
  <2>1. TypeOK /\ Good(msg)
    BY DEF IInv
  <2>2. ASSUME NEW q \in Queues, NEW i \in DOMAIN consumers[q] PROVE consumers[q][i] \in Consumers
    <3>1. consumers[q] \in Seq(Consumers)
      BY <2>1 DEF TypeOK
    <3> QED
      BY <3>1, ElementOfSeq, LenProperties
  <2> QED
    BY <2>1, <2>2
<1>2. Top.queue \in Queues
  BY <1>1, StackFacts DEF Deliver, DispatchRuns, Frame
<1>3. PICK i \in DOMAIN consumers[Top.queue], m \in Msgs :
        /\ IsNext(Top.queue, m)
        /\ msg' = Popped(Top.queue, m, consumers[Top.queue][i])
        /\ received' = [received EXCEPT ![consumers[Top.queue][i]] = Append(@, m)]
  BY DEF Deliver
<1>4. PICK c \in Consumers : c = consumers[Top.queue][i]
  BY <1>1, <1>2
<1>5. PICK q \in Queues : q = Top.queue
  BY <1>2
<1>6. /\ msg[m].state = "ready" /\ ~msg[m].dropped
      /\ msg' = Popped(q, m, c)
      /\ received' = [received EXCEPT ![c] = Append(received[c], m)]
  BY <1>3, <1>4, <1>5 DEF IsNext, Live, Ready
<1>7. OwnReceipt(msg', c, m)
  <2>1. PICK new : new = msg'
    OBVIOUS
  <2>2. Taken(new, m, c)
    BY <1>1, <1>3, <1>5, <1>6, <2>1, PoppedOK
  <2>3. m # None /\ c # Nobody
    BY <1>1, MessageType, RabbitAssumption DEF Good, Msgs, None, RabbitAssumption
  <2>4. new[m].state = "unacked" /\ new[m].by = c
    BY <2>2, <2>3 DEF Taken
  <2>5. ~new[m].dropped
    <3>1. msg[m] \in Message
      BY <1>1, MessageType DEF Good, Msgs
    <3>2. m \notin Passed(q)
      BY <1>3, <1>5, MessageType, <1>1 DEF Passed, IsNext, Live
    <3>3. new[m] = [msg[m] EXCEPT !.state = IF c = Nobody THEN "acked" ELSE "unacked",
                                  !.count = @ + 1, !.by = c]
      BY <1>6, <2>1, <3>2 DEF Popped
    <3> QED
      BY <1>6, <3>1, <3>3 DEF Message
  <2> QED
    BY <2>1, <2>4, <2>5 DEF OwnReceipt
<1>8. ASSUME NEW d \in Consumers, NEW j \in DOMAIN received[d]
      PROVE  /\ received[d][j] # m
             /\ OwnReceipt(msg', d, received[d][j])
  <2>1. received[d][j] \in DOMAIN msg
    BY <1>1, UnackedBounds DEF Msgs
  <2>2. OwnReceipt(msg, d, received[d][j])
    BY DEF OwnReceipts
  <2> QED
    BY <1>6, <2>1, <2>2 DEF StaysDelivered, OwnReceipt
<1>9. PICK r, size : r = received[c] /\ size = Len(r)
  OBVIOUS
<1>10. PICK s : s = Append(r, m)
  OBVIOUS
<1>11. /\ size \in Nat /\ DOMAIN r = 1..size
       /\ DOMAIN s = 1..(size + 1)
       /\ \A j \in DOMAIN r : s[j] = r[j]
       /\ s[size + 1] = m
  <2>1. r \in Seq(Msgs)
    BY <1>1, <1>9 DEF TypeOK
  <2>2. s \in Seq(Msgs)
    BY <2>1, <1>10, AppendProperties
  <2> QED
    BY <2>1, <2>2, <1>9, <1>10, AppendProperties, LenProperties
<1>12. \A j \in DOMAIN s : j \in DOMAIN r \/ j = size + 1
  BY <1>11
<1>13. received'[c] = s /\ \A d \in Consumers : d # c => received'[d] = received[d]
  BY <1>1, <1>6, <1>9, <1>10 DEF TypeOK
<1>14. /\ \A j, k \in DOMAIN s : s[j] = s[k] => j = k
       /\ \A j \in DOMAIN s : s[j] = m \/ \E k \in DOMAIN received[c] : s[j] = received[c][k]
  <2>1. \A j, k \in DOMAIN r : r[j] = r[k] => j = k
    BY <1>9 DEF OwnReceipts
  <2>2. \A j \in DOMAIN r : r[j] # m
    BY <1>8, <1>9
  <2> QED
    BY <1>9, <1>11, <1>12, <2>1, <2>2
<1>15. ASSUME NEW d \in Consumers
       PROVE  /\ \A j, k \in DOMAIN received'[d] : received'[d][j] = received'[d][k] => j = k
              /\ \A j \in DOMAIN received'[d] : OwnReceipt(msg', d, received'[d][j])
  <2>1. CASE d = c
    <3>1. \A j \in DOMAIN s : OwnReceipt(msg', c, s[j])
      BY <1>7, <1>8, <1>14
    <3> QED
      BY <1>13, <1>14, <2>1, <3>1
  <2>2. CASE d # c
    <3>1. received'[d] = received[d]
      BY <1>13, <2>2
    <3> QED
      BY <1>8, <3>1 DEF OwnReceipts
  <2> QED
    BY <2>1, <2>2
<1> QED
  BY <1>15 DEF OwnReceipts

LEMMA NextReceipts ==
  ASSUME IInv, NeverRequeued, OwnReceipts, [Next]_vars
  PROVE  OwnReceipts'
<1>1. CASE UNCHANGED vars
  BY <1>1 DEF vars, OwnReceipts, OwnReceipt
<1>2. CASE Reset
  <2>1. \A c \in Consumers : received'[c] = <<>> /\ DOMAIN <<>> = {}
    BY <1>2 DEF Reset
  <2> QED
    BY <2>1 DEF OwnReceipts
<1>3. CASE Next /\ ~Reset
  <2>1. StaysDelivered(msg, msg')
    BY <1>3, StepStaysDelivered
  <2>2. CASE Deliver
    BY <2>1, <2>2, DeliverReceipts
  <2>3. CASE ~Deliver
    <3>1. UNCHANGED received
      BY <1>3, <2>3
      DEF Next, Loop, Publish, Consume, Cancel, Get, GetNull, Ack, Nack, NackRequeue, Settle,
          TimerFires, Expires, DispatchEnds, HandlerReturns, HandlerThrows
    <3> QED
      BY <2>1, <3>1, ReceiptsStay
  <2> QED
    BY <2>2, <2>3
<1> QED
  BY <1>1, <1>2, <1>3

\* A consumer that is full holds as much as it may.
LEMMA FullHolds ==
  ASSUME IInv, OwnReceipts, NEW c \in Consumers, Full(c)
  PROVE  ~HasRoom(c)
<1>1. PICK S, T : S = UnackedOf(c) /\ T = Held(c)
  OBVIOUS
<1>2. /\ IsFiniteSet(T) /\ Cardinality(T) \in Nat /\ Cardinality(S) \in Nat
      /\ option[c].prefetch \in Nat
  BY <1>1, HasRoomLeft, UnackedBounds DEF IInv
<1>3. PICK r : r = received[c]
  OBVIOUS
<1>4. ASSUME NEW i \in S PROVE i \in DOMAIN r /\ r[i] \in T
  <2>1. i \in DOMAIN received[c] /\ msg[received[c][i]].state = "unacked"
    BY <1>1, <1>4 DEF UnackedOf
  <2>2. received[c][i] \in Msgs
    BY <2>1, UnackedBounds DEF IInv
  <2>3. OwnReceipt(msg, c, received[c][i])
    BY <2>1 DEF OwnReceipts
  <2> QED
    BY <1>1, <1>3, <2>1, <2>2, <2>3 DEF OwnReceipt, Held
<1>5. PICK f : f = [i \in S |-> r[i]]
  OBVIOUS
<1>6. f \in [S -> T] /\ \A i, j \in S : f[i] = f[j] => i = j
  <2>1. \A i, j \in DOMAIN r : r[i] = r[j] => i = j
    BY <1>3 DEF OwnReceipts
  <2> QED
    BY <1>4, <1>5, <2>1
<1>7. f \in Injection(S, T)
  BY <1>6 DEF Injection, IsInjective
<1>8. Cardinality(S) <= Cardinality(T)
  BY <1>2, <1>7, FS_Injection
<1> QED
  BY <1>1, <1>2, <1>8 DEF Full, HasRoom

\* The prefetch of types.ts:85 is the "max unacked messages the consumer holds
\* at once", neither more nor less, in every run in which no message is
\* requeued, whatever is published, polled, settled, reset or thrown.
THEOREM FreeSlotsAreUsedWithoutRequeue ==
  Spec /\ []NeverRequeued => []FreeSlotsAreUsed
<1>1. Init => OwnReceipts
  <2> SUFFICES ASSUME Init, NEW c \in Consumers PROVE DOMAIN received[c] = {}
    BY DEF OwnReceipts
  <2>1. received[c] = <<>>
    BY DEF Init
  <2> QED
    BY <2>1
<1>2. IInv /\ NeverRequeued /\ OwnReceipts /\ [Next]_vars => OwnReceipts'
  BY NextReceipts
<1>3. IInv /\ OwnReceipts /\ NoLostWakeup => FreeSlotsAreUsed
  <2> SUFFICES ASSUME IInv, OwnReceipts, NoLostWakeup, stack = <<>>, NEW q \in Queues \ broken
               PROVE  \/ Live(q) = {}
                      \/ \A c \in Range(consumers[q]) : ~HasRoom(c)
                      \/ \E m \in timers : msg[m].queue = q
    BY DEF FreeSlotsAreUsed
  <2>1. \/ Live(q) = {}
        \/ \A c \in Range(consumers[q]) : ~CanTake(c)
        \/ \E m \in timers : msg[m].queue = q
    BY DEF NoLostWakeup
  <2>2. \A c \in Range(consumers[q]) : c \in Consumers
    <3>1. consumers[q] \in Seq(Consumers)
      BY DEF IInv, TypeOK
    <3> QED
      BY <3>1, ElementOfSeq, LenProperties DEF Range
  <2>3. ASSUME NEW c \in Range(consumers[q]), ~CanTake(c) PROVE ~HasRoom(c)
    BY <2>2, <2>3, FullHolds DEF CanTake, HasRoom
  <2> QED
    BY <2>1, <2>3
<1> QED
  BY <1>1, <1>2, <1>3, SpecIInv, SpecNoLostWakeup, PTL DEF Spec

-----------------------------------------------------------------------------
\* The broker implements queues with acknowledgements.

\* The messages y, after msg: each moved as it may.
Shifted(y) ==
  /\ y \in Seq(Message) /\ DOMAIN y = Msgs
  /\ \A n \in Msgs : Deliveries!Becomes(Letter(msg[n]), Letter(y[n]))

\* A message that is there, and where it may go.
LEMMA Changes ==
  ASSUME NEW r \in Message, NEW s \in Message, s.queue = r.queue, s.dropped = r.dropped,
         \/ s.state = r.state /\ s.count = r.count
         \/ r.state \in {"ready", "requeued"} /\ s.state = "ready" /\ s.count = r.count
         \/ r.state \in {"ready", "requeued"} /\ s.state \in Settled /\ s.count = r.count
         \/ r.state = "unacked" /\ s.state # "unacked" /\ s.state # "dead" /\ s.count = r.count
         \/ r.state = "ready" /\ ~r.dropped /\ s.state \in {"unacked", "acked"} /\ s.count = r.count + 1
  PROVE  Deliveries!Becomes(Letter(r), Letter(s))
<1>1. /\ r.state \in {"ready", "unacked", "requeued", "acked", "nacked", "dead"}
      /\ s.state \in {"ready", "unacked", "requeued", "acked", "nacked", "dead"}
  BY DEF Message, Settled
<1>2. /\ Letter(r).queue = r.queue /\ Letter(r).place = Place(r) /\ Letter(r).given = r.count
      /\ Letter(s).queue = r.queue /\ Letter(s).place = Place(s) /\ Letter(s).given = s.count
  BY DEF Letter
<1>3. CASE r.dropped
  <2>1. Place(r) = "gone" /\ Place(s) = "gone"
    BY <1>3 DEF Place
  <2> QED
    BY <1>2, <1>3, <2>1 DEF Deliveries!Becomes, Deliveries!Stays
<1>4. CASE ~r.dropped
  <2>1. /\ r.state \in {"ready", "requeued"} => Place(r) = "waits"
        /\ r.state = "unacked" => Place(r) = "held"
        /\ r.state = "dead" => Place(r) = "dead"
        /\ r.state \in {"acked", "nacked"} => Place(r) = "gone"
    BY <1>4 DEF Place
  <2>2. /\ s.state \in {"ready", "requeued"} => Place(s) = "waits"
        /\ s.state = "unacked" => Place(s) = "held"
        /\ s.state = "dead" => Place(s) = "dead"
        /\ s.state \in {"acked", "nacked"} => Place(s) = "gone"
    BY <1>4 DEF Place
  <2>3. \/ Place(s) = Place(r) /\ s.count = r.count
        \/ Place(r) = "waits" /\ Place(s) \in {"dead", "gone"} /\ s.count = r.count
        \/ Place(r) = "held" /\ Place(s) # "held" /\ s.count = r.count
        \/ Place(r) = "waits" /\ Place(s) \in {"held", "gone"} /\ s.count = r.count + 1
    BY <1>1, <2>1, <2>2 DEF Settled
  <2> QED
    BY <1>2, <2>3
    DEF Deliveries!Becomes, Deliveries!Stays, Deliveries!IsGiven, Deliveries!Lapses, Deliveries!Leaves
<1> QED
  BY <1>3, <1>4

LEMMA Unshifted ==
  ASSUME Good(msg)
  PROVE  Shifted(msg)
<1>1. \A n \in Msgs : msg[n] \in Message
  BY MessageType DEF Good, Msgs
<1> QED
  BY <1>1, Changes DEF Good, Shifted, Msgs

LEMMA PoppedShifts ==
  ASSUME Good(msg), NEW q, NEW m, NEW by \in Consumers \cup {Poller, Nobody},
         m = None \/ IsNext(q, m)
  PROVE  Shifted(Popped(q, m, by))
<1>1. PICK y : y = Popped(q, m, by)
  OBVIOUS
<1>2. y \in Seq(Message) /\ DOMAIN y = Msgs
  BY <1>1, PoppedOK DEF Good, Taken
<1>3. ASSUME NEW n \in Msgs PROVE Deliveries!Becomes(Letter(msg[n]), Letter(y[n]))
  <2>1. PICK r \in Message, s \in Message :
          r = msg[n] /\ s = y[n] /\ r.count \in Nat /\ n # None
    BY <1>2, <1>3, MessageType DEF Good, Msgs, None
  <2>2. CASE n \in Passed(q)
    <3>1. s = [r EXCEPT !.state = "dead"] /\ r.state = "ready"
      BY <1>1, <2>1, <2>2 DEF Popped, Passed, Ready
    <3>2. s.queue = r.queue /\ s.dropped = r.dropped /\ s.state = "dead" /\ s.count = r.count
      BY <2>1, <3>1 DEF Message
    <3> QED
      BY <2>1, <3>1, <3>2, Changes DEF Settled
  <2>3. CASE n \notin Passed(q) /\ n = m
    <3>1. r.state = "ready" /\ ~r.dropped
      BY <2>1, <2>3 DEF IsNext, Live, Ready
    <3>2. PICK state, more : /\ state \in {"unacked", "acked"} /\ more = r.count + 1
                             /\ s = [r EXCEPT !.state = state, !.count = more, !.by = by]
      BY <1>1, <2>1, <2>3 DEF Popped
    <3>3. s.queue = r.queue /\ s.dropped = r.dropped /\ s.state = state /\ s.count = r.count + 1
      BY <2>1, <3>2 DEF Message
    <3> QED
      BY <2>1, <3>1, <3>2, <3>3, Changes
  <2>4. CASE n \notin Passed(q) /\ n # m
    <3>1. s = r
      BY <1>1, <2>1, <2>4 DEF Popped
    <3> QED
      BY <2>1, <3>1, Changes
  <2> QED
    BY <2>2, <2>3, <2>4
<1> QED
  BY <1>1, <1>2, <1>3 DEF Shifted

LEMMA FreedShifts ==
  ASSUME Good(msg), NEW m \in Msgs, NEW state \in {"acked", "nacked", "requeued", "ready"},
         \/ msg[m].state = "unacked"
         \/ msg[m].state = "requeued" /\ state = "ready"
  PROVE  Shifted(Freed(m, state))
<1>1. PICK y : y = Freed(m, state)
  OBVIOUS
<1>2. /\ y \in Seq(Message) /\ DOMAIN y = Msgs /\ y[m].state = state
      /\ \A n \in Msgs : n # m => y[n] = msg[n]
  BY <1>1, FreedOK DEF Good
<1>3. \A n \in Msgs : msg[n] \in Message /\ y[n] \in Message
  BY <1>2, MessageType DEF Good, Msgs
<1>4. PICK r \in Message, s \in Message : r = msg[m] /\ s = y[m]
  BY <1>3
<1>5. s = [r EXCEPT !.state = state, !.by = Nobody]
  BY <1>1, <1>4 DEF Freed, Msgs
<1>6. s.queue = r.queue /\ s.dropped = r.dropped /\ s.state = state /\ s.count = r.count
  BY <1>4, <1>5 DEF Message
<1>7. Deliveries!Becomes(Letter(r), Letter(s))
  BY <1>4, <1>6, Changes
<1>8. \A n \in Msgs : Deliveries!Becomes(Letter(msg[n]), Letter(msg[n]))
  BY <1>3, Changes
<1> QED
  BY <1>1, <1>2, <1>4, <1>7, <1>8 DEF Shifted

\* A message expires, or all are dropped.
LEMMA OthersShift ==
  ASSUME Good(msg), Reset \/ \E m \in Msgs : Expires(m)
  PROVE  Shifted(msg')
<1>1. \A n \in Msgs : msg[n] \in Message
  BY MessageType DEF Good, Msgs
<1>2. CASE Reset
  <2>1. PICK y : y = msg' /\ y = [n \in Msgs |-> [msg[n] EXCEPT !.dropped = TRUE]]
    BY <1>2 DEF Reset
  <2>2. ASSUME NEW n \in Msgs
        PROVE  y[n] \in Message /\ Deliveries!Becomes(Letter(msg[n]), Letter(y[n]))
    <3>1. PICK r \in Message : r = msg[n]
      BY <1>1
    <3>2. PICK s : s = [r EXCEPT !.dropped = TRUE]
      OBVIOUS
    <3>3. s \in Message /\ s.queue = r.queue /\ s.count = r.count /\ s.dropped
      BY <3>2 DEF Message
    <3>4. Letter(s) = [queue |-> r.queue, place |-> "gone", given |-> r.count]
      BY <3>3 DEF Letter, Place
    <3>5. Place(r) \in {"waits", "held", "dead", "gone"}
      BY DEF Place, Message, Settled
    <3>6. Deliveries!Becomes(Letter(r), Letter(s))
      BY <3>4, <3>5 DEF Letter, Deliveries!Becomes, Deliveries!Stays, Deliveries!Lapses,
                        Deliveries!Leaves, Deliveries!IsDrained
    <3> QED
      BY <2>1, <3>1, <3>2, <3>3, <3>6
  <2>3. y = [n \in DOMAIN msg |-> y[n]]
    BY <2>1 DEF Msgs
  <2>4. y \in Seq(Message) /\ DOMAIN y = DOMAIN msg
    BY <2>2, <2>3, Changed DEF Good, Msgs
  <2> QED
    BY <2>1, <2>2, <2>4 DEF Shifted, Msgs
<1>3. ASSUME NEW m \in Msgs, Expires(m) PROVE Shifted(msg')
  <2>1. PICK r \in Message : r = msg[m]
    BY <1>1
  <2>2. PICK s : s = [r EXCEPT !.expired = TRUE]
    OBVIOUS
  <2>3. s \in Message /\ s.queue = r.queue /\ s.count = r.count /\ s.state = r.state
        /\ s.dropped = r.dropped
    BY <2>2 DEF Message
  <2>4. PICK y : y = msg' /\ y = [msg EXCEPT ![m] = s]
    BY <1>3, <2>1, <2>2 DEF Expires
  <2>5. \A n \in Msgs : y[n] = IF n = m THEN s ELSE msg[n]
    BY <2>4 DEF Msgs
  <2>6. \A n \in Msgs : y[n] \in Message
    BY <1>1, <2>3, <2>5
  <2>7. y \in Seq(Message) /\ DOMAIN y = Msgs
    BY <2>4, <2>6, Changed DEF Good, Msgs
  <2>8. Deliveries!Becomes(Letter(r), Letter(s))
    BY <2>1, <2>3, Changes
  <2>9. \A n \in Msgs : Deliveries!Becomes(Letter(msg[n]), Letter(msg[n]))
    BY <1>1, Changes
  <2> QED
    BY <2>1, <2>4, <2>5, <2>7, <2>8, <2>9 DEF Shifted
<1> QED
  BY <1>2, <1>3

\* A step shifts the messages, and may append one.
LEMMA StepShifts ==
  ASSUME IInv, [Next]_vars
  PROVE  \E y : /\ Shifted(y)
                /\ msg' = y \/ \E q \in Queues : msg' = Append(y, Fresh(q))
<1>1. TypeOK /\ Good(msg)
  BY DEF IInv
<1>2. Shifted(msg)
  BY <1>1, Unshifted
<1>3. CASE UNCHANGED msg
  BY <1>2, <1>3
<1>4. ASSUME NEW r \in Routes, Publish(r) PROVE \E q \in Queues : msg' = Append(msg, Fresh(q))
  <2>1. r \in Seq(Queues) /\ r # <<>>
    BY RabbitAssumption DEF RabbitAssumption
  <2>2. Head(r) \in Queues
    BY <2>1, HeadTailProperties
  <2> QED
    BY <1>4, <2>2 DEF Publish, NewMessage, Fresh
<1>5. ASSUME NEW q \in Queues, NEW b \in BOOLEAN, GetNull(q) \/ Get(q, b) PROVE Shifted(msg')
  BY <1>1, <1>5, PoppedShifts DEF Get, GetNull
<1>6. ASSUME NEW m \in Msgs, Ack(m) \/ Nack(m) \/ NackRequeue(m) PROVE Shifted(msg')
  <2>1. PICK state \in {"acked", "nacked", "requeued"} : Settle(m, state)
    BY <1>6 DEF Ack, Nack, NackRequeue
  <2>2. msg' = Freed(m, state) /\ msg[m].state = "unacked"
    BY <2>1 DEF Settle, IsOpen
  <2>3. Shifted(Freed(m, state))
    BY <1>1, <2>2, FreedShifts
  <2> QED
    BY <2>2, <2>3
<1>7. ASSUME NEW m \in Msgs, TimerFires(m) PROVE Shifted(msg')
  BY <1>1, <1>2, <1>7, FreedShifts DEF TimerFires, BackToReady
<1>8. CASE Deliver
  <2>1. PICK i \in DOMAIN consumers[Top.queue], m \in Msgs :
          /\ IsNext(Top.queue, m)
          /\ msg' = Popped(Top.queue, m, consumers[Top.queue][i])
    BY <1>8 DEF Deliver
  <2>2. consumers[Top.queue] \in Seq(Consumers)
    BY <1>1, <1>8, StackFacts DEF TypeOK, Deliver, DispatchRuns, Frame
  <2>3. consumers[Top.queue][i] \in Consumers
    BY <2>2, ElementOfSeq, LenProperties
  <2> QED
    BY <1>1, <2>1, <2>3, PoppedShifts
<1>9. CASE DispatchEnds
  <2>1. PICK y : /\ y = IF NoTurn(Top) THEN msg ELSE Popped(Top.queue, None, Nobody)
                 /\ \/ msg' = y
                    \/ Top.rest # <<>> /\ msg' = Append(y, NewMessage(Top.rest))
    BY <1>9 DEF DispatchEnds
  <2>2. Shifted(y)
    BY <1>1, <1>2, <2>1, PoppedShifts
  <2>3. CASE Top.rest # <<>> /\ msg' = Append(y, NewMessage(Top.rest))
    <3>1. Top.rest \in Seq(Queues)
      BY <1>1, <1>9, StackFacts DEF DispatchEnds, DispatchRuns, Frame
    <3>2. Head(Top.rest) \in Queues
      BY <2>3, <3>1, HeadTailProperties
    <3> QED
      BY <2>2, <2>3, <3>2 DEF NewMessage, Fresh
  <2> QED
    BY <2>1, <2>2, <2>3
<1>10. CASE HandlerReturns
  <2>1. PICK m : m = Top.msg
    OBVIOUS
  <2>2. m \in Msgs
    BY <1>1, <1>10, <2>1, StackFacts DEF HandlerReturns, Frame
  <2>3. PICK isAcked : /\ isAcked => msg[m].state = "unacked"
                       /\ msg' = IF isAcked THEN Freed(m, "acked") ELSE msg
    <3>1. PICK c : c = consumers[Top.queue][Top.at]
      OBVIOUS
    <3>2. msg' = IF option[c].noAck /\ msg[m].state = "unacked" THEN Freed(m, "acked") ELSE msg
      BY <1>10, <2>1, <3>1 DEF HandlerReturns
    <3> QED
      BY <3>2
  <2>4. CASE isAcked
    BY <1>1, <2>2, <2>3, <2>4, FreedShifts
  <2>5. CASE ~isAcked
    BY <1>2, <2>3, <2>5
  <2> QED
    BY <2>4, <2>5
<1>11. CASE HandlerThrows \/ UNCHANGED vars
  BY <1>3, <1>11 DEF HandlerThrows, vars
<1>12. ASSUME NEW c \in Consumers, Consume(c) \/ Cancel(c) PROVE UNCHANGED msg
  BY <1>12 DEF Consume, Cancel
<1>13. CASE Reset \/ \E m \in Msgs : Expires(m)
  BY <1>1, <1>13, OthersShift
<1> QED
  BY <1>2, <1>3, <1>4, <1>5, <1>6, <1>7, <1>8, <1>9, <1>10, <1>11, <1>12, <1>13 DEF Next, Loop

\* Whoever is given for the first time comes after all of its queue that were
\* enqueued before and are there.
LEMMA GivenInTurn ==
  ASSUME Good(msg')
  PROVE  \A m \in DOMAIN Letters' : Letters'[m].given > 0 => Deliveries!InTurn(m)
<1>1. Letters' = [n \in DOMAIN msg' |-> Letter(msg'[n])]
  BY DEF Letters, Msgs
<1>2. SUFFICES ASSUME NEW m \in DOMAIN msg', NEW n \in DOMAIN msg', n < m,
                      msg'[n].queue = msg'[m].queue, msg'[m].count > 0
               PROVE  msg'[n].count > 0 \/ Place(msg'[n]) \in {"dead", "gone"}
  BY <1>1 DEF Deliveries!InTurn, Letter
<1>3. msg'[n].count > 0 \/ msg'[n].state = "dead" \/ msg'[n].dropped
  BY <1>2 DEF Good
<1> QED
  BY <1>3 DEF Place

LEMMA NextImplements ==
  ASSUME IInv, IInv', [Next]_vars
  PROVE  [Deliveries!Next]_Letters
<1>1. /\ Letters = [n \in DOMAIN msg |-> Letter(msg[n])]
      /\ Letters' = [n \in DOMAIN msg' |-> Letter(msg'[n])]
  BY DEF Letters, Msgs
<1>2. PICK y : /\ Shifted(y)
               /\ msg' = y \/ \E q \in Queues : msg' = Append(y, Fresh(q))
  BY StepShifts
<1>3. PICK size \in Nat : DOMAIN msg = 1..size
  BY LenProperties DEF IInv, Good
<1>4. y \in Seq(Message) /\ DOMAIN y = 1..size /\ Len(y) = size
  <2>1. y \in Seq(Message) /\ DOMAIN y = 1..size
    BY <1>2, <1>3 DEF Shifted, Msgs
  <2>2. Len(y) \in Nat /\ DOMAIN y = 1..Len(y)
    BY <2>1, LenProperties
  <2> QED
    BY <1>3, <2>1, <2>2
<1>5. DOMAIN Letters = 1..size /\ Len(Letters) = size
  BY <1>1, <1>3
<1>6. \A m \in 1..size : Deliveries!Becomes(Letters[m], Letter(y[m]))
  BY <1>1, <1>2, <1>3 DEF Shifted, Msgs
<1>7. CASE msg' = y
  <2>1. DOMAIN Letters' = 1..size /\ Len(Letters') = size
    BY <1>1, <1>4, <1>7
  <2>2. \A m \in 1..size : Deliveries!Becomes(Letters[m], Letters'[m])
    BY <1>1, <1>4, <1>6, <1>7
  <2> QED
    BY <1>5, <2>1, <2>2, GivenInTurn DEF IInv, Deliveries!Next, Deliveries!Moves, Deliveries!IsOrdered, Deliveries!IsFirstGiven
<1>8. ASSUME NEW q \in Queues, msg' = Append(y, Fresh(q)) PROVE Deliveries!Next
  <2>1. PICK last \in Nat \ {0} : last = size + 1
    BY <1>3
  <2>2. Fresh(q) \in Message
    BY DEF Fresh, Message
  <2>3. /\ msg' \in Seq(Message) /\ Len(msg') = last
        /\ msg'[last] = Fresh(q)
        /\ \A n \in 1..size : msg'[n] = y[n]
    BY <1>4, <1>8, <2>1, <2>2, AppendProperties
  <2>4. DOMAIN msg' = 1..last
    BY <2>3, LenProperties
  <2>5. DOMAIN Letters' = 1..last /\ Len(Letters') = last
    BY <1>1, <2>4
  <2>6. ASSUME NEW m \in 1..size
        PROVE  m \in 1..last /\ Deliveries!Becomes(Letters[m], Letters'[m])
    <3>1. m \in 1..last
      BY <2>1
    <3>2. Letters'[m] = Letter(msg'[m])
      BY <1>1, <2>4, <3>1
    <3>3. Letters'[m] = Letter(y[m])
      BY <2>3, <3>2
    <3> QED
      BY <1>6, <3>1, <3>3
  <2>7. \A m \in 1..last : m \in 1..size \/ m = last
    BY <2>1
  <2>8. last \in 1..last /\ last \notin 1..size
    BY <2>1
  <2>9. Deliveries!Arrives(Letters'[last])
    <3>1. Letters'[last] = Letter(Fresh(q))
      BY <1>1, <2>3, <2>4, <2>8
    <3>2. Letter(Fresh(q)) = [queue |-> q, place |-> "waits", given |-> 0]
      BY DEF Letter, Place, Fresh
    <3> QED
      BY <3>1, <3>2 DEF Deliveries!Arrives
  <2> QED
    BY <1>5, <2>1, <2>5, <2>6, <2>7, <2>8, <2>9, GivenInTurn
    DEF IInv, Deliveries!Next, Deliveries!Moves, Deliveries!IsOrdered, Deliveries!IsFirstGiven
<1> QED
  BY <1>2, <1>7, <1>8

\* The broker emulation is queues with acknowledgements, for any consumers,
\* queues, routes and options: however dispatches nest, timers fire and resets
\* come between, every step is one of Delivery or none.
THEOREM SpecImplementsDelivery == Spec => ImplementsDelivery
<1>1. Init => Deliveries!Init
  <2> SUFFICES ASSUME Init PROVE Letters = <<>>
    BY DEF Deliveries!Init
  <2>1. msg = <<>> /\ DOMAIN <<>> = {}
    BY DEF Init
  <2> QED
    BY <2>1 DEF Letters, Msgs
<1>2. IInv /\ IInv' /\ [Next]_vars => [Deliveries!Next]_Letters
  BY NextImplements
<1> QED
  BY <1>1, <1>2, SpecIInv, PTL DEF Spec, ImplementsDelivery, Deliveries!Spec
=============================================================================
