------------------------ MODULE RealtimeEngineProofs ------------------------
(***************************************************************************)
(* What holds of the realtime engine for any channels, handlers, users,    *)
(* scenarios and backpressure limit, whatever happens while calls sleep.   *)
(***************************************************************************)
EXTENDS RealtimeEngine, SequenceTheorems, TLAPS

\* What a sleeping call has with it.
LEMMA SleeperType ==
  ASSUME NEW s \in Sleepers
  PROVE  /\ s.ch \in Channels
         /\ s.step \in {"connectToSubscribe", "subscribed"} => s.arg \in Handlers
         /\ s.step = "connectToTrack" => s.arg \in Users
         /\ s.step = "published" => s.arg \in Publishes
BY DEF Sleepers

\* What is left when the call that slept longest wakes up.
LEMMA Waking ==
  ASSUME TypeOK, latency # <<>>
  PROVE  /\ Woken \in Sleepers
         /\ Woken = latency[1]
         /\ 1 \in DOMAIN latency
         /\ Tail(latency) \in Seq(Sleepers)
         /\ DOMAIN Tail(latency) = 1..(Len(latency) - 1)
         /\ DOMAIN latency = 1..Len(latency)
         /\ Len(latency) \in Nat
         /\ \A i \in DOMAIN Tail(latency) :
              i + 1 \in DOMAIN latency /\ Tail(latency)[i] = latency[i + 1]
BY HeadTailProperties, LenProperties, EmptySeq DEF TypeOK, Woken

\* A call that falls asleep behind those of ls.
LEMMA Sleeping ==
  ASSUME NEW S, NEW ls \in Seq(S), NEW s \in S
  PROVE  /\ Append(ls, s) \in Seq(S)
         /\ DOMAIN Append(ls, s) = 1..(Len(ls) + 1)
         /\ DOMAIN ls = 1..Len(ls)
         /\ Len(ls) \in Nat
         /\ \A i \in DOMAIN ls : Append(ls, s)[i] = ls[i]
         /\ Append(ls, s)[Len(ls) + 1] = s
BY AppendProperties, LenProperties

\* A function on 1..n is a sequence, empty when n is negative.
LEMMA MappedType ==
  ASSUME NEW S, NEW n \in Int, NEW f \in [1..n -> S]
  PROVE  /\ f \in Seq(S)
         /\ n >= 0 => Len(f) = n
<1>1. CASE n >= 0
  BY <1>1, SeqDef
<1>2. CASE n < 0
  <2>1. 1..n = 1..0
    BY <1>2
  <2>2. f \in [1..0 -> S]
    BY <2>1
  <2> QED
    BY <1>2, <2>2, SeqDef
<1> QED
  BY <1>1, <1>2

\* The channels of a state with good types.
ChannelsOK(ch) ==
  /\ ch \in [Channels -> ChannelState]
  /\ \A c \in Channels : ~ch[c].open => ch[c] = Gone

LEMMA GoneType == Gone \in ChannelState /\ Gone.timers = <<>> /\ Gone.handlers = {}
BY EmptySeq DEF Gone, ChannelState

\* An open channel, and its fields.
LEMMA OpenType ==
  ASSUME NEW hs \in SUBSET Handlers, NEW us \in SUBSET Users,
         NEW ts \in Seq(Nat), NEW n \in Nat
  PROVE  /\ Open(hs, us, ts, n) \in ChannelState
         /\ Open(hs, us, ts, n).open
         /\ Open(hs, us, ts, n).handlers = hs
         /\ Open(hs, us, ts, n).timers = ts
BY DEF Open, ChannelState

\* The fields of a channel.
LEMMA ChannelType ==
  ASSUME NEW ch, ChannelsOK(ch), NEW c \in Channels
  PROVE  /\ ch[c] \in ChannelState
         /\ ch[c].open \in BOOLEAN
         /\ ch[c].handlers \in SUBSET Handlers
         /\ ch[c].presence \in SUBSET Users
         /\ ch[c].timers \in Seq(Nat)
         /\ ch[c].next \in Nat
BY DEF ChannelsOK, ChannelState

\* One channel is replaced.
LEMMA PlacedType ==
  ASSUME NEW ch, ChannelsOK(ch), NEW c \in Channels, NEW s \in ChannelState,
         s.open \/ s = Gone
  PROVE  ChannelsOK([ch EXCEPT ![c] = s])
BY DEF ChannelsOK

LEMMA ClearedType ==
  ASSUME NEW ch, ChannelsOK(ch)
  PROVE  /\ ChannelsOK(Cleared(ch))
         /\ \A c \in Channels : Cleared(ch)[c].timers = <<>>
<1>1. ASSUME NEW c \in Channels
      PROVE  /\ Cleared(ch)[c] \in ChannelState
             /\ Cleared(ch)[c].open \/ Cleared(ch)[c] = Gone
             /\ Cleared(ch)[c].timers = <<>>
  <2>1. <<>> \in Seq(Nat)
    BY EmptySeq
  <2>2. CASE ch[c].open
    <3>1. Cleared(ch)[c] = Open(ch[c].handlers, ch[c].presence, <<>>, ch[c].next)
      BY <2>2 DEF Cleared
    <3>2. /\ ch[c].handlers \in SUBSET Handlers /\ ch[c].presence \in SUBSET Users
          /\ ch[c].next \in Nat
      BY ChannelType
    <3> QED
      BY <2>1, <3>1, <3>2 DEF Open, ChannelState
  <2>3. CASE ~ch[c].open
    BY <2>3, GoneType DEF Cleared
  <2> QED
    BY <2>2, <2>3
<1>2. Cleared(ch) = [c \in Channels |-> Cleared(ch)[c]]
  BY DEF Cleared
<1> QED
  BY <1>1, <1>2 DEF ChannelsOK

-----------------------------------------------------------------------------
\* Types.

\* The state of the channels has its type.
LEMMA TypedChannels == TypeOK => ChannelsOK(channel)
BY DEF TypeOK, ChannelsOK

LEMMA InitType == Init => TypeOK
<1> SUFFICES ASSUME Init PROVE TypeOK
  OBVIOUS
<1>1. latency \in Seq(Sleepers) /\ pubs \in Seq(Channels) /\ pending \in Seq(Publishes)
      /\ sent \in Seq(Publishes) /\ Len(pending) = 0
  BY EmptySeq DEF Init
<1>2. channel \in [Channels -> ChannelState]
  BY GoneType DEF Init
<1> QED
  BY <1>1, <1>2, RealtimeEngineAssumption DEF Init, TypeOK, RealtimeEngineAssumption

\* A channel that gets a handler, or a member.
LEMMA AddType ==
  ASSUME TypeOK, NEW ls \in Seq(Sleepers), NEW c \in Channels, NEW h \in Handlers,
         Add(ls, c, h)
  PROVE  /\ ChannelsOK(channel')
         /\ latency' \in Seq(Sleepers)
         /\ channel'[c].handlers = channel[c].handlers \cup {h}
         /\ channel'[c].timers = channel[c].timers
         /\ \A d \in Channels \ {c} : channel'[d] = channel[d]
<1>1. Sleep("subscribed", c, h) \in Sleepers
  BY DEF Sleepers, Sleep
<1>2. latency' \in Seq(Sleepers)
  BY <1>1, AppendProperties DEF Add
<1> DEFINE s == Open(channel[c].handlers \cup {h}, channel[c].presence, channel[c].timers,
                     channel[c].next)
<1>3. /\ s \in ChannelState /\ s.open
      /\ s.handlers = channel[c].handlers \cup {h} /\ s.timers = channel[c].timers
  BY TypedChannels, ChannelType, OpenType
<1>4. channel' = [channel EXCEPT ![c] = s]
  BY DEF Add
<1> HIDE DEF s
<1>5. channel'[c] = s /\ \A d \in Channels \ {c} : channel'[d] = channel[d]
  BY <1>4 DEF TypeOK
<1> QED
  BY <1>2, <1>3, <1>4, <1>5, TypedChannels, PlacedType

LEMMA TrackType ==
  ASSUME TypeOK, NEW c \in Channels, NEW u \in Users, Track(c, u)
  PROVE  /\ ChannelsOK(channel')
         /\ \A d \in Channels : channel'[d].handlers = channel[d].handlers
         /\ \A d \in Channels : channel'[d].timers = channel[d].timers
<1> DEFINE s == Open(channel[c].handlers, channel[c].presence \cup {u}, channel[c].timers,
                     channel[c].next)
<1>1. /\ s \in ChannelState /\ s.open
      /\ s.handlers = channel[c].handlers /\ s.timers = channel[c].timers
  BY TypedChannels, ChannelType, OpenType
<1>2. channel' = [channel EXCEPT ![c] = s]
  BY DEF Track
<1> HIDE DEF s
<1>3. \A d \in Channels : channel'[d] = IF d = c THEN s ELSE channel[d]
  BY <1>2 DEF TypeOK
<1> QED
  BY <1>1, <1>2, <1>3, TypedChannels, PlacedType

LEMMA SubscribeType ==
  ASSUME TypeOK, NEW c \in Channels, NEW h \in Handlers, Subscribe(c, h)
  PROVE  TypeOK'
<1>1. Sleep("connectToSubscribe", c, h) \in Sleepers
  BY DEF Sleepers, Sleep
<1>2. latency \in Seq(Sleepers)
  BY DEF TypeOK
<1>3. CASE conn = "connected"
  <2>1. ChannelsOK(channel') /\ latency' \in Seq(Sleepers)
    BY <1>2, <1>3, AddType DEF Subscribe
  <2> QED
    BY <1>3, <2>1 DEF Subscribe, TypeOK, Publishes, Sleepers, ChannelsOK
<1>4. CASE conn # "connected"
  <2>1. latency' \in Seq(Sleepers)
    BY <1>1, <1>2, <1>4, AppendProperties DEF Subscribe
  <2> QED
    BY <1>4, <2>1 DEF Subscribe, TypeOK, Publishes, Sleepers
<1> QED
  BY <1>3, <1>4

\* What the connection of ensureConnected() does to the queued publishes.
LEMMA EnsureType ==
  ASSUME TypeOK, EnsureConnected
  PROVE  /\ conn' = "connected"
         /\ stranded' \subseteq Publishes
         /\ stranded \subseteq stranded'
         /\ \A i \in DOMAIN pending : pending[i] \in stranded'
<1>1. pending \in Seq(Publishes) /\ stranded \subseteq Publishes
  BY DEF TypeOK
<1>2. \A i \in DOMAIN pending : pending[i] \in Publishes
  BY <1>1, ElementOfSeq, LenProperties
<1> QED
  BY <1>1, <1>2 DEF EnsureConnected, ToSet

LEMMA ConnectedForSubscribeType ==
  ASSUME TypeOK, ConnectedForSubscribe
  PROVE  TypeOK'
<1>1. latency # <<>> /\ Woken.step = "connectToSubscribe"
  BY DEF ConnectedForSubscribe, Wakes, Woken
<1>2. Woken.ch \in Channels /\ Woken.arg \in Handlers /\ Tail(latency) \in Seq(Sleepers)
  BY <1>1, Waking, SleeperType
<1>3. ChannelsOK(channel') /\ latency' \in Seq(Sleepers)
  BY <1>2, AddType DEF ConnectedForSubscribe
<1>4. conn' = "connected" /\ stranded' \subseteq Publishes
  BY EnsureType DEF ConnectedForSubscribe
<1> QED
  BY <1>3, <1>4 DEF ConnectedForSubscribe, TypeOK, Publishes, Sleepers, ChannelsOK

\* What subscribe() leaves of its channel.
LEMMA SubscribedChannel ==
  ASSUME TypeOK, Subscribed
  PROVE  /\ ChannelsOK(channel')
         /\ Woken.ch \in Channels
         /\ \A d \in Channels : channel'[d].handlers = channel[d].handlers
         /\ \A d \in Channels \ {Woken.ch} : channel'[d].timers = channel[d].timers
<1>1. latency # <<>> /\ Woken.step = "subscribed"
  BY DEF Subscribed, Wakes, Woken
<1> DEFINE c == Woken.ch
           n == Len(Scenario[c])
           m == n + 1 - channel[c].next
           more == [i \in 1..m |-> channel[c].next + i - 1]
           s == Open(channel[c].handlers, channel[c].presence, channel[c].timers \o more, n + 1)
<1>2. c \in Channels
  BY <1>1, Waking, SleeperType
<1>3. n \in Nat /\ channel[c].next \in Nat /\ m \in Int
  BY <1>2, RealtimeEngineAssumption, LenProperties, TypedChannels, ChannelType
     DEF RealtimeEngineAssumption
<1>4. more \in Seq(Nat)
  <2>1. more \in [1..m -> Nat]
    BY <1>3
  <2> HIDE DEF more, m
  <2> QED
    BY <1>3, <2>1, MappedType
<1>5. s \in ChannelState /\ s.open /\ s.handlers = channel[c].handlers
  <2>1. channel[c].timers \o more \in Seq(Nat)
    BY <1>2, <1>4, TypedChannels, ChannelType, ConcatProperties
  <2>2. channel[c].handlers \in SUBSET Handlers /\ channel[c].presence \in SUBSET Users
    BY <1>2, TypedChannels, ChannelType
  <2>3. n + 1 \in Nat
    BY <1>3
  <2> HIDE DEF more, n
  <2> QED
    BY <2>1, <2>2, <2>3 DEF Open, ChannelState
<1>6. channel' = channel \/ channel' = [channel EXCEPT ![c] = s]
  BY DEF Subscribed
<1> HIDE DEF s, c
<1>7. \A d \in Channels : channel'[d] = channel[d] \/ (d = c /\ channel'[d] = s)
  <2>1. CASE channel' = channel
    BY <2>1
  <2>2. CASE channel' = [channel EXCEPT ![c] = s]
    BY <1>2, <2>2 DEF TypeOK
  <2> QED
    BY <1>6, <2>1, <2>2
<1> QED
  BY <1>2, <1>5, <1>6, <1>7, TypedChannels, PlacedType DEF c

LEMMA SubscribedType ==
  ASSUME TypeOK, Subscribed
  PROVE  TypeOK'
<1>1. latency # <<>> /\ Woken.step = "subscribed"
  BY DEF Subscribed, Wakes, Woken
<1>2. Woken.ch \in Channels /\ Woken.arg \in Handlers /\ Tail(latency) \in Seq(Sleepers)
  BY <1>1, Waking, SleeperType
<1>3. handles' \subseteq Channels \X Handlers
  BY <1>2 DEF Subscribed, TypeOK
<1> QED
  BY <1>2, <1>3, SubscribedChannel DEF Subscribed, TypeOK, Publishes, Sleepers, ChannelsOK

LEMMA UnsubscribeType ==
  ASSUME TypeOK, NEW c \in Channels, NEW h \in Handlers, Unsubscribe(c, h)
  PROVE  TypeOK'
<1> DEFINE rest == channel[c].handlers \ {h}
           s == Open(rest, channel[c].presence, channel[c].timers, channel[c].next)
<1>1. s \in ChannelState /\ s.open
  BY TypedChannels, ChannelType, OpenType
<1>2. Gone \in ChannelState
  BY GoneType
<1>3. channel' = [channel EXCEPT ![c] = Gone] \/ channel' = [channel EXCEPT ![c] = s]
  BY DEF Unsubscribe, Left
<1> HIDE DEF s
<1>4. ChannelsOK(channel')
  BY <1>1, <1>2, <1>3, TypedChannels, PlacedType
<1> QED
  BY <1>4 DEF Unsubscribe, TypeOK, Publishes, Sleepers, ChannelsOK

LEMMA TrackPresenceType ==
  ASSUME TypeOK, NEW c \in Channels, NEW u \in Users, TrackPresence(c, u)
  PROVE  TypeOK'
<1>1. Sleep("connectToTrack", c, u) \in Sleepers
  BY DEF Sleepers, Sleep
<1>2. CASE conn = "connected"
  BY <1>2, TrackType DEF TrackPresence, TypeOK, Publishes, Sleepers, ChannelsOK
<1>3. CASE conn # "connected"
  <2>1. latency' \in Seq(Sleepers)
    <3>1. latency \in Seq(Sleepers)
      BY DEF TypeOK
    <3>2. latency' = Append(latency, Sleep("connectToTrack", c, u))
      BY <1>3 DEF TrackPresence
    <3> QED
      BY <1>1, <3>1, <3>2, AppendProperties
  <2> QED
    BY <1>3, <2>1 DEF TrackPresence, TypeOK, Publishes, Sleepers
<1> QED
  BY <1>2, <1>3

LEMMA ConnectedForTrackType ==
  ASSUME TypeOK, ConnectedForTrack
  PROVE  TypeOK'
<1>1. latency # <<>> /\ Woken.step = "connectToTrack"
  BY DEF ConnectedForTrack, Wakes, Woken
<1>2. Woken.ch \in Channels /\ Woken.arg \in Users /\ Tail(latency) \in Seq(Sleepers)
  BY <1>1, Waking, SleeperType
<1>3. ChannelsOK(channel')
  BY <1>2, TrackType DEF ConnectedForTrack
<1>4. conn' = "connected" /\ stranded' \subseteq Publishes
  BY EnsureType DEF ConnectedForTrack
<1> QED
  BY <1>2, <1>3, <1>4 DEF ConnectedForTrack, TypeOK, Publishes, Sleepers, ChannelsOK

LEMMA UntrackPresenceType ==
  ASSUME TypeOK, NEW c \in Channels, NEW u \in Users, UntrackPresence(c, u)
  PROVE  TypeOK'
<1> DEFINE s == Open(channel[c].handlers, channel[c].presence \ {u}, channel[c].timers,
                     channel[c].next)
<1>1. s \in ChannelState /\ s.open
  BY TypedChannels, ChannelType, OpenType
<1>2. channel' = [channel EXCEPT ![c] = s]
  BY DEF UntrackPresence
<1> HIDE DEF s
<1>3. ChannelsOK(channel')
  BY <1>1, <1>2, TypedChannels, PlacedType
<1> QED
  BY <1>3 DEF UntrackPresence, TypeOK, Publishes, Sleepers, ChannelsOK

\* A publish gets a number of its own, greater than those before it.
LEMMA Numbered ==
  ASSUME TypeOK, NEW c \in Channels, Publish(c)
  PROVE  /\ pubs' \in Seq(Channels)
         /\ Publishes = 1..Len(pubs) /\ Publishes' = 1..(Len(pubs) + 1)
         /\ Len(pubs) \in Nat
         /\ \A n \in Publishes : pubs'[n] = pubs[n]
         /\ Sleepers \subseteq Sleepers'
<1>1. pubs \in Seq(Channels) /\ pubs' = Append(pubs, c)
  BY DEF TypeOK, Publish
<1>2. /\ pubs' \in Seq(Channels) /\ Len(pubs') = Len(pubs) + 1
      /\ Len(pubs) \in Nat /\ DOMAIN pubs = 1..Len(pubs)
      /\ \A n \in 1..Len(pubs) : pubs'[n] = pubs[n]
  BY <1>1, AppendProperties, LenProperties
<1>3. DOMAIN pubs' = 1..(Len(pubs) + 1)
  BY <1>2, LenProperties
<1>4. Publishes = 1..Len(pubs) /\ Publishes' = 1..(Len(pubs) + 1)
  BY <1>2, <1>3 DEF Publishes
<1>5. Publishes \subseteq Publishes'
  BY <1>2, <1>4
<1>6. Sleepers \subseteq Sleepers'
  BY <1>5 DEF Sleepers
<1> QED
  BY <1>2, <1>4, <1>6

LEMMA PublishType ==
  ASSUME TypeOK, NEW c \in Channels, Publish(c)
  PROVE  TypeOK'
<1> DEFINE n == Len(pubs) + 1
<1>1. n \in Publishes' /\ Publishes \subseteq Publishes'
  BY Numbered
<1>2. /\ latency \in Seq(Sleepers') /\ pending \in Seq(Publishes')
      /\ sent \in Seq(Publishes') /\ stranded \subseteq Publishes'
  BY <1>1, Numbered, SeqMonotonic DEF TypeOK
<1>3. Sleep("published", c, n) \in Sleepers'
  BY <1>1 DEF Sleepers, Sleep
<1>4. latency' \in Seq(Sleepers')
  <2>1. latency' = latency \/ latency' = Append(latency, Sleep("published", c, n))
    BY DEF Publish
  <2> QED
    <3>1. Append(latency, Sleep("published", c, n)) \in Seq(Sleepers')
      BY <1>2, <1>3, AppendProperties
    <3> QED
      BY <1>2, <2>1, <3>1
<1>5. pending' \in Seq(Publishes') /\ Len(pending') <= BackpressureLimit
  <2>1. \/ pending' = pending
        \/ Len(pending) < BackpressureLimit /\ pending' = Append(pending, n)
    BY DEF Publish
  <2>2. CASE pending' = pending
    BY <1>2, <2>2 DEF TypeOK
  <2>3. CASE Len(pending) < BackpressureLimit /\ pending' = Append(pending, n)
    <3>1. pending' \in Seq(Publishes') /\ Len(pending') = Len(pending) + 1
      BY <1>1, <1>2, <2>3, AppendProperties
    <3>2. Len(pending) \in Nat
      BY <1>2, LenProperties
    <3> QED
      BY <2>3, <3>1, <3>2, RealtimeEngineAssumption DEF RealtimeEngineAssumption
  <2> QED
    BY <2>1, <2>2, <2>3
<1> QED
  BY <1>2, <1>4, <1>5, Numbered DEF Publish, TypeOK

LEMMA PublishedType ==
  ASSUME TypeOK, Published
  PROVE  TypeOK'
<1>1. latency # <<>> /\ Woken.step = "published"
  BY DEF Published, Wakes, Woken
<1>2. Woken.arg \in Publishes /\ Tail(latency) \in Seq(Sleepers)
  BY <1>1, Waking, SleeperType
<1>3. sent' \in Seq(Publishes)
  BY <1>2, AppendProperties DEF Published, TypeOK
<1> QED
  BY <1>2, <1>3 DEF Published, TypeOK, Publishes, Sleepers

LEMMA ReconnectType ==
  ASSUME TypeOK, Reconnect
  PROVE  TypeOK'
BY DEF Reconnect, Reconnecting, TypeOK, Publishes, Sleepers

\* What the flush adds to the sleepers.
LEMMA FlushedType ==
  ASSUME TypeOK, Reconnected
  PROVE  /\ Len(pending) \in Nat /\ Len(latency) \in Nat
         /\ latency' \in Seq(Sleepers)
         /\ Len(latency') = Len(latency) + Len(pending)
         /\ \A i \in 1..(Len(latency) + Len(pending)) :
              latency'[i] = IF i <= Len(latency) THEN latency[i]
                            ELSE LET n == pending[i - Len(latency)]
                                 IN Sleep("published", pubs[n], n)
<1> DEFINE more == [i \in DOMAIN pending |-> Sleep("published", pubs[pending[i]], pending[i])]
<1>1. /\ pending \in Seq(Publishes) /\ Len(pending) \in Nat /\ DOMAIN pending = 1..Len(pending)
      /\ latency \in Seq(Sleepers) /\ Len(latency) \in Nat
      /\ pubs \in Seq(Channels) /\ Publishes = 1..Len(pubs)
  BY LenProperties DEF TypeOK, Publishes
<1>2. \A i \in DOMAIN pending : pending[i] \in Publishes /\ pubs[pending[i]] \in Channels
  BY <1>1, ElementOfSeq
<1>3. more \in [1..Len(pending) -> Sleepers]
  BY <1>1, <1>2 DEF Sleepers, Sleep
<1>4. \A i \in 1..Len(pending) : more[i] = Sleep("published", pubs[pending[i]], pending[i])
  BY <1>1
<1>5. latency' = latency \o more
  BY DEF Reconnected, Flushed
<1> HIDE DEF more
<1>6. more \in Seq(Sleepers) /\ Len(more) = Len(pending)
  BY SMTT(30), <1>1, <1>3, MappedType
<1>7. /\ latency' \in Seq(Sleepers) /\ Len(latency') = Len(latency) + Len(pending)
      /\ \A i \in 1..(Len(latency) + Len(pending)) :
           latency'[i] = IF i <= Len(latency) THEN latency[i] ELSE more[i - Len(latency)]
  <2>1. /\ latency \o more \in Seq(Sleepers)
        /\ Len(latency \o more) = Len(latency) + Len(more)
        /\ \A i \in 1..(Len(latency) + Len(more)) :
             (latency \o more)[i] = IF i <= Len(latency) THEN latency[i]
                                   ELSE more[i - Len(latency)]
    BY <1>1, <1>6, ConcatProperties
  <2> QED
    BY <1>5, <1>6, <2>1
<1>8. ASSUME NEW i \in 1..(Len(latency) + Len(pending)), ~(i <= Len(latency))
      PROVE  more[i - Len(latency)] =
               LET n == pending[i - Len(latency)] IN Sleep("published", pubs[n], n)
  <2>1. i - Len(latency) \in 1..Len(pending)
    BY <1>1, <1>8
  <2> QED
    BY <1>4, <2>1
<1> QED
  BY <1>1, <1>7, <1>8

LEMMA ReconnectedType ==
  ASSUME TypeOK, Reconnected
  PROVE  TypeOK'
<1>1. latency' \in Seq(Sleepers)
  BY FlushedType
<1>2. backoff' \in Nat
  BY DEF Reconnected, TypeOK
<1>3. pending' \in Seq(Publishes) /\ Len(pending') <= BackpressureLimit
  BY EmptySeq, RealtimeEngineAssumption DEF Reconnected, Kept, RealtimeEngineAssumption
<1> QED
  BY <1>1, <1>2, <1>3 DEF Reconnected, TypeOK, Publishes, Sleepers

\* disconnect(), called or scripted, with the channels ch.
LEMMA DisconnectedType ==
  ASSUME TypeOK, NEW ch, ChannelsOK(ch), Disconnected(ch)
  PROVE  /\ ChannelsOK(channel')
         /\ conn' = "disconnected"
         /\ \/ conn = "disconnected" /\ channel' = ch /\ ghosts' = ghosts
            \/ ghosts' = Awaited(Channels) /\ \A c \in Channels : channel'[c].timers = <<>>
<1>1. CASE conn = "disconnected"
  BY <1>1 DEF Disconnected
<1>2. CASE conn # "disconnected"
  BY <1>2, ClearedType DEF Disconnected
<1> QED
  BY <1>1, <1>2

LEMMA DisconnectType ==
  ASSUME TypeOK, Disconnect
  PROVE  TypeOK'
<1>1. ChannelsOK(channel') /\ conn' = "disconnected"
  BY TypedChannels, DisconnectedType DEF Disconnect
<1> QED
  BY <1>1 DEF Disconnect, TypeOK, Publishes, Sleepers, ChannelsOK

LEMMA ResetType ==
  ASSUME TypeOK, Reset
  PROVE  TypeOK'
<1>1. channel' \in [Channels -> ChannelState]
      /\ \A c \in Channels : channel'[c] = Gone
  BY GoneType DEF Reset
<1>2. pending' \in Seq(Publishes) /\ Len(pending') <= BackpressureLimit
  BY EmptySeq, RealtimeEngineAssumption DEF Reset, RealtimeEngineAssumption
<1> QED
  BY <1>1, <1>2 DEF Reset, TypeOK, Publishes, Sleepers

\* The channel whose scenario goes on has its handlers still, and a timer less.
LEMMA FiredType ==
  ASSUME TypeOK, NEW c \in Channels, channel[c].timers # <<>>,
         NEW ch, ch = [channel EXCEPT ![c] =
                        Open(@.handlers, @.presence, Tail(@.timers), @.next)]
  PROVE  /\ ChannelsOK(ch)
         /\ \A d \in Channels : ch[d].handlers = channel[d].handlers
         /\ \A d \in Channels : ch[d].timers # <<>> => channel[d].timers # <<>>
<1> DEFINE s == Open(channel[c].handlers, channel[c].presence, Tail(channel[c].timers),
                     channel[c].next)
<1>1. Tail(channel[c].timers) \in Seq(Nat)
  BY TypedChannels, ChannelType, HeadTailProperties
<1>2. s \in ChannelState /\ s.open /\ s.handlers = channel[c].handlers
  <2>1. /\ channel[c].handlers \in SUBSET Handlers /\ channel[c].presence \in SUBSET Users
        /\ channel[c].next \in Nat
    BY TypedChannels, ChannelType
  <2> QED
    BY <1>1, <2>1 DEF Open, ChannelState
<1>3. ch = [channel EXCEPT ![c] = s]
  OBVIOUS
<1> HIDE DEF s
<1>4. \A d \in Channels : ch[d] = channel[d] \/ (d = c /\ ch[d] = s)
  BY <1>3 DEF TypeOK
<1>5. ChannelsOK(ch)
  <2>1. ChannelsOK([channel EXCEPT ![c] = s])
    BY <1>2, TypedChannels, PlacedType
  <2> QED
    BY <1>3, <2>1
<1>6. ASSUME NEW d \in Channels
      PROVE  /\ ch[d].handlers = channel[d].handlers
             /\ ch[d].timers # <<>> => channel[d].timers # <<>>
  <2>1. CASE ch[d] = channel[d]
    BY <2>1
  <2>2. CASE d = c /\ ch[d] = s
    BY <1>2, <2>2
  <2> QED
    BY <1>4, <2>1, <2>2
<1> QED
  BY <1>5, <1>6

LEMMA ScenarioFiresType ==
  ASSUME TypeOK, NEW c \in Channels, ScenarioFires(c)
  PROVE  TypeOK'
<1> DEFINE fired == [channel EXCEPT ![c] =
                      Open(@.handlers, @.presence, Tail(@.timers), @.next)]
<1>1. ChannelsOK(fired)
  BY FiredType DEF ScenarioFires
<1>2. \/ channel' = fired /\ UNCHANGED <<conn, backoff>>
      \/ Disconnected(fired) /\ UNCHANGED backoff
      \/ Reconnecting /\ channel' = fired
  BY DEF ScenarioFires
<1>3. UNCHANGED <<latency, handles, pubs, pending, sent, stranded>>
  BY DEF ScenarioFires
<1> HIDE DEF fired
<1>4. CASE channel' = fired /\ UNCHANGED <<conn, backoff>>
  BY <1>1, <1>3, <1>4 DEF TypeOK, Publishes, Sleepers, ChannelsOK
<1>5. CASE Disconnected(fired) /\ UNCHANGED backoff
  <2>1. ChannelsOK(channel') /\ conn' = "disconnected"
    BY <1>1, <1>5, DisconnectedType
  <2> QED
    BY <1>3, <1>5, <2>1 DEF TypeOK, Publishes, Sleepers, ChannelsOK
<1>6. CASE Reconnecting /\ channel' = fired
  BY <1>1, <1>3, <1>6 DEF Reconnecting, TypeOK, Publishes, Sleepers, ChannelsOK
<1> QED
  BY <1>2, <1>4, <1>5, <1>6

\* The types of the variables are kept by every step.
LEMMA NextType == TypeOK /\ [Next]_vars => TypeOK'
<1> SUFFICES ASSUME TypeOK, [Next]_vars PROVE TypeOK'
  OBVIOUS
<1>1. ASSUME NEW c \in Channels, NEW h \in Handlers, Subscribe(c, h) \/ Unsubscribe(c, h)
      PROVE  TypeOK'
  BY <1>1, SubscribeType, UnsubscribeType
<1>2. ASSUME NEW c \in Channels, NEW u \in Users, TrackPresence(c, u) \/ UntrackPresence(c, u)
      PROVE  TypeOK'
  BY <1>2, TrackPresenceType, UntrackPresenceType
<1>3. ASSUME NEW c \in Channels, Publish(c) \/ ScenarioFires(c) PROVE TypeOK'
  BY <1>3, PublishType, ScenarioFiresType
<1>4. CASE WakesUp
  BY <1>4, ConnectedForSubscribeType, SubscribedType, ConnectedForTrackType, PublishedType
     DEF WakesUp
<1>5. CASE Reconnect \/ Reconnected \/ Disconnect \/ Reset
  BY <1>5, ReconnectType, ReconnectedType, DisconnectType, ResetType
<1>6. CASE UNCHANGED vars
  BY <1>6 DEF vars, TypeOK, Publishes, Sleepers
<1> QED
  BY <1>1, <1>2, <1>3, <1>4, <1>5, <1>6 DEF Next

\* TypeOK holds for any constants: the queue stays within its limit, and a
\* channel that is not in the Map has neither handlers nor timers.
THEOREM TypeCorrect == Spec => []TypeOK
BY InitType, NextType, PTL DEF Spec

\* Timers.  What keeps NoGhostTimers is that a channel which a subscribe() will
\* come back to is a ghost, or has a handler and a connection as well.

AwaitedIn(ls) ==
  {c \in Channels : \E i \in DOMAIN ls : ls[i].step = "subscribed" /\ ls[i].ch = c}

Heard(c) == c \in ghosts \/ (channel[c].handlers # {} /\ conn # "disconnected")

Served ==
  \A c \in Channels : c \in AwaitedIn(latency) \/ channel[c].timers # <<>> => Heard(c)

GhostInv == TypeOK /\ Served

LEMMA AwaitedInLatency == Awaited(Channels) = AwaitedIn(latency)
BY DEF Awaited, AwaitedIn

\* A call that falls asleep awaits its own channel at most.
LEMMA AwaitedAppend ==
  ASSUME NEW S, NEW ls \in Seq(S), NEW s \in S, NEW d \in AwaitedIn(Append(ls, s))
  PROVE  d \in AwaitedIn(ls) \/ (s.step = "subscribed" /\ s.ch = d)
<1>1. PICK i \in DOMAIN Append(ls, s) :
        Append(ls, s)[i].step = "subscribed" /\ Append(ls, s)[i].ch = d
  BY DEF AwaitedIn
<1>2. (i \in DOMAIN ls /\ Append(ls, s)[i] = ls[i]) \/ Append(ls, s)[i] = s
  BY Sleeping
<1> QED
  BY <1>1, <1>2 DEF AwaitedIn

LEMMA AwaitedTail ==
  ASSUME TypeOK, latency # <<>>
  PROVE  AwaitedIn(Tail(latency)) \subseteq AwaitedIn(latency)
BY Waking DEF AwaitedIn

\* What is awaited after the steps of a subscribe() or trackPresence() that
\* falls asleep before it is connected, or of a publish().
LEMMA AwaitedSleep ==
  ASSUME TypeOK, NEW step, NEW c, NEW arg, step # "subscribed",
         NEW S, latency \in Seq(S), Sleep(step, c, arg) \in S,
         latency' = Append(latency, Sleep(step, c, arg))
  PROVE  AwaitedIn(latency') \subseteq AwaitedIn(latency)
<1>1. Sleep(step, c, arg).step # "subscribed"
  BY DEF Sleep
<1> QED
  BY <1>1, AwaitedAppend

LEMMA InitServed == Init => Served
<1> SUFFICES ASSUME Init PROVE Served
  OBVIOUS
<1>1. AwaitedIn(latency) = {}
  BY EmptySeq DEF Init, AwaitedIn
<1>2. \A c \in Channels : channel[c].timers = <<>>
  BY GoneType DEF Init
<1> QED
  BY <1>1, <1>2 DEF Served

\* A step that leaves handlers, timers and sleeping subscriptions as they are, and
\* does not disconnect.
LEMMA ServedStays ==
  ASSUME Served,
         AwaitedIn(latency') \subseteq AwaitedIn(latency),
         \A c \in Channels : channel'[c].timers # <<>> => channel[c].timers # <<>>,
         \A c \in Channels : channel'[c].handlers = channel[c].handlers,
         conn' = conn \/ conn' # "disconnected",
         ghosts' = ghosts
  PROVE  Served'
BY DEF Served, Heard

\* A handler is added, with the connection there.
LEMMA AddServed ==
  ASSUME GhostInv, NEW ls \in Seq(Sleepers), AwaitedIn(ls) \subseteq AwaitedIn(latency),
         NEW c \in Channels, NEW h \in Handlers, Add(ls, c, h),
         conn' = "connected", ghosts' = ghosts
  PROVE  Served'
<1>1. Sleep("subscribed", c, h) \in Sleepers /\ Sleep("subscribed", c, h).ch = c
  BY DEF Sleepers, Sleep
<1>2. AwaitedIn(latency') \subseteq AwaitedIn(ls) \cup {c}
  <2>1. latency' = Append(ls, Sleep("subscribed", c, h))
    BY DEF Add
  <2> QED
    BY <1>1, <2>1, AwaitedAppend
<1>3. /\ channel'[c].handlers # {}
      /\ \A d \in Channels \ {c} : channel'[d] = channel[d]
  <2>1. TypeOK
    BY DEF GhostInv
  <2>2. /\ channel'[c].handlers = channel[c].handlers \cup {h}
        /\ \A d \in Channels \ {c} : channel'[d] = channel[d]
    BY <2>1, AddType
  <2> QED
    BY <2>2
<1> QED
  BY <1>2, <1>3 DEF GhostInv, Served, Heard

LEMMA SubscribeServed ==
  ASSUME GhostInv, NEW c \in Channels, NEW h \in Handlers, Subscribe(c, h)
  PROVE  Served'
<1>1. latency \in Seq(Sleepers)
  BY DEF GhostInv, TypeOK
<1>2. CASE conn = "connected"
  BY <1>1, <1>2, AddServed DEF Subscribe
<1>3. CASE conn # "connected"
  <2>1. latency' = Append(latency, Sleep("connectToSubscribe", c, h))
    BY <1>3 DEF Subscribe
  <2>2. Sleep("connectToSubscribe", c, h) \in Sleepers
    BY DEF Sleepers, Sleep
  <2>3. AwaitedIn(latency') \subseteq AwaitedIn(latency)
    BY <1>1, <2>1, <2>2, AwaitedSleep DEF GhostInv
  <2> QED
    BY <1>3, <2>3, ServedStays DEF Subscribe, GhostInv
<1> QED
  BY <1>2, <1>3

LEMMA ConnectedForSubscribeServed ==
  ASSUME GhostInv, ConnectedForSubscribe
  PROVE  Served'
<1>1. latency # <<>> /\ Woken.step = "connectToSubscribe"
  BY DEF ConnectedForSubscribe, Wakes, Woken
<1>2. Woken.ch \in Channels /\ Woken.arg \in Handlers /\ Tail(latency) \in Seq(Sleepers)
  BY <1>1, Waking, SleeperType DEF GhostInv
<1>3. AwaitedIn(Tail(latency)) \subseteq AwaitedIn(latency)
  BY <1>1, AwaitedTail DEF GhostInv
<1> QED
  BY <1>2, <1>3, AddServed DEF ConnectedForSubscribe, EnsureConnected

\* The timers are set for a channel that was awaited.
LEMMA SubscribedServed ==
  ASSUME GhostInv, Subscribed
  PROVE  Served'
<1>1. latency # <<>> /\ Woken.step = "subscribed"
  BY DEF Subscribed, Wakes, Woken
<1>2. Woken.ch \in Channels /\ Woken.ch \in AwaitedIn(latency)
  BY <1>1, Waking, SleeperType DEF GhostInv, AwaitedIn
<1>3. AwaitedIn(latency') \subseteq AwaitedIn(latency)
  BY <1>1, AwaitedTail DEF GhostInv, Subscribed
<1> QED
  BY <1>2, <1>3, SubscribedChannel DEF GhostInv, Subscribed, Served, Heard

\* The last handler of a channel takes the timers with it.
LEMMA UnsubscribeServed ==
  ASSUME GhostInv, NEW c \in Channels, NEW h \in Handlers, Unsubscribe(c, h)
  PROVE  Served'
<1> DEFINE rest == channel[c].handlers \ {h}
           s == Open(rest, channel[c].presence, channel[c].timers, channel[c].next)
<1>1. latency' = latency /\ conn' = conn
  BY DEF Unsubscribe
<1>2. CASE rest = {}
  <2>1. channel' = [channel EXCEPT ![c] = Gone]
        /\ ghosts' = (ghosts \ {c}) \cup Awaited({c})
    BY <1>2 DEF Unsubscribe, Left
  <2>2. /\ channel'[c].timers = <<>>
        /\ \A d \in Channels \ {c} : channel'[d] = channel[d]
    BY <2>1, GoneType DEF GhostInv, TypeOK
  <2>3. c \in AwaitedIn(latency) => c \in ghosts'
    BY <2>1 DEF Awaited, AwaitedIn
  <2>4. \A d \in Channels \ {c} : d \in ghosts => d \in ghosts'
    BY <2>1
  <2> QED
    BY <1>1, <2>2, <2>3, <2>4 DEF GhostInv, Served, Heard
<1>3. CASE rest # {}
  <2>1. channel' = [channel EXCEPT ![c] = s] /\ ghosts' = ghosts
    BY <1>3 DEF Unsubscribe
  <2>2. s.handlers = rest /\ s.timers = channel[c].timers
    BY DEF Open
  <2> HIDE DEF s
  <2>3. channel'[c] = s /\ \A d \in Channels \ {c} : channel'[d] = channel[d]
    BY <2>1 DEF GhostInv, TypeOK
  <2> QED
    BY <1>1, <1>3, <2>1, <2>2, <2>3 DEF GhostInv, Served, Heard
<1> QED
  BY <1>2, <1>3

LEMMA TrackPresenceServed ==
  ASSUME GhostInv, NEW c \in Channels, NEW u \in Users, TrackPresence(c, u)
  PROVE  Served'
<1>1. CASE conn = "connected"
  <2>1. Track(c, u) /\ latency' = latency /\ conn' = conn /\ ghosts' = ghosts
    BY <1>1 DEF TrackPresence
  <2> QED
    BY <2>1, TrackType, ServedStays DEF GhostInv
<1>2. CASE conn # "connected"
  <2>1. latency \in Seq(Sleepers)
    BY DEF GhostInv, TypeOK
  <2>2. latency' = Append(latency, Sleep("connectToTrack", c, u))
    BY <1>2 DEF TrackPresence
  <2>3. Sleep("connectToTrack", c, u) \in Sleepers
    BY DEF Sleepers, Sleep
  <2>4. AwaitedIn(latency') \subseteq AwaitedIn(latency)
    BY <2>1, <2>2, <2>3, AwaitedSleep DEF GhostInv
  <2> QED
    BY <1>2, <2>4, ServedStays DEF TrackPresence, GhostInv
<1> QED
  BY <1>1, <1>2

LEMMA ConnectedForTrackServed ==
  ASSUME GhostInv, ConnectedForTrack
  PROVE  Served'
<1>1. latency # <<>> /\ Woken.step = "connectToTrack"
  BY DEF ConnectedForTrack, Wakes, Woken
<1>2. Woken.ch \in Channels /\ Woken.arg \in Users
  BY <1>1, Waking, SleeperType DEF GhostInv
<1>3. AwaitedIn(latency') \subseteq AwaitedIn(latency)
  BY <1>1, AwaitedTail DEF GhostInv, ConnectedForTrack
<1>4. /\ \A d \in Channels : channel'[d].handlers = channel[d].handlers
      /\ \A d \in Channels : channel'[d].timers = channel[d].timers
  BY <1>2, TrackType DEF GhostInv, ConnectedForTrack
<1> QED
  BY <1>3, <1>4, ServedStays DEF GhostInv, ConnectedForTrack, EnsureConnected

LEMMA UntrackPresenceServed ==
  ASSUME GhostInv, NEW c \in Channels, NEW u \in Users, UntrackPresence(c, u)
  PROVE  Served'
<1> DEFINE s == Open(channel[c].handlers, channel[c].presence \ {u}, channel[c].timers,
                     channel[c].next)
<1>1. channel' = [channel EXCEPT ![c] = s]
  BY DEF UntrackPresence
<1>2. s.handlers = channel[c].handlers /\ s.timers = channel[c].timers
  BY DEF Open
<1> HIDE DEF s
<1>3. channel'[c] = s /\ \A d \in Channels \ {c} : channel'[d] = channel[d]
  BY <1>1 DEF GhostInv, TypeOK
<1> QED
  BY <1>2, <1>3, ServedStays DEF UntrackPresence, GhostInv

LEMMA PublishServed ==
  ASSUME GhostInv, NEW c \in Channels, Publish(c)
  PROVE  Served'
<1> DEFINE n == Len(pubs) + 1
           s == Sleep("published", c, n)
<1>1. latency' = latency \/ latency' = Append(latency, s)
  BY DEF Publish
<1>2. latency \in Seq(Sleepers') /\ s \in Sleepers'
  BY Numbered, SeqMonotonic DEF GhostInv, TypeOK, Sleepers, Sleep
<1>3. AwaitedIn(latency') \subseteq AwaitedIn(latency)
  <2>1. CASE latency' = latency
    BY <2>1
  <2>2. CASE latency' = Append(latency, s)
    BY <1>2, <2>2, AwaitedSleep DEF GhostInv
  <2> QED
    BY <1>1, <2>1, <2>2
<1> QED
  BY <1>3, ServedStays DEF Publish, GhostInv

LEMMA PublishedServed ==
  ASSUME GhostInv, Published
  PROVE  Served'
<1>1. latency # <<>>
  BY DEF Published, Wakes
<1>2. AwaitedIn(latency') \subseteq AwaitedIn(latency)
  BY <1>1, AwaitedTail DEF GhostInv, Published
<1> QED
  BY <1>2, ServedStays DEF GhostInv, Published

LEMMA ReconnectServed ==
  ASSUME GhostInv, Reconnect
  PROVE  Served'
BY ServedStays DEF GhostInv, Reconnect, Reconnecting

LEMMA ReconnectedServed ==
  ASSUME GhostInv, Reconnected
  PROVE  Served'
<1>1. ASSUME NEW d \in AwaitedIn(latency') PROVE d \in AwaitedIn(latency)
  <2>1. PICK i \in DOMAIN latency' : latency'[i].step = "subscribed" /\ latency'[i].ch = d
    BY <1>1 DEF AwaitedIn
  <2>2. /\ latency' \in Seq(Sleepers) /\ latency \in Seq(Sleepers)
        /\ Len(latency) \in Nat /\ Len(pending) \in Nat
        /\ Len(latency') = Len(latency) + Len(pending)
    BY FlushedType DEF GhostInv, TypeOK
  <2>3. i \in 1..(Len(latency) + Len(pending)) /\ DOMAIN latency = 1..Len(latency)
    BY <2>2, LenProperties
  <2>4. i <= Len(latency)
    <3>1. SUFFICES ASSUME ~(i <= Len(latency)) PROVE FALSE
      OBVIOUS
    <3>2. latency'[i].step = "published"
      BY <2>3, <3>1, FlushedType DEF GhostInv, Sleep
    <3> QED
      BY <2>1, <3>2
  <2>5. latency'[i] = latency[i] /\ i \in DOMAIN latency
    BY <2>2, <2>3, <2>4, FlushedType DEF GhostInv
  <2> QED
    BY <1>1, <2>1, <2>5 DEF AwaitedIn
<1> QED
  BY <1>1, ServedStays DEF GhostInv, Reconnected

\* disconnect() leaves no timers, and what is awaited then is a ghost.
LEMMA DisconnectedServed ==
  ASSUME GhostInv, NEW ch, ChannelsOK(ch), Disconnected(ch),
         \A c \in Channels : ch[c].handlers = channel[c].handlers,
         \A c \in Channels : ch[c].timers # <<>> => channel[c].timers # <<>>,
         latency' = latency
  PROVE  Served'
<1>1. CASE conn = "disconnected" /\ channel' = ch /\ ghosts' = ghosts
  <2>1. conn' = conn
    BY <1>1 DEF Disconnected
  <2> QED
    BY <1>1, <2>1, ServedStays DEF GhostInv
<1>2. CASE ghosts' = Awaited(Channels) /\ \A c \in Channels : channel'[c].timers = <<>>
  BY <1>2, AwaitedInLatency DEF Served, Heard
<1> QED
  BY <1>1, <1>2, DisconnectedType DEF GhostInv

LEMMA ResetServed ==
  ASSUME GhostInv, Reset
  PROVE  Served'
<1>1. \A c \in Channels : channel'[c].timers = <<>>
  BY GoneType DEF Reset
<1> QED
  BY <1>1, AwaitedInLatency DEF Reset, Served, Heard

LEMMA ScenarioFiresServed ==
  ASSUME GhostInv, NEW c \in Channels, ScenarioFires(c)
  PROVE  Served'
<1> DEFINE fired == [channel EXCEPT ![c] =
                      Open(@.handlers, @.presence, Tail(@.timers), @.next)]
<1>1. /\ ChannelsOK(fired)
      /\ \A d \in Channels : fired[d].handlers = channel[d].handlers
      /\ \A d \in Channels : fired[d].timers # <<>> => channel[d].timers # <<>>
  BY FiredType DEF ScenarioFires, GhostInv
<1>2. \/ channel' = fired /\ UNCHANGED <<conn, ghosts>>
      \/ Disconnected(fired)
      \/ Reconnecting /\ channel' = fired /\ UNCHANGED ghosts
  BY DEF ScenarioFires
<1>3. latency' = latency
  BY DEF ScenarioFires
<1> HIDE DEF fired
<1> QED
  BY <1>1, <1>2, <1>3, ServedStays, DisconnectedServed DEF Reconnecting, GhostInv

LEMMA NextGhostInv == GhostInv /\ [Next]_vars => GhostInv'
<1> SUFFICES ASSUME GhostInv, [Next]_vars PROVE Served'
  BY NextType DEF GhostInv
<1>1. ASSUME NEW c \in Channels, NEW h \in Handlers, Subscribe(c, h) \/ Unsubscribe(c, h)
      PROVE  Served'
  BY <1>1, SubscribeServed, UnsubscribeServed
<1>2. ASSUME NEW c \in Channels, NEW u \in Users, TrackPresence(c, u) \/ UntrackPresence(c, u)
      PROVE  Served'
  BY <1>2, TrackPresenceServed, UntrackPresenceServed
<1>3. ASSUME NEW c \in Channels, Publish(c) \/ ScenarioFires(c) PROVE Served'
  BY <1>3, PublishServed, ScenarioFiresServed
<1>4. CASE WakesUp
  BY <1>4, ConnectedForSubscribeServed, SubscribedServed, ConnectedForTrackServed,
     PublishedServed DEF WakesUp
<1>5. CASE Reconnect \/ Reconnected \/ Reset
  BY <1>5, ReconnectServed, ReconnectedServed, ResetServed
<1>6. CASE Disconnect
  BY <1>6, TypedChannels, DisconnectedServed DEF Disconnect, GhostInv
<1>7. CASE UNCHANGED vars
  BY <1>7 DEF vars, GhostInv, Served, Heard, AwaitedIn
<1> QED
  BY <1>1, <1>2, <1>3, <1>4, <1>5, <1>6, <1>7 DEF Next

\* For any constants, a scenario runs only for a channel with a handler, over a
\* connection, unless the channel was cleared while a subscribe() to it slept.
THEOREM NoGhosts == Spec => []NoGhostTimers
<1>1. Init => GhostInv
  BY InitType, InitServed DEF GhostInv
<1>2. GhostInv => NoGhostTimers
  BY DEF GhostInv, Served, Heard, NoGhostTimers
<1> QED
  BY <1>1, <1>2, NextGhostInv, PTL DEF Spec

\* The order of the publishes.  A publish is sent, or sleeps before it is sent,
\* or is queued; in this order it stays with any other, but for a stranded one,
\* which those that are not stranded may pass.

Flying == {i \in DOMAIN latency : latency[i].step = "published"}

Orderly(n, p) == n < p \/ (p \in stranded /\ n \notin stranded)

SentInOrder == \A i, j \in DOMAIN sent : i < j => Orderly(sent[i], sent[j])
FlyingInOrder == \A i, j \in Flying : i < j => Orderly(latency[i].arg, latency[j].arg)
QueuedInOrder == \A i, j \in DOMAIN pending : i < j => pending[i] < pending[j]
SentBeforeFlying == \A i \in DOMAIN sent, j \in Flying : Orderly(sent[i], latency[j].arg)
SentBeforeQueued == \A i \in DOMAIN sent, j \in DOMAIN pending : Orderly(sent[i], pending[j])
FlyingBeforeQueued ==
  \A i \in Flying, j \in DOMAIN pending : Orderly(latency[i].arg, pending[j])

\* The queue is not empty over a connection only when it was left behind.
QueuedIsStranded ==
  conn = "connected" => \A i \in DOMAIN pending : pending[i] \in stranded

OrderInv ==
  /\ SentInOrder
  /\ FlyingInOrder
  /\ QueuedInOrder
  /\ SentBeforeFlying
  /\ SentBeforeQueued
  /\ FlyingBeforeQueued
  /\ QueuedIsStranded

\* The publishes of the state are numbers.
LEMMA Numbers ==
  ASSUME TypeOK
  PROVE  /\ Publishes = 1..Len(pubs) /\ Len(pubs) \in Nat
         /\ \A i \in DOMAIN sent : sent[i] \in Publishes
         /\ \A i \in DOMAIN pending : pending[i] \in Publishes
         /\ \A i \in Flying : latency[i].arg \in Publishes
         /\ DOMAIN latency = 1..Len(latency) /\ Len(latency) \in Nat
<1>1. /\ pubs \in Seq(Channels) /\ sent \in Seq(Publishes)
      /\ pending \in Seq(Publishes) /\ latency \in Seq(Sleepers)
  BY DEF TypeOK
<1>2. Publishes = 1..Len(pubs) /\ Len(pubs) \in Nat
  BY <1>1, LenProperties DEF Publishes
<1>3. /\ \A i \in DOMAIN sent : sent[i] \in Publishes
      /\ \A i \in DOMAIN pending : pending[i] \in Publishes
  BY <1>1, ElementOfSeq, LenProperties
<1>4. DOMAIN latency = 1..Len(latency) /\ Len(latency) \in Nat
  BY <1>1, LenProperties
<1>5. \A i \in DOMAIN latency : latency[i] \in Sleepers
  BY <1>1, <1>4, ElementOfSeq
<1>6. \A i \in Flying : latency[i].arg \in Publishes
  BY <1>5, SleeperType DEF Flying
<1> QED
  BY <1>2, <1>3, <1>4, <1>6

\* Nothing is queued that is sent or sleeps.
LEMMA Apart ==
  ASSUME TypeOK, OrderInv, NEW j \in DOMAIN pending
  PROVE  /\ \A i \in DOMAIN sent : sent[i] # pending[j]
         /\ \A i \in Flying : latency[i].arg # pending[j]
<1>1. ~Orderly(pending[j], pending[j])
  BY Numbers DEF Orderly
<1> QED
  BY <1>1 DEF OrderInv, SentBeforeQueued, FlyingBeforeQueued

LEMMA InitOrder == Init => OrderInv
<1> SUFFICES ASSUME Init PROVE OrderInv
  OBVIOUS
<1>1. DOMAIN sent = {} /\ DOMAIN latency = {} /\ DOMAIN pending = {}
  BY EmptySeq DEF Init
<1> QED
  BY <1>1 DEF OrderInv, SentInOrder, FlyingInOrder, QueuedInOrder, SentBeforeFlying,
     SentBeforeQueued, FlyingBeforeQueued, QueuedIsStranded, Flying

\* A step that publishes nothing: what sleeps with a publish slept with it before, k
\* places behind, and what is newly stranded is queued.
LEMMA OrderStays ==
  ASSUME TypeOK, OrderInv, NEW k \in Nat,
         \A i \in Flying' : i + k \in Flying /\ latency'[i] = latency[i + k],
         Flying' \subseteq Nat,
         sent' = sent, pending' = pending,
         stranded \subseteq stranded',
         \A n \in stranded' \ stranded : \E j \in DOMAIN pending : n = pending[j],
         conn' = "connected" =>
           conn = "connected" \/ \A i \in DOMAIN pending : pending[i] \in stranded'
  PROVE  OrderInv'
<1>1. ASSUME NEW n, NEW p, Orderly(n, p),
             \/ \E i \in DOMAIN sent : n = sent[i]
             \/ \E i \in Flying : n = latency[i].arg
      PROVE  Orderly(n, p)'
  BY <1>1, Apart DEF Orderly
<1>2. SentInOrder'
  BY <1>1 DEF OrderInv, SentInOrder
<1>3. FlyingInOrder'
  <2>1. SUFFICES ASSUME NEW i \in Flying', NEW j \in Flying', i < j
                 PROVE  Orderly(latency[i].arg, latency[j].arg)'
    BY DEF FlyingInOrder
  <2>2. i \in Nat /\ j \in Nat /\ i + k < j + k
    BY <2>1
  <2>3. Orderly(latency[i + k].arg, latency[j + k].arg)
    BY <2>2 DEF OrderInv, FlyingInOrder
  <2> QED
    BY <1>1, <2>3
<1>4. QueuedInOrder'
  BY DEF OrderInv, QueuedInOrder
<1>5. SentBeforeFlying'
  BY <1>1 DEF OrderInv, SentBeforeFlying
<1>6. SentBeforeQueued'
  BY <1>1 DEF OrderInv, SentBeforeQueued
<1>7. FlyingBeforeQueued'
  BY <1>1 DEF OrderInv, FlyingBeforeQueued
<1>8. QueuedIsStranded'
  BY DEF OrderInv, QueuedIsStranded
<1> QED
  BY <1>2, <1>3, <1>4, <1>5, <1>6, <1>7, <1>8 DEF OrderInv

\* The sleepers ls are the last of those that slept; the step that sleeps then, if
\* any, publishes nothing.
LEMMA OrderStaysAwake ==
  ASSUME TypeOK, OrderInv, NEW ls \in Seq(Sleepers), NEW s \in Sleepers,
         ls = latency \/ (latency # <<>> /\ ls = Tail(latency)),
         s.step # "published",
         latency' = ls \/ latency' = Append(ls, s),
         sent' = sent, pending' = pending,
         stranded \subseteq stranded',
         \A n \in stranded' \ stranded : \E j \in DOMAIN pending : n = pending[j],
         conn' = "connected" =>
           conn = "connected" \/ \A i \in DOMAIN pending : pending[i] \in stranded'
  PROVE  OrderInv'
<1>1. PICK k \in {0, 1} : \A i \in DOMAIN ls : i + k \in DOMAIN latency /\ ls[i] = latency[i + k]
  <2>1. CASE ls = latency
    <3>1. DOMAIN latency \subseteq Nat
      BY Numbers
    <3>2. \A i \in DOMAIN ls : i + 0 = i
      BY <2>1, <3>1
    <3> QED
      BY <2>1, <3>2
  <2>2. CASE latency # <<>> /\ ls = Tail(latency)
    BY <2>2, Waking
  <2> QED
    BY <2>1, <2>2
<1>2. DOMAIN ls = 1..Len(ls) /\ Len(ls) \in Nat
  BY LenProperties
<1>3. ASSUME NEW i \in Flying' PROVE i \in DOMAIN ls /\ latency'[i] = ls[i]
  <2>1. CASE latency' = ls
    BY <2>1 DEF Flying
  <2>2. CASE latency' = Append(ls, s)
    <3>1. i \in DOMAIN latency' /\ latency'[i].step = "published"
      BY DEF Flying
    <3>2. DOMAIN latency' = 1..(Len(ls) + 1) /\ Append(ls, s)[Len(ls) + 1] = s
          /\ \A j \in DOMAIN ls : Append(ls, s)[j] = ls[j]
      BY <2>2, Sleeping
    <3>3. i # Len(ls) + 1
      BY <2>2, <3>1, <3>2
    <3> QED
      BY <1>2, <2>2, <3>1, <3>2, <3>3
  <2> QED
    BY <2>1, <2>2
<1>4. \A i \in Flying' : i + k \in Flying /\ latency'[i] = latency[i + k]
  BY <1>1, <1>3 DEF Flying
<1>5. Flying' \subseteq Nat /\ k \in Nat
  BY <1>2, <1>3
<1> QED
  BY <1>4, <1>5, OrderStays

\* A step that leaves publishes and sleepers alone and makes no connection.
LEMMA OrderUntouched ==
  ASSUME TypeOK, OrderInv, UNCHANGED <<latency, sent, pending, stranded>>,
         conn' = conn \/ conn' # "connected"
  PROVE  OrderInv'
BY DEF OrderInv, SentInOrder, FlyingInOrder, QueuedInOrder, SentBeforeFlying,
   SentBeforeQueued, FlyingBeforeQueued, QueuedIsStranded, Flying, Orderly

LEMMA EnsureStrands ==
  ASSUME TypeOK, EnsureConnected
  PROVE  /\ stranded \subseteq stranded'
         /\ \A n \in stranded' \ stranded : \E j \in DOMAIN pending : n = pending[j]
         /\ \A j \in DOMAIN pending : pending[j] \in stranded'
BY EnsureType DEF EnsureConnected, ToSet

LEMMA SubscribeOrder ==
  ASSUME TypeOK, OrderInv, NEW c \in Channels, NEW h \in Handlers, Subscribe(c, h)
  PROVE  OrderInv'
<1>1. PICK step \in {"connectToSubscribe", "subscribed"} :
        latency' = Append(latency, Sleep(step, c, h))
  BY DEF Subscribe, Add
<1>2. Sleep(step, c, h) \in Sleepers /\ Sleep(step, c, h).step # "published"
  BY DEF Sleepers, Sleep
<1>3. latency \in Seq(Sleepers)
  BY DEF TypeOK
<1>4. sent' = sent /\ pending' = pending /\ stranded' = stranded
      /\ (conn' = "connected" => conn = "connected")
  BY DEF Subscribe
<1> HIDE DEF Sleep
<1> QED
  BY <1>1, <1>2, <1>3, <1>4, OrderStaysAwake

LEMMA ConnectedForSubscribeOrder ==
  ASSUME TypeOK, OrderInv, ConnectedForSubscribe
  PROVE  OrderInv'
<1>1. latency # <<>> /\ Woken.step = "connectToSubscribe"
  BY DEF ConnectedForSubscribe, Wakes, Woken
<1> DEFINE s == Sleep("subscribed", Woken.ch, Woken.arg)
<1>2. Tail(latency) \in Seq(Sleepers) /\ Woken.ch \in Channels /\ Woken.arg \in Handlers
  BY <1>1, Waking, SleeperType
<1>3. s \in Sleepers /\ s.step # "published"
  BY <1>2 DEF Sleepers, Sleep
<1>4. latency' = Append(Tail(latency), s)
  BY DEF ConnectedForSubscribe, Add
<1>5. sent' = sent /\ pending' = pending
  BY DEF ConnectedForSubscribe
<1>6. /\ stranded \subseteq stranded'
      /\ \A n \in stranded' \ stranded : \E j \in DOMAIN pending : n = pending[j]
      /\ \A j \in DOMAIN pending : pending[j] \in stranded'
  BY EnsureStrands DEF ConnectedForSubscribe
<1> HIDE DEF s
<1> QED
  BY <1>1, <1>2, <1>3, <1>4, <1>5, <1>6, OrderStaysAwake

LEMMA SubscribedOrder ==
  ASSUME TypeOK, OrderInv, Subscribed
  PROVE  OrderInv'
<1>1. latency # <<>> /\ Woken.step = "subscribed"
  BY DEF Subscribed, Wakes, Woken
<1>2. Tail(latency) \in Seq(Sleepers) /\ Woken \in Sleepers
  BY <1>1, Waking
<1>3. latency' = Tail(latency) /\ UNCHANGED <<sent, pending, stranded, conn>>
  BY DEF Subscribed
<1> QED
  BY <1>1, <1>2, <1>3, OrderStaysAwake

LEMMA TrackPresenceOrder ==
  ASSUME TypeOK, OrderInv, NEW c \in Channels, NEW u \in Users, TrackPresence(c, u)
  PROVE  OrderInv'
<1> DEFINE s == Sleep("connectToTrack", c, u)
<1>1. latency' = latency \/ latency' = Append(latency, s)
  BY DEF TrackPresence
<1>2. s \in Sleepers /\ s.step # "published"
  BY DEF Sleepers, Sleep
<1>3. latency \in Seq(Sleepers)
  BY DEF TypeOK
<1>4. sent' = sent /\ pending' = pending /\ stranded' = stranded
      /\ (conn' = "connected" => conn = "connected")
  BY DEF TrackPresence
<1> HIDE DEF s
<1> QED
  BY <1>1, <1>2, <1>3, <1>4, OrderStaysAwake

LEMMA ConnectedForTrackOrder ==
  ASSUME TypeOK, OrderInv, ConnectedForTrack
  PROVE  OrderInv'
<1>1. latency # <<>> /\ Woken.step = "connectToTrack"
  BY DEF ConnectedForTrack, Wakes, Woken
<1>2. Tail(latency) \in Seq(Sleepers) /\ Woken \in Sleepers
  BY <1>1, Waking
<1>3. latency' = Tail(latency) /\ sent' = sent /\ pending' = pending
  BY DEF ConnectedForTrack
<1>4. /\ stranded \subseteq stranded'
      /\ \A n \in stranded' \ stranded : \E j \in DOMAIN pending : n = pending[j]
      /\ \A j \in DOMAIN pending : pending[j] \in stranded'
  BY EnsureStrands DEF ConnectedForTrack
<1> QED
  BY <1>1, <1>2, <1>3, <1>4, OrderStaysAwake

\* A publish that sleeps is the newest, and passes only stranded ones.
LEMMA PublishOverConnection ==
  ASSUME TypeOK, OrderInv, NEW c \in Channels, Publish(c), conn = "connected"
  PROVE  OrderInv'
<1>n. PICK n \in Nat : n = Len(pubs) + 1
  BY Numbers
<1> DEFINE s == Sleep("published", c, n)
           last == Len(latency) + 1
<1>1. /\ latency' = Append(latency, s) /\ s.step = "published" /\ s.arg = n
      /\ UNCHANGED <<sent, pending, stranded, conn>>
  BY <1>n DEF Publish, Sleep
<1>2. latency \in Seq(Sleepers') /\ s \in Sleepers'
  BY <1>n, Numbered, SeqMonotonic DEF TypeOK, Sleepers, Sleep
<1>3. /\ DOMAIN latency' = 1..last /\ latency'[last] = s
      /\ DOMAIN latency = 1..Len(latency) /\ Len(latency) \in Nat
      /\ \A i \in DOMAIN latency : latency'[i] = latency[i]
  <2> HIDE DEF s
  <2> QED
    BY <1>1, <1>2, Sleeping
<1>4. /\ \A m \in Publishes : m < n
      /\ n \notin stranded
  BY <1>n, Numbers DEF TypeOK
<1> HIDE DEF s
<1>5. ASSUME NEW i \in Flying' PROVE \/ i \in Flying /\ latency'[i] = latency[i] /\ i < last
                                     \/ i = last /\ latency'[i].arg = n
  BY <1>1, <1>3 DEF Flying
<1>6. \A m \in Publishes : Orderly(m, n)'
  BY <1>4 DEF Orderly
<1>7. \A m, p : Orderly(m, p) => Orderly(m, p)'
  BY <1>1 DEF Orderly
<1>8. FlyingInOrder'
  <2>1. SUFFICES ASSUME NEW i \in Flying', NEW j \in Flying', i < j
                 PROVE  Orderly(latency[i].arg, latency[j].arg)'
    BY DEF FlyingInOrder
  <2>2. i \in Flying /\ latency'[i] = latency[i]
    <3>1. i \in 1..last /\ j \in 1..last /\ last \in Nat
      BY <1>3 DEF Flying
    <3>2. i # last
      BY <2>1, <3>1
    <3> QED
      BY <1>5, <3>2
  <2>3. CASE j \in Flying /\ latency'[j] = latency[j]
    BY <1>7, <2>1, <2>2, <2>3 DEF OrderInv, FlyingInOrder
  <2>4. CASE latency'[j].arg = n
    BY <1>6, <2>2, <2>4, Numbers
  <2> QED
    BY <1>5, <2>3, <2>4
<1>9. SentBeforeFlying'
  <2>1. SUFFICES ASSUME NEW i \in DOMAIN sent, NEW j \in Flying'
                 PROVE  Orderly(sent[i], latency[j].arg)'
    BY <1>1 DEF SentBeforeFlying
  <2>2. CASE j \in Flying /\ latency'[j] = latency[j]
    BY <1>1, <1>7, <2>2 DEF OrderInv, SentBeforeFlying
  <2>3. CASE latency'[j].arg = n
    BY <1>1, <1>6, <2>3, Numbers
  <2> QED
    BY <1>5, <2>2, <2>3
<1>10. FlyingBeforeQueued'
  <2>1. SUFFICES ASSUME NEW i \in Flying', NEW j \in DOMAIN pending
                 PROVE  Orderly(latency[i].arg, pending[j])'
    BY <1>1 DEF FlyingBeforeQueued
  <2>2. CASE i \in Flying /\ latency'[i] = latency[i]
    BY <1>1, <1>7, <2>2 DEF OrderInv, FlyingBeforeQueued
  <2>3. CASE latency'[i].arg = n
    BY <1>1, <1>4, <2>3 DEF OrderInv, QueuedIsStranded, Orderly
  <2> QED
    BY <1>5, <2>2, <2>3
<1>11. SentInOrder' /\ QueuedInOrder' /\ SentBeforeQueued' /\ QueuedIsStranded'
  BY <1>1 DEF OrderInv, SentInOrder, QueuedInOrder, SentBeforeQueued, QueuedIsStranded, Orderly
<1> QED
  BY <1>8, <1>9, <1>10, <1>11 DEF OrderInv

\* A publish that is queued is the newest.
LEMMA PublishQueued ==
  ASSUME TypeOK, OrderInv, NEW c \in Channels, Publish(c), conn # "connected",
         pending' = Append(pending, Len(pubs) + 1)
  PROVE  OrderInv'
<1>n. PICK n \in Nat : n = Len(pubs) + 1
  BY Numbers
<1> DEFINE last == Len(pending) + 1
<1>1. UNCHANGED <<latency, sent, stranded, conn>>
  BY DEF Publish
<1>2. pending \in Seq(Publishes') /\ n \in Publishes'
  BY <1>n, Numbered, SeqMonotonic DEF TypeOK
<1>3. /\ DOMAIN pending' = 1..last /\ pending'[last] = n
      /\ DOMAIN pending = 1..Len(pending) /\ Len(pending) \in Nat
      /\ \A i \in DOMAIN pending : pending'[i] = pending[i]
  BY <1>n, <1>2, Sleeping
<1>4. \A m \in Publishes : m < n
  BY <1>n, Numbers
<1>5. ASSUME NEW j \in DOMAIN pending'
      PROVE  \/ j \in DOMAIN pending /\ pending'[j] = pending[j] /\ j < last
             \/ j = last /\ pending'[j] = n
  BY <1>3
<1>6. \A m, p : Orderly(m, p) => Orderly(m, p)'
  BY <1>1 DEF Orderly
<1>7. \A m \in Publishes : Orderly(m, n)'
  BY <1>4 DEF Orderly
<1>8. QueuedInOrder'
  <2>1. SUFFICES ASSUME NEW i \in DOMAIN pending', NEW j \in DOMAIN pending', i < j
                 PROVE  pending'[i] < pending'[j]
    BY DEF QueuedInOrder
  <2>2. i \in DOMAIN pending /\ pending'[i] = pending[i]
    BY <1>3, <1>5, <2>1
  <2>3. CASE j \in DOMAIN pending /\ pending'[j] = pending[j]
    BY <2>1, <2>2, <2>3 DEF OrderInv, QueuedInOrder
  <2>4. CASE pending'[j] = n
    BY <1>4, <2>2, <2>4, Numbers
  <2> QED
    BY <1>5, <2>3, <2>4
<1>9. SentBeforeQueued'
  <2>1. SUFFICES ASSUME NEW i \in DOMAIN sent, NEW j \in DOMAIN pending'
                 PROVE  Orderly(sent[i], pending[j])'
    BY <1>1 DEF SentBeforeQueued
  <2>2. CASE j \in DOMAIN pending /\ pending'[j] = pending[j]
    BY <1>1, <1>6, <2>2 DEF OrderInv, SentBeforeQueued
  <2>3. CASE pending'[j] = n
    BY <1>1, <1>7, <2>3, Numbers
  <2> QED
    BY <1>5, <2>2, <2>3
<1>10. FlyingBeforeQueued'
  <2>1. SUFFICES ASSUME NEW i \in Flying, NEW j \in DOMAIN pending'
                 PROVE  Orderly(latency[i].arg, pending[j])'
    BY <1>1 DEF FlyingBeforeQueued, Flying
  <2>2. CASE j \in DOMAIN pending /\ pending'[j] = pending[j]
    BY <1>1, <1>6, <2>2 DEF OrderInv, FlyingBeforeQueued
  <2>3. CASE pending'[j] = n
    BY <1>1, <1>7, <2>3, Numbers
  <2> QED
    BY <1>5, <2>2, <2>3
<1>11. SentInOrder' /\ FlyingInOrder' /\ SentBeforeFlying' /\ QueuedIsStranded'
  BY <1>1 DEF OrderInv, SentInOrder, FlyingInOrder, SentBeforeFlying, QueuedIsStranded,
     Orderly, Flying
<1> QED
  BY <1>8, <1>9, <1>10, <1>11 DEF OrderInv

LEMMA PublishOrdered ==
  ASSUME TypeOK, OrderInv, NEW c \in Channels, Publish(c)
  PROVE  OrderInv'
<1>1. \/ conn = "connected"
      \/ conn # "connected" /\ pending' = Append(pending, Len(pubs) + 1)
      \/ UNCHANGED <<latency, pending>>
  BY DEF Publish
<1>2. CASE UNCHANGED <<latency, pending>>
  BY <1>2, OrderUntouched DEF Publish
<1> QED
  BY <1>1, <1>2, PublishOverConnection, PublishQueued

\* The publish that slept longest is sent behind those that were.
LEMMA PublishedOrder ==
  ASSUME TypeOK, OrderInv, Published
  PROVE  OrderInv'
<1> DEFINE n == latency[1].arg
           last == Len(sent) + 1
<1>1. /\ latency # <<>> /\ latency[1].step = "published" /\ Woken = latency[1]
      /\ 1 \in Flying /\ DOMAIN latency = 1..Len(latency) /\ Len(latency) \in Nat
  BY Waking DEF Published, Wakes, Woken, Flying
<1>2. /\ sent' = Append(sent, n) /\ latency' = Tail(latency)
      /\ UNCHANGED <<pending, stranded, conn>>
  BY <1>1 DEF Published
<1>3. n \in Publishes /\ sent \in Seq(Publishes)
  BY <1>1, Numbers DEF TypeOK
<1> HIDE DEF n
<1>4. /\ DOMAIN sent' = 1..last /\ sent'[last] = n
      /\ DOMAIN sent = 1..Len(sent) /\ Len(sent) \in Nat
      /\ \A i \in DOMAIN sent : sent'[i] = sent[i]
  BY <1>2, <1>3, Sleeping
<1>5. ASSUME NEW i \in DOMAIN sent'
      PROVE  \/ i \in DOMAIN sent /\ sent'[i] = sent[i] /\ i < last
             \/ i = last /\ sent'[i] = n
  BY <1>4
<1>6. ASSUME NEW i \in Flying'
      PROVE  i + 1 \in Flying /\ latency'[i] = latency[i + 1] /\ i \in Nat /\ i >= 1
  <2>1. i \in DOMAIN Tail(latency)
    BY <1>2 DEF Flying
  <2> QED
    BY <1>1, <1>2, <2>1, Waking DEF Flying
<1>7. \A m, p : Orderly(m, p) => Orderly(m, p)'
  BY <1>2 DEF Orderly
<1>8. SentInOrder'
  <2>1. SUFFICES ASSUME NEW i \in DOMAIN sent', NEW j \in DOMAIN sent', i < j
                 PROVE  Orderly(sent[i], sent[j])'
    BY DEF SentInOrder
  <2>2. i \in DOMAIN sent /\ sent'[i] = sent[i]
    BY <1>4, <1>5, <2>1
  <2>3. CASE j \in DOMAIN sent /\ sent'[j] = sent[j]
    BY <1>7, <2>1, <2>2, <2>3 DEF OrderInv, SentInOrder
  <2>4. CASE sent'[j] = n
    BY <1>1, <1>7, <2>2, <2>4 DEF OrderInv, SentBeforeFlying, n
  <2> QED
    BY <1>5, <2>3, <2>4
<1>9. FlyingInOrder'
  <2>1. SUFFICES ASSUME NEW i \in Flying', NEW j \in Flying', i < j
                 PROVE  Orderly(latency[i].arg, latency[j].arg)'
    BY DEF FlyingInOrder
  <2>2. i + 1 < j + 1
    BY <1>6, <2>1
  <2> QED
    BY <1>6, <1>7, <2>2 DEF OrderInv, FlyingInOrder
<1>10. SentBeforeFlying'
  <2>1. SUFFICES ASSUME NEW i \in DOMAIN sent', NEW j \in Flying'
                 PROVE  Orderly(sent[i], latency[j].arg)'
    BY DEF SentBeforeFlying
  <2>2. j + 1 \in Flying /\ latency'[j] = latency[j + 1] /\ 1 < j + 1
    BY <1>6
  <2>3. CASE i \in DOMAIN sent /\ sent'[i] = sent[i]
    BY <1>7, <2>2, <2>3 DEF OrderInv, SentBeforeFlying
  <2>4. CASE sent'[i] = n
    BY <1>1, <1>7, <2>2, <2>4 DEF OrderInv, FlyingInOrder, n
  <2> QED
    BY <1>5, <2>3, <2>4
<1>11. SentBeforeQueued'
  <2>1. SUFFICES ASSUME NEW i \in DOMAIN sent', NEW j \in DOMAIN pending
                 PROVE  Orderly(sent[i], pending[j])'
    BY <1>2 DEF SentBeforeQueued
  <2>2. CASE i \in DOMAIN sent /\ sent'[i] = sent[i]
    BY <1>2, <1>7, <2>2 DEF OrderInv, SentBeforeQueued
  <2>3. CASE sent'[i] = n
    BY <1>1, <1>2, <1>7, <2>3 DEF OrderInv, FlyingBeforeQueued, n
  <2> QED
    BY <1>5, <2>2, <2>3
<1>12. FlyingBeforeQueued'
  BY <1>2, <1>6, <1>7 DEF OrderInv, FlyingBeforeQueued
<1>13. QueuedInOrder' /\ QueuedIsStranded'
  BY <1>2 DEF OrderInv, QueuedInOrder, QueuedIsStranded
<1> QED
  BY <1>8, <1>9, <1>10, <1>11, <1>12, <1>13 DEF OrderInv

\* The flush lets what is queued sleep behind what sleeps.
LEMMA ReconnectedOrder ==
  ASSUME TypeOK, OrderInv, Reconnected
  PROVE  OrderInv'
<1> DEFINE N == Len(latency)
           K == Len(pending)
<1>1. UNCHANGED <<sent, stranded>> /\ pending' = <<>>
  BY DEF Reconnected, Kept
<1>2. /\ N \in Nat /\ K \in Nat /\ DOMAIN latency' = 1..(N + K)
      /\ DOMAIN latency = 1..N /\ DOMAIN pending = 1..K
      /\ \A i \in 1..(N + K) :
           latency'[i] = IF i <= N THEN latency[i]
                         ELSE LET n == pending[i - N] IN Sleep("published", pubs[n], n)
  <2>1. latency' \in Seq(Sleepers) /\ Len(latency') = N + K
    BY FlushedType
  <2>2. DOMAIN latency' = 1..(N + K)
    BY <2>1, LenProperties
  <2>3. DOMAIN latency = 1..N /\ DOMAIN pending = 1..K
    BY LenProperties DEF TypeOK
  <2> QED
    BY <2>2, <2>3, FlushedType
<1> HIDE DEF N, K
<1>3. ASSUME NEW i \in Flying'
      PROVE  /\ i \in Nat
             /\ \/ i \in Flying /\ i <= N /\ latency'[i].arg = latency[i].arg
                \/ i > N /\ i - N \in DOMAIN pending /\ latency'[i].arg = pending[i - N]
  <2>1. i \in 1..(N + K) /\ latency'[i].step = "published"
    BY <1>2 DEF Flying
  <2>2. CASE i <= N
    BY <1>2, <2>1, <2>2 DEF Flying
  <2>3. CASE i > N
    <3>1. i - N \in DOMAIN pending
      BY <1>2, <2>1, <2>3
    <3>2. latency'[i] = Sleep("published", pubs[pending[i - N]], pending[i - N])
      BY <1>2, <2>1, <2>3
    <3> QED
      BY <2>1, <2>3, <3>1, <3>2 DEF Sleep
  <2> QED
    BY <1>2, <2>1, <2>2, <2>3
<1>4. \A m, p : Orderly(m, p) => Orderly(m, p)'
  BY <1>1 DEF Orderly
<1>5. FlyingInOrder'
  <2>1. SUFFICES ASSUME NEW i \in Flying', NEW j \in Flying', i < j
                 PROVE  Orderly(latency[i].arg, latency[j].arg)'
    BY DEF FlyingInOrder
  <2>2. CASE i \in Flying /\ i <= N /\ latency'[i].arg = latency[i].arg
    BY <1>3, <1>4, <2>1, <2>2 DEF OrderInv, FlyingInOrder, FlyingBeforeQueued
  <2>3. CASE i > N /\ i - N \in DOMAIN pending /\ latency'[i].arg = pending[i - N]
    <3>1. j - N \in DOMAIN pending /\ latency'[j].arg = pending[j - N] /\ i - N < j - N
      BY <1>2, <1>3, <2>1, <2>3
    <3>2. pending[i - N] < pending[j - N]
      BY <2>3, <3>1 DEF OrderInv, QueuedInOrder
    <3> QED
      BY <2>3, <3>1, <3>2 DEF Orderly
  <2> QED
    BY <1>3, <2>2, <2>3
<1>6. SentBeforeFlying'
  BY <1>1, <1>3, <1>4 DEF OrderInv, SentBeforeFlying, SentBeforeQueued
<1>7. DOMAIN pending' = {}
  BY <1>1, EmptySeq
<1>8. QueuedInOrder' /\ SentBeforeQueued' /\ FlyingBeforeQueued' /\ QueuedIsStranded'
  BY <1>7 DEF QueuedInOrder, SentBeforeQueued, FlyingBeforeQueued, QueuedIsStranded
<1>9. SentInOrder'
  BY <1>1, <1>4 DEF OrderInv, SentInOrder
<1> QED
  BY <1>5, <1>6, <1>8, <1>9 DEF OrderInv

LEMMA ResetOrder ==
  ASSUME TypeOK, OrderInv, Reset
  PROVE  OrderInv'
<1>1. UNCHANGED <<latency, sent, stranded>> /\ DOMAIN pending' = {}
  BY EmptySeq DEF Reset
<1> QED
  BY <1>1 DEF OrderInv, SentInOrder, FlyingInOrder, QueuedInOrder, SentBeforeFlying,
     SentBeforeQueued, FlyingBeforeQueued, QueuedIsStranded, Flying, Orderly

LEMMA NextOrder == TypeOK /\ OrderInv /\ [Next]_vars => OrderInv'
<1> SUFFICES ASSUME TypeOK, OrderInv, [Next]_vars PROVE OrderInv'
  OBVIOUS
<1>1. ASSUME NEW c \in Channels, NEW h \in Handlers, Subscribe(c, h) \/ Unsubscribe(c, h)
      PROVE  OrderInv'
  <2>1. CASE Unsubscribe(c, h)
    BY <2>1, OrderUntouched DEF Unsubscribe
  <2> QED
    BY <1>1, <2>1, SubscribeOrder
<1>2. ASSUME NEW c \in Channels, NEW u \in Users, TrackPresence(c, u) \/ UntrackPresence(c, u)
      PROVE  OrderInv'
  <2>1. CASE UntrackPresence(c, u)
    BY <2>1, OrderUntouched DEF UntrackPresence
  <2> QED
    BY <1>2, <2>1, TrackPresenceOrder
<1>3. ASSUME NEW c \in Channels, Publish(c) PROVE OrderInv'
  BY <1>3, PublishOrdered
<1>4. ASSUME NEW c \in Channels, ScenarioFires(c) PROVE OrderInv'
  <2>1. UNCHANGED <<latency, sent, pending, stranded>> /\ (conn' = conn \/ conn' # "connected")
    BY <1>4 DEF ScenarioFires, Disconnected, Reconnecting
  <2> QED
    BY <2>1, OrderUntouched
<1>5. CASE WakesUp
  BY <1>5, ConnectedForSubscribeOrder, SubscribedOrder, ConnectedForTrackOrder,
     PublishedOrder DEF WakesUp
<1>6. CASE Reconnect \/ Disconnect
  <2>1. UNCHANGED <<latency, sent, pending, stranded>> /\ (conn' = conn \/ conn' # "connected")
    BY <1>6 DEF Reconnect, Disconnect, Disconnected, Reconnecting
  <2> QED
    BY <2>1, OrderUntouched
<1>7. CASE Reconnected \/ Reset
  BY <1>7, ReconnectedOrder, ResetOrder
<1>8. CASE UNCHANGED vars
  BY <1>8, OrderUntouched DEF vars
<1> QED
  BY <1>1, <1>2, <1>3, <1>4, <1>5, <1>6, <1>7, <1>8 DEF Next

\* For any constants, publishes reach their channel in the order of their publish()
\* calls, but for one that ensureConnected() left in the queue.
THEOREM PublishesKeepOrder == Spec => []PublishOrder
<1>1. Init => TypeOK /\ OrderInv
  BY InitType, InitOrder
<1>2. TypeOK /\ OrderInv => PublishOrder
  <2> SUFFICES ASSUME TypeOK, OrderInv, NEW i \in DOMAIN sent, NEW j \in DOMAIN sent,
                      i < j, sent[i] >= sent[j]
               PROVE  sent[j] \in stranded /\ sent[i] \notin stranded
    BY DEF PublishOrder
  <2>1. Orderly(sent[i], sent[j])
    BY DEF OrderInv, SentInOrder
  <2>2. sent[i] \in Nat /\ sent[j] \in Nat
    BY Numbers
  <2> QED
    BY <2>1, <2>2 DEF Orderly
<1>3. TypeOK /\ OrderInv /\ [Next]_vars => (TypeOK /\ OrderInv)'
  BY NextType, NextOrder
<1> QED
  BY <1>1, <1>2, <1>3, PTL DEF Spec

-----------------------------------------------------------------------------
\* When the engine needs no exception: the documented order, and no ghosts.

\* Nothing is queued when ensureConnected() makes the connection.
NothingStrands ==
  Wakes("connectToSubscribe") \/ Wakes("connectToTrack") => pending = <<>>

NobodyStranded == stranded = {}

LEMMA NextNobodyStranded ==
  ASSUME NobodyStranded, NothingStrands, [Next]_vars
  PROVE  NobodyStranded'
<1>1. ASSUME EnsureConnected, pending = <<>> PROVE NobodyStranded'
  <2>1. ToSet(<<>>) = {}
    BY DEF ToSet
  <2> QED
    BY <1>1, <2>1 DEF EnsureConnected, NobodyStranded
<1>2. CASE ConnectedForSubscribe \/ ConnectedForTrack
  BY <1>1, <1>2 DEF ConnectedForSubscribe, ConnectedForTrack, NothingStrands
<1>3. CASE UNCHANGED stranded
  BY <1>3 DEF NobodyStranded
<1> QED
  BY <1>2, <1>3
  DEF Next, WakesUp, Subscribe, Unsubscribe, TrackPresence, UntrackPresence, Publish,
      ScenarioFires, Subscribed, Published, Reconnect, Reconnected, Disconnect, Reset, vars

\* The order that types.ts:63 promises holds, without an exception, for callers
\* who connect before they publish: whose subscribe() or trackPresence() never
\* makes the connection while publishes are queued.
THEOREM FifoWhenNothingStrands == Spec /\ []NothingStrands => []Fifo
<1>1. Init => NobodyStranded
  BY DEF Init, NobodyStranded
<1>2. NobodyStranded /\ NothingStrands /\ [Next]_vars => NobodyStranded'
  BY NextNobodyStranded
<1>3. TypeOK /\ PublishOrder /\ NobodyStranded => Fifo
  <2> SUFFICES ASSUME TypeOK, PublishOrder, NobodyStranded, NEW i \in DOMAIN sent,
                      NEW j \in DOMAIN sent, i < j, pubs[sent[i]] = pubs[sent[j]]
               PROVE  sent[i] < sent[j]
    BY DEF Fifo
  <2>1. sent[i] \in Nat /\ sent[j] \in Nat
    BY Numbers
  <2>2. ~(sent[i] >= sent[j])
    BY DEF PublishOrder, NobodyStranded
  <2> QED
    BY <2>1, <2>2
<1>4. Init => TypeOK
  BY InitType
<1>5. TypeOK /\ [Next]_vars => TypeOK'
  BY NextType
<1> QED
  BY <1>1, <1>2, <1>3, <1>4, <1>5, PublishesKeepOrder, PTL DEF Spec

\* subscribe(c, h) is in its second sleep.
Subscribing(c, h) ==
  \E i \in DOMAIN latency : latency[i] = Sleep("subscribed", c, h)

\* A scenario, of whichever channel, comes to a `disconnect`.
ScriptedDisconnect(c) ==
  /\ channel[c].timers # <<>>
  /\ Scenario[c][Head(channel[c].timers)] = "disconnect"
  /\ ScenarioFires(c)

\* What makes such a sleep set ghost timers: unsubscribe() of an older handle of
\* the same handler, disconnect() or reset() of the engine, and a `disconnect` in
\* a scenario.  Callers can avoid the others, but this one only by what they
\* script; it is named though over a connection it does what Disconnect does.
Interrupts ==
  \/ \E c \in Channels, h \in Handlers : Subscribing(c, h) /\ Unsubscribe(c, h)
  \/ Awaited(Channels) # {} /\ (Disconnect \/ Reset)
  \/ Awaited(Channels) # {} /\ \E c \in Channels : ScriptedDisconnect(c)

SubscribesUninterrupted == [][~Interrupts]_vars

\* Timers run over a connection, for channels that somebody listens to.
TimersServed ==
  \A c \in Channels : channel[c].timers # <<>> =>
    channel[c].handlers # {} /\ conn # "disconnected"

NoGhost == ghosts = {}

\* What keeps it: the handler of a subscribe() that sleeps for the second time
\* stays in its channel, so that no other handler to leave there is the last.
Joined ==
  \A i \in DOMAIN latency : latency[i].step = "subscribed" =>
    latency[i].arg \in channel[latency[i].ch].handlers

\* ls2 has no such sleeper that ls has not.
KeptIn(ls, ls2) ==
  \A i \in DOMAIN ls2 : ls2[i].step = "subscribed" => \E j \in DOMAIN ls : ls2[i] = ls[j]

LEMMA KeptTail ==
  ASSUME TypeOK, latency # <<>>
  PROVE  KeptIn(latency, Tail(latency))
BY Waking DEF KeptIn

LEMMA KeptAppend ==
  ASSUME NEW S, NEW ls \in Seq(S), NEW s \in S, s.step # "subscribed"
  PROVE  KeptIn(ls, Append(ls, s))
<1>1. ASSUME NEW i \in DOMAIN Append(ls, s)
      PROVE  (i \in DOMAIN ls /\ Append(ls, s)[i] = ls[i]) \/ Append(ls, s)[i] = s
  BY Sleeping
<1> QED
  BY <1>1 DEF KeptIn

LEMMA KeptReconnected ==
  ASSUME TypeOK, Reconnected
  PROVE  KeptIn(latency, latency')
<1> SUFFICES ASSUME NEW i \in DOMAIN latency', latency'[i].step = "subscribed"
             PROVE  \E j \in DOMAIN latency : latency'[i] = latency[j]
  BY DEF KeptIn
<1>1. /\ latency' \in Seq(Sleepers) /\ latency \in Seq(Sleepers)
      /\ Len(latency) \in Nat /\ Len(pending) \in Nat
      /\ Len(latency') = Len(latency) + Len(pending)
  BY FlushedType DEF TypeOK
<1>2. i \in 1..(Len(latency) + Len(pending)) /\ DOMAIN latency = 1..Len(latency)
  BY <1>1, LenProperties
<1>3. i <= Len(latency)
  <2>1. SUFFICES ASSUME ~(i <= Len(latency)) PROVE FALSE
    OBVIOUS
  <2>2. latency'[i].step = "published"
    BY <1>2, <2>1, FlushedType DEF Sleep
  <2> QED
    BY <2>2
<1> QED
  BY <1>1, <1>2, <1>3, FlushedType

\* A step that takes no handler away, and after which nothing new sleeps for the
\* second time.
LEMMA JoinedStays ==
  ASSUME TypeOK, Joined, KeptIn(latency, latency'),
         \A c \in Channels : channel[c].handlers \subseteq channel'[c].handlers
  PROVE  Joined'
<1> SUFFICES ASSUME NEW i \in DOMAIN latency', latency'[i].step = "subscribed"
             PROVE  latency'[i].arg \in channel'[latency'[i].ch].handlers
  BY DEF Joined
<1>1. PICK j \in DOMAIN latency : latency'[i] = latency[j]
  BY DEF KeptIn
<1>2. latency[j].ch \in Channels
  BY SleeperType, ElementOfSeq, LenProperties DEF TypeOK
<1>3. latency[j].arg \in channel[latency[j].ch].handlers
  BY <1>1 DEF Joined
<1> QED
  BY <1>1, <1>2, <1>3

LEMMA AddJoined ==
  ASSUME TypeOK, Joined, NEW ls \in Seq(Sleepers), KeptIn(latency, ls),
         NEW c \in Channels, NEW h \in Handlers, Add(ls, c, h)
  PROVE  Joined'
<1> SUFFICES ASSUME NEW i \in DOMAIN latency', latency'[i].step = "subscribed"
             PROVE  latency'[i].arg \in channel'[latency'[i].ch].handlers
  BY DEF Joined
<1>1. /\ channel'[c].handlers = channel[c].handlers \cup {h}
      /\ \A d \in Channels \ {c} : channel'[d] = channel[d]
  BY AddType
<1>2. latency' = Append(ls, Sleep("subscribed", c, h))
      /\ Sleep("subscribed", c, h) \in Sleepers
  BY DEF Add, Sleepers, Sleep
<1>3. (i \in DOMAIN ls /\ latency'[i] = ls[i]) \/ latency'[i] = Sleep("subscribed", c, h)
  BY <1>2, Sleeping
<1>4. CASE latency'[i] = Sleep("subscribed", c, h)
  BY <1>1, <1>4 DEF Sleep
<1>5. CASE i \in DOMAIN ls /\ latency'[i] = ls[i]
  <2>1. PICK j \in DOMAIN latency : ls[i] = latency[j]
    BY <1>5 DEF KeptIn
  <2>2. latency[j].ch \in Channels
    BY SleeperType, ElementOfSeq, LenProperties DEF TypeOK
  <2>3. latency[j].arg \in channel[latency[j].ch].handlers
    BY <1>5, <2>1 DEF Joined
  <2> QED
    BY <1>1, <1>5, <2>1, <2>2, <2>3
<1> QED
  BY <1>3, <1>4, <1>5

LEMMA SubscribeJoined ==
  ASSUME TypeOK, Joined, NEW c \in Channels, NEW h \in Handlers, Subscribe(c, h)
  PROVE  Joined'
<1>1. latency \in Seq(Sleepers) /\ KeptIn(latency, latency)
  BY DEF TypeOK, KeptIn
<1>2. CASE conn = "connected"
  BY <1>1, <1>2, AddJoined DEF Subscribe
<1>3. CASE conn # "connected"
  <2>1. /\ Sleep("connectToSubscribe", c, h) \in Sleepers
        /\ Sleep("connectToSubscribe", c, h).step # "subscribed"
    BY DEF Sleepers, Sleep
  <2>2. KeptIn(latency, latency') /\ channel' = channel
    BY <1>1, <1>3, <2>1, KeptAppend DEF Subscribe
  <2> QED
    BY <2>2, JoinedStays
<1> QED
  BY <1>2, <1>3

LEMMA TrackPresenceJoined ==
  ASSUME TypeOK, Joined, NEW c \in Channels, NEW u \in Users, TrackPresence(c, u)
  PROVE  Joined'
<1>1. latency \in Seq(Sleepers) /\ KeptIn(latency, latency)
  BY DEF TypeOK, KeptIn
<1>2. CASE conn = "connected"
  <2>1. latency' = latency /\ Track(c, u)
    BY <1>2 DEF TrackPresence
  <2>2. KeptIn(latency, latency')
    BY <1>1, <2>1
  <2> QED
    BY <2>1, <2>2, TrackType, JoinedStays
<1>3. CASE conn # "connected"
  <2>1. /\ Sleep("connectToTrack", c, u) \in Sleepers
        /\ Sleep("connectToTrack", c, u).step # "subscribed"
    BY DEF Sleepers, Sleep
  <2>2. KeptIn(latency, latency') /\ channel' = channel
    BY <1>1, <1>3, <2>1, KeptAppend DEF TrackPresence
  <2> QED
    BY <2>2, JoinedStays
<1> QED
  BY <1>2, <1>3

LEMMA UntrackPresenceJoined ==
  ASSUME TypeOK, Joined, NEW c \in Channels, NEW u \in Users, UntrackPresence(c, u)
  PROVE  Joined'
<1> DEFINE s == Open(channel[c].handlers, channel[c].presence \ {u}, channel[c].timers,
                     channel[c].next)
<1>1. channel' = [channel EXCEPT ![c] = s] /\ latency' = latency
  BY DEF UntrackPresence
<1>2. s.handlers = channel[c].handlers
  BY DEF Open
<1> HIDE DEF s
<1>3. channel'[c] = s /\ \A d \in Channels \ {c} : channel'[d] = channel[d]
  BY <1>1 DEF TypeOK
<1>4. KeptIn(latency, latency')
  BY <1>1 DEF KeptIn
<1> QED
  BY <1>2, <1>3, <1>4, JoinedStays

LEMMA PublishJoined ==
  ASSUME TypeOK, Joined, NEW c \in Channels, Publish(c)
  PROVE  Joined'
<1> DEFINE n == Len(pubs) + 1
           s == Sleep("published", c, n)
<1>1. latency \in Seq(Sleepers') /\ s \in Sleepers'
  BY Numbered, SeqMonotonic DEF TypeOK, Sleepers, Sleep
<1>2. s.step # "subscribed"
  BY DEF Sleep
<1>3. latency' = latency \/ latency' = Append(latency, s)
  BY DEF Publish
<1> HIDE DEF s
<1>4. KeptIn(latency, latency')
  <2>1. CASE latency' = latency
    BY <2>1 DEF KeptIn
  <2>2. CASE latency' = Append(latency, s)
    BY <1>1, <1>2, <2>2, KeptAppend
  <2> QED
    BY <1>3, <2>1, <2>2
<1>5. channel' = channel
  BY DEF Publish
<1> QED
  BY <1>4, <1>5, JoinedStays

LEMMA WakesUpJoined ==
  ASSUME TypeOK, Joined, WakesUp
  PROVE  Joined'
<1>1. latency # <<>>
  BY DEF WakesUp, ConnectedForSubscribe, Subscribed, ConnectedForTrack, Published, Wakes
<1>2. KeptIn(latency, Tail(latency))
  BY <1>1, KeptTail
<1>3. CASE ConnectedForSubscribe
  <2>1. Woken.step = "connectToSubscribe"
    BY <1>3 DEF ConnectedForSubscribe, Wakes, Woken
  <2>2. Woken.ch \in Channels /\ Woken.arg \in Handlers /\ Tail(latency) \in Seq(Sleepers)
    BY <1>1, <2>1, Waking, SleeperType
  <2> QED
    BY <1>2, <1>3, <2>2, AddJoined DEF ConnectedForSubscribe
<1>4. CASE Subscribed
  BY <1>2, <1>4, SubscribedChannel, JoinedStays DEF Subscribed
<1>5. CASE ConnectedForTrack
  <2>1. Woken.step = "connectToTrack"
    BY <1>5 DEF ConnectedForTrack, Wakes, Woken
  <2>2. Woken.ch \in Channels /\ Woken.arg \in Users
    BY <1>1, <2>1, Waking, SleeperType
  <2>3. \A d \in Channels : channel'[d].handlers = channel[d].handlers
    BY <1>5, <2>2, TrackType DEF ConnectedForTrack
  <2> QED
    BY <1>2, <1>5, <2>3, JoinedStays DEF ConnectedForTrack
<1>6. CASE Published
  BY <1>2, <1>6, JoinedStays DEF Published
<1> QED
  BY <1>3, <1>4, <1>5, <1>6 DEF WakesUp

\* disconnect() takes no handlers.
LEMMA DisconnectedHandlers ==
  ASSUME TypeOK, NEW ch, ChannelsOK(ch), Disconnected(ch)
  PROVE  \A c \in Channels : channel'[c].handlers = ch[c].handlers
<1> SUFFICES ASSUME NEW c \in Channels PROVE channel'[c].handlers = ch[c].handlers
  OBVIOUS
<1>1. channel' = ch \/ channel' = Cleared(ch)
  BY DEF Disconnected
<1>2. CASE ch[c].open
  <2>1. Cleared(ch)[c] = Open(ch[c].handlers, ch[c].presence, <<>>, ch[c].next)
    BY <1>2 DEF Cleared
  <2> QED
    BY <1>1, <2>1 DEF Open
<1>3. CASE ~ch[c].open
  <2>1. Cleared(ch)[c] = Gone /\ ch[c] = Gone
    BY <1>3 DEF Cleared, ChannelsOK
  <2> QED
    BY <1>1, <2>1
<1> QED
  BY <1>2, <1>3

LEMMA ScenarioFiresJoined ==
  ASSUME TypeOK, Joined, NEW c \in Channels, ScenarioFires(c)
  PROVE  Joined'
<1> DEFINE fired == [channel EXCEPT ![c] =
                      Open(@.handlers, @.presence, Tail(@.timers), @.next)]
<1>1. /\ ChannelsOK(fired)
      /\ \A d \in Channels : fired[d].handlers = channel[d].handlers
  BY FiredType DEF ScenarioFires
<1>2. channel' = fired \/ Disconnected(fired)
  BY DEF ScenarioFires
<1>3. KeptIn(latency, latency')
  BY DEF ScenarioFires, KeptIn
<1> HIDE DEF fired
<1> QED
  BY <1>1, <1>2, <1>3, DisconnectedHandlers, JoinedStays

\* The sleepers of a channel that is left are none, when the handler that leaves
\* is not one of theirs.
LEMMA UnsubscribeJoined ==
  ASSUME TypeOK, Joined, NEW c \in Channels, NEW h \in Handlers, Unsubscribe(c, h),
         ~Subscribing(c, h)
  PROVE  /\ Joined'
         /\ ghosts = {} => ghosts' = {}
<1> DEFINE rest == channel[c].handlers \ {h}
           s == Open(rest, channel[c].presence, channel[c].timers, channel[c].next)
<1>1. \A i \in DOMAIN latency :
        latency[i].step = "subscribed" /\ latency[i].ch = c => latency[i].arg \in rest
  <2> SUFFICES ASSUME NEW i \in DOMAIN latency, latency[i].step = "subscribed",
                      latency[i].ch = c
               PROVE  latency[i].arg \in rest
    OBVIOUS
  <2>1. latency[i] \in Sleepers
    BY ElementOfSeq, LenProperties DEF TypeOK
  <2>2. latency[i].arg # h
    <3>1. latency[i] = Sleep("subscribed", latency[i].ch, latency[i].arg)
      BY <2>1 DEF Sleepers, Sleep
    <3> QED
      BY <3>1 DEF Subscribing
  <2> QED
    BY <2>2 DEF Joined
<1>2. latency' = latency
  BY DEF Unsubscribe
<1>3. \A d \in Channels \ {c} : channel'[d] = channel[d]
  BY DEF Unsubscribe, TypeOK
<1>4. \A i \in DOMAIN latency : latency[i].step = "subscribed" => latency[i].ch \in Channels
  BY SleeperType, ElementOfSeq, LenProperties DEF TypeOK
<1>5. CASE rest = {}
  <2>1. Awaited({c}) = {}
    BY <1>1, <1>5 DEF Awaited
  <2>2. ghosts = {} => ghosts' = {}
    BY <1>5, <2>1 DEF Unsubscribe
  <2>3. \A i \in DOMAIN latency : latency[i].step = "subscribed" => latency[i].ch # c
    BY <1>1, <1>5
  <2> QED
    BY <1>2, <1>3, <1>4, <2>2, <2>3 DEF Joined
<1>6. CASE rest # {}
  <2>1. channel' = [channel EXCEPT ![c] = s] /\ ghosts' = ghosts
    BY <1>6 DEF Unsubscribe
  <2>2. s.handlers = rest
    BY DEF Open
  <2> HIDE DEF s
  <2>3. channel'[c].handlers = rest
    BY <2>1, <2>2 DEF TypeOK
  <2> QED
    BY <1>1, <1>2, <1>3, <1>4, <2>1, <2>3 DEF Joined
<1> QED
  BY <1>5, <1>6

\* Nobody who sleeps for the second time is there to be disturbed.
LEMMA NoneAwaitedJoined ==
  ASSUME TypeOK, Awaited(Channels) = {}, latency' = latency
  PROVE  Joined'
<1>1. \A i \in DOMAIN latency : latency[i].step = "subscribed" => latency[i].ch \in Channels
  BY SleeperType, ElementOfSeq, LenProperties DEF TypeOK
<1>2. \A i \in DOMAIN latency : latency[i].step # "subscribed"
  BY <1>1 DEF Awaited
<1> QED
  BY <1>2 DEF Joined

LEMMA NextUninterrupted ==
  ASSUME TypeOK, Joined, NoGhost, [Next]_vars, [~Interrupts]_vars
  PROVE  Joined' /\ NoGhost'
<1>1. CASE UNCHANGED vars
  <2>1. UNCHANGED <<latency, channel, ghosts>>
    BY <1>1 DEF vars
  <2> QED
    BY <2>1 DEF Joined, NoGhost
<1>2. CASE ~UNCHANGED vars
  <2>1. ~Interrupts
    BY <1>2
  <2>2. ASSUME NEW c \in Channels, NEW h \in Handlers, Subscribe(c, h) \/ Unsubscribe(c, h)
        PROVE  Joined' /\ NoGhost'
    <3>1. CASE Subscribe(c, h)
      BY <3>1, SubscribeJoined DEF Subscribe, NoGhost
    <3>2. CASE Unsubscribe(c, h)
      BY <2>1, <3>2, UnsubscribeJoined DEF Interrupts, NoGhost
    <3> QED
      BY <2>2, <3>1, <3>2
  <2>3. ASSUME NEW c \in Channels, NEW u \in Users,
               TrackPresence(c, u) \/ UntrackPresence(c, u)
        PROVE  Joined' /\ NoGhost'
    BY <2>3, TrackPresenceJoined, UntrackPresenceJoined
    DEF TrackPresence, UntrackPresence, NoGhost
  <2>4. ASSUME NEW c \in Channels, Publish(c) PROVE Joined' /\ NoGhost'
    BY <2>4, PublishJoined DEF Publish, NoGhost
  <2>5. ASSUME NEW c \in Channels, ScenarioFires(c) PROVE Joined' /\ NoGhost'
    <3>1. Joined'
      BY <2>5, ScenarioFiresJoined
    <3>2. CASE Scenario[c][Head(channel[c].timers)] = "disconnect"
      <4>1. Awaited(Channels) = {}
        BY <2>1, <2>5, <3>2 DEF Interrupts, ScriptedDisconnect, ScenarioFires
      <4> QED
        BY <2>5, <3>1, <4>1 DEF ScenarioFires, Disconnected, NoGhost
    <3>3. CASE Scenario[c][Head(channel[c].timers)] # "disconnect"
      BY <2>5, <3>1, <3>3 DEF ScenarioFires, NoGhost
    <3> QED
      BY <3>2, <3>3
  <2>6. CASE WakesUp
    BY <2>6, WakesUpJoined
    DEF WakesUp, ConnectedForSubscribe, Subscribed, ConnectedForTrack, Published, NoGhost
  <2>7. CASE Reconnect
    <3>1. KeptIn(latency, latency') /\ channel' = channel /\ ghosts' = ghosts
      BY <2>7 DEF Reconnect, KeptIn
    <3> QED
      BY <3>1, JoinedStays DEF NoGhost
  <2>8. CASE Reconnected
    <3>1. channel' = channel /\ ghosts' = ghosts
      BY <2>8 DEF Reconnected
    <3> QED
      BY <2>8, <3>1, KeptReconnected, JoinedStays DEF NoGhost
  <2>9. CASE Disconnect \/ Reset
    <3>1. Awaited(Channels) = {}
      BY <2>1, <2>9 DEF Interrupts
    <3>2. latency' = latency /\ (ghosts' = ghosts \/ ghosts' = Awaited(Channels))
      BY <2>9 DEF Disconnect, Disconnected, Reset
    <3> QED
      BY <3>1, <3>2, NoneAwaitedJoined DEF NoGhost
  <2> QED
    BY <1>2, <2>2, <2>3, <2>4, <2>5, <2>6, <2>7, <2>8, <2>9 DEF Next
<1> QED
  BY <1>1, <1>2

\* No scenario runs without a listener and a connection, unless the second sleep
\* of a subscribe() is interrupted: somebody unsubscribes the very handler,
\* disconnects or resets the engine, or a scenario of any channel comes to a
\* `disconnect` meanwhile.  Whatever else happens does no harm: other subscribes
\* and handlers that leave, publishes, events, reconnects, a new connection.
THEOREM TimersServedUninterrupted == Spec /\ SubscribesUninterrupted => []TimersServed
<1>1. Init => Joined /\ NoGhost
  <2>1. DOMAIN <<>> = {}
    OBVIOUS
  <2> QED
    BY <2>1 DEF Init, Joined, NoGhost
<1>2. /\ TypeOK /\ Joined /\ NoGhost /\ [Next]_vars
      /\ [~Interrupts]_vars
      => Joined' /\ NoGhost'
  BY NextUninterrupted
<1>3. NoGhostTimers /\ NoGhost => TimersServed
  BY DEF NoGhostTimers, NoGhost, TimersServed
<1> QED
  BY <1>1, <1>2, <1>3, TypeCorrect, NoGhosts, PTL DEF Spec, SubscribesUninterrupted
=============================================================================
