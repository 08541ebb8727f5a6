--------------------------- MODULE RealtimeEngine ---------------------------
(***************************************************************************)
(* The engine the provider mocks of @kiwa-lab/realtime wrap, class         *)
(* RealtimeEngine of packages/realtime/src/engine.ts: a connection,        *)
(* channels with handlers, presence and a scripted scenario, publishes     *)
(* that wait for a reconnect() while there is no connection.               *)
(*                                                                         *)
(* Calls are cut where they sleep.  All sleep for artificialLatencyMs, so  *)
(* they wake up in the order they fell asleep in, but for reconnect(),     *)
(* whose backoff has jitter.  Handlers do not call the engine while it     *)
(* delivers to them.                                                       *)
(***************************************************************************)
EXTENDS Integers, Sequences, SequencesExt

CONSTANTS
  Channels,
  Handlers,
  Users,
  Scenario,           \* scenarios: the events of a channel, "event" standing
                      \* for those that are only delivered
  BackpressureLimit,  \* backpressureLimit
  MaxCalls            \* bound: calls that sleep or queue

ASSUME RealtimeEngineAssumption ==
  /\ Scenario \in [Channels -> Seq({"event", "disconnect", "reconnect"})]
  /\ BackpressureLimit \in Nat
  /\ MaxCalls \in Nat

VARIABLES
  conn,        \* connectionState
  latency,     \* calls that sleep for artificialLatencyMs, in order
  backoff,     \* how many reconnect() sleep
  channel,     \* channels
  handles,     \* the subscriptions whose handle has been returned
  pubs,        \* the publishes: their channels
  pending,     \* pendingQueue
  calls,       \* history: calls that count for the bound
  sent,        \* history: publishes handed to their channel, in order
  stranded,    \* history: publishes in pendingQueue when ensureConnected() has
               \* made the connection
  ghosts       \* history: channels cleared while a subscribe() to them slept

vars == <<conn, latency, backoff, channel, handles, pubs, pending, calls, sent,
          stranded, ghosts>>

Publishes == DOMAIN pubs

\* A channel that is not in the Map.
Gone == [open |-> FALSE, handlers |-> {}, presence |-> {}, timers |-> <<>>, next |-> 1]

\* One that is.
Open(handlers, presence, timers, next) ==
  [open |-> TRUE, handlers |-> handlers, presence |-> presence, timers |-> timers,
   next |-> next]

\* next: the event scenarioIndex points to; timers: the events whose timers
\* are set, which fire in this order.
ChannelState ==
  [open : BOOLEAN, handlers : SUBSET Handlers, presence : SUBSET Users,
   timers : Seq(Nat), next : Nat]

\* What a sleeping call does when it wakes up, and with what.
Sleepers ==
  [step : {"connectToSubscribe", "subscribed"}, ch : Channels, arg : Handlers]
    \cup [step : {"connectToTrack"}, ch : Channels, arg : Users]
    \cup [step : {"published"}, ch : Channels, arg : Publishes]

TypeOK ==
  /\ conn \in {"disconnected", "connecting", "connected", "reconnecting"}
  /\ latency \in Seq(Sleepers)
  /\ backoff \in Nat
  /\ channel \in [Channels -> ChannelState]
  /\ \A c \in Channels : ~channel[c].open => channel[c] = Gone
  /\ handles \subseteq Channels \X Handlers
  /\ pubs \in Seq(Channels)
  /\ pending \in Seq(Publishes)
  /\ Len(pending) <= BackpressureLimit
  /\ sent \in Seq(Publishes)
  /\ stranded \subseteq Publishes

Init ==
  /\ conn = "disconnected"
  /\ latency = <<>>
  /\ backoff = 0
  /\ channel = [c \in Channels |-> Gone]
  /\ handles = {}
  /\ pubs = <<>>
  /\ pending = <<>>
  /\ calls = 0
  /\ sent = <<>>
  /\ stranded = {}
  /\ ghosts = {}

Called == calls < MaxCalls /\ calls' = calls + 1

Sleep(step, c, arg) == [step |-> step, ch |-> c, arg |-> arg]

\* The call that wakes up has this step to do; the others, before a new sleep.
Wakes(step) == latency # <<>> /\ Head(latency).step = step
Woken == Head(latency)

-----------------------------------------------------------------------------
\* Subscriptions and presence.  Both begin with ensureConnected().

\* subscribe() adds its handler and sleeps again; ls are the other sleepers.
Add(ls, c, h) ==
  /\ channel' = [channel EXCEPT ![c] =
                    Open(@.handlers \cup {h}, @.presence, @.timers, @.next)]
  /\ latency' = Append(ls, Sleep("subscribed", c, h))

Subscribe(c, h) ==
  /\ Called
  /\ IF conn = "connected"
     THEN Add(latency, c, h) /\ UNCHANGED conn
     ELSE /\ conn' = "connecting"
          /\ latency' = Append(latency, Sleep("connectToSubscribe", c, h))
          /\ UNCHANGED channel
  /\ UNCHANGED <<backoff, handles, pubs, pending, sent, stranded, ghosts>>

\* ensureConnected() wakes up: the connection is there, whatever has happened
\* to it meanwhile, and nothing is flushed.
EnsureConnected ==
  /\ conn' = "connected"
  /\ stranded' = stranded \cup ToSet(pending)

ConnectedForSubscribe ==
  /\ Wakes("connectToSubscribe")
  /\ EnsureConnected
  /\ Add(Tail(latency), Woken.ch, Woken.arg)
  /\ UNCHANGED <<backoff, handles, pubs, pending, calls, sent, ghosts>>

\* subscribe() schedules what is left of the scenario, in a new channel when
\* the one it joined is gone, and returns.
Subscribed ==
  /\ Wakes("subscribed")
  /\ LET c == Woken.ch
         s == channel[c]
         n == Len(Scenario[c])
     IN /\ channel' = IF n = 0 THEN channel ELSE
             [channel EXCEPT ![c] =
               Open(s.handlers, s.presence,
                    s.timers \o [i \in 1..(n + 1 - s.next) |-> s.next + i - 1], n + 1)]
        /\ handles' = handles \cup {<<c, Woken.arg>>}
  /\ latency' = Tail(latency)
  /\ UNCHANGED <<conn, backoff, pubs, pending, calls, sent, stranded, ghosts>>

\* The channels of cs that a subscribe() will come back to.
Awaited(cs) ==
  {c \in cs : \E i \in DOMAIN latency : latency[i].step = "subscribed" /\ latency[i].ch = c}

\* Mutated Left: the timers are not cleared.
LeftTicking(c) == [Gone EXCEPT !.timers = channel[c].timers]

Left(c) == Gone

\* unsubscribe() of a handle, once or again.
Unsubscribe(c, h) ==
  /\ <<c, h>> \in handles
  /\ channel[c].open
  /\ LET rest == channel[c].handlers \ {h}
     IN IF rest = {}
        THEN /\ channel' = [channel EXCEPT ![c] = Left(c)]
             /\ ghosts' = (ghosts \ {c}) \cup Awaited({c})
        ELSE /\ channel' = [channel EXCEPT ![c] = Open(rest, @.presence, @.timers, @.next)]
             /\ UNCHANGED ghosts
  /\ UNCHANGED <<conn, latency, backoff, handles, pubs, pending, calls, sent, stranded>>

Track(c, u) ==
  channel' = [channel EXCEPT ![c] =
                Open(@.handlers, @.presence \cup {u}, @.timers, @.next)]

TrackPresence(c, u) ==
  /\ Called
  /\ IF conn = "connected"
     THEN Track(c, u) /\ UNCHANGED <<conn, latency>>
     ELSE /\ conn' = "connecting"
          /\ latency' = Append(latency, Sleep("connectToTrack", c, u))
          /\ UNCHANGED channel
  /\ UNCHANGED <<backoff, handles, pubs, pending, sent, stranded, ghosts>>

ConnectedForTrack ==
  /\ Wakes("connectToTrack")
  /\ EnsureConnected
  /\ Track(Woken.ch, Woken.arg)
  /\ latency' = Tail(latency)
  /\ UNCHANGED <<backoff, handles, pubs, pending, calls, sent, ghosts>>

UntrackPresence(c, u) ==
  /\ u \in channel[c].presence
  /\ channel' = [channel EXCEPT ![c] =
                    Open(@.handlers, @.presence \ {u}, @.timers, @.next)]
  /\ UNCHANGED <<conn, latency, backoff, handles, pubs, pending, calls, sent, stranded, ghosts>>

-----------------------------------------------------------------------------
\* Publishes.

\* publish(): sent after a sleep, queued, or dropped.
Publish(c) ==
  /\ Called
  /\ LET n == Len(pubs) + 1
     IN /\ pubs' = Append(pubs, c)
        /\ IF conn = "connected"
           THEN /\ latency' = Append(latency, Sleep("published", c, n))
                /\ UNCHANGED pending
           ELSE IF Len(pending) < BackpressureLimit
           THEN /\ pending' = Append(pending, n)
                /\ UNCHANGED latency
           ELSE UNCHANGED <<latency, pending>>
  /\ UNCHANGED <<conn, backoff, channel, handles, sent, stranded, ghosts>>

Published ==
  /\ Wakes("published")
  /\ sent' = Append(sent, Woken.arg)
  /\ latency' = Tail(latency)
  /\ UNCHANGED <<conn, backoff, channel, handles, pubs, pending, calls, stranded, ghosts>>

\* Reconnecting, begun by reconnect() or by a scenario.
Reconnecting == conn' = "reconnecting" /\ backoff' = backoff + 1

Reconnect ==
  /\ Called
  /\ Reconnecting
  /\ UNCHANGED <<latency, channel, handles, pubs, pending, sent, stranded, ghosts>>

\* Mutated Flushed: the newest first.
FlushedNewestFirst == Reverse(pending)

\* The publishes the flush calls, which find the connection there.
Flushed == pending

\* Mutated Kept: the flush runs before the connection is there, so that its
\* publishes are queued again.
KeptAll == pending

\* The pendingQueue after the flush.
Kept == <<>>

\* reconnect() wakes up and flushes.
Reconnected ==
  /\ backoff > 0
  /\ backoff' = backoff - 1
  /\ conn' = "connected"
  /\ latency' = latency \o [i \in DOMAIN Flushed |->
                              Sleep("published", pubs[Flushed[i]], Flushed[i])]
  /\ pending' = Kept
  /\ UNCHANGED <<channel, handles, pubs, calls, sent, stranded, ghosts>>

-----------------------------------------------------------------------------
\* Mutated Cleared: the timers go on.
ClearedNone(ch) == ch

\* The channels, their timers cleared.
Cleared(ch) ==
  [c \in Channels |-> IF ch[c].open
                      THEN Open(ch[c].handlers, ch[c].presence, <<>>, ch[c].next)
                      ELSE Gone]

\* disconnect() with channels ch; it does nothing when there is no connection.
Disconnected(ch) ==
  IF conn = "disconnected"
  THEN channel' = ch /\ UNCHANGED <<conn, ghosts>>
  ELSE channel' = Cleared(ch) /\ conn' = "disconnected" /\ ghosts' = Awaited(Channels)

Disconnect ==
  /\ Disconnected(channel)
  /\ UNCHANGED <<latency, backoff, handles, pubs, pending, calls, sent, stranded>>

\* reset(): what sleeps goes on sleeping.
Reset ==
  /\ channel' = [c \in Channels |-> Gone]
  /\ conn' = "disconnected"
  /\ pending' = <<>>
  /\ ghosts' = Awaited(Channels)
  /\ UNCHANGED <<latency, backoff, handles, pubs, calls, sent, stranded>>

\* The next event of the scenario of c: it is delivered, disconnects or
\* reconnects.
ScenarioFires(c) ==
  /\ channel[c].timers # <<>>
  /\ LET fired == [channel EXCEPT ![c] =
                     Open(@.handlers, @.presence, Tail(@.timers), @.next)]
         event == Scenario[c][Head(channel[c].timers)]
     IN \/ event = "event" /\ channel' = fired /\ UNCHANGED <<conn, backoff, ghosts>>
        \/ event = "disconnect" /\ Disconnected(fired) /\ UNCHANGED backoff
        \/ event = "reconnect" /\ Reconnecting /\ channel' = fired /\ UNCHANGED ghosts
  /\ UNCHANGED <<latency, handles, pubs, pending, calls, sent, stranded>>

WakesUp == ConnectedForSubscribe \/ Subscribed \/ ConnectedForTrack \/ Published

Next ==
  \/ \E c \in Channels :
       \/ \E h \in Handlers : Subscribe(c, h) \/ Unsubscribe(c, h)
       \/ \E u \in Users : TrackPresence(c, u) \/ UntrackPresence(c, u)
       \/ Publish(c)
       \/ ScenarioFires(c)
  \/ WakesUp
  \/ Reconnect
  \/ Reconnected
  \/ Disconnect
  \/ Reset

Spec == Init /\ [][Next]_vars

\* Sleeps end.
FairSpec == Spec /\ WF_vars(WakesUp) /\ WF_vars(Reconnected)

-----------------------------------------------------------------------------
\* Broadcasts keep the order of their publish() calls within a channel
\* (types.ts:63 promises as much), but for one that a connection of
\* ensureConnected(), which flushes nothing, leaves in the queue while later
\* ones are sent past it.
PublishOrder ==
  \A i, j \in DOMAIN sent :
    LET early == sent[j]
        late == sent[i]
    IN i < j /\ late >= early /\ pubs[late] = pubs[early] =>
         early \in stranded /\ late \notin stranded

\* The order of the broadcasts of a channel is that of their publish() calls,
\* without an exception: "ordering は per-channel FIFO を保証する"
\* (types.ts:62-63).
Fifo ==
  \A i, j \in DOMAIN sent : i < j /\ pubs[sent[i]] = pubs[sent[j]] => sent[i] < sent[j]

\* A scenario runs only for a channel that somebody listens to, and over a
\* connection: unless a subscribe() slept while the last handler left, the
\* connection went or the engine was reset, and has set the timers since.
NoGhostTimers ==
  \A c \in Channels : channel[c].timers # <<>> /\ c \notin ghosts =>
    channel[c].handlers # {} /\ conn # "disconnected"

InHand(n) ==
  Contains(pending, n) \/ \E i \in DOMAIN latency : latency[i] = Sleep("published", pubs[n], n)

\* A publish that is queued when reconnect() sleeps is not queued for ever: it
\* is sent, unless a reset() clears the queue.
PublishesLeave ==
  \A n \in 1..MaxCalls :
    (Contains(pending, n) /\ backoff > 0) ~> (n \in Publishes /\ ~InHand(n))
=============================================================================
