-------------------------- MODULE MCRealtimeEngine --------------------------
\* Two handlers and a user on one channel, with a scenario that delivers,
\* reconnects and disconnects, and a queue that overflows.
EXTENDS RealtimeEngine

CONSTANTS c1, h1, h2, u1

MCChannels == {c1}
MCHandlers == {h1, h2}
MCUsers == {u1}
MCScenario == [c \in MCChannels |-> <<"event", "reconnect", "disconnect">>]
=============================================================================
