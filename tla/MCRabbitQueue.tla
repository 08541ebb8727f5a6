---------------------------- MODULE MCRabbitQueue ----------------------------
\* Two consumers of one queue, with and without noAck and prefetch; a publish
\* reaches that queue alone, or then another that is only polled.
EXTENDS RabbitQueue

CONSTANTS c1, c2, q1, q2

MCConsumers == {c1, c2}
MCQueues == {q1, q2}
MCRoutes == {<<q1>>, <<q1, q2>>}
MCOption == c1 :> [queue |-> q1, prefetch |-> 1, noAck |-> FALSE, exclusive |-> FALSE]
            @@ c2 :> [queue |-> q1, prefetch |-> 0, noAck |-> TRUE, exclusive |-> FALSE]
MCPrefetchOf2 ==
  [c \in MCConsumers |-> [queue |-> q1, prefetch |-> 2, noAck |-> FALSE, exclusive |-> c = c2]]
=============================================================================
