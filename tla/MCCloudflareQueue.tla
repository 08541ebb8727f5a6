-------------------------- MODULE MCCloudflareQueue --------------------------
\* Batches of one and of two with a retry budget of 2 and of 1, a consumer
\* whose batch size makes every tick throw, and two ticks at once.  Ids from 10
\* on are of one length, so that their order as strings is that of the sends.
EXTENDS CloudflareQueue

CONSTANTS q1

MCQueues == {q1}
MCOptions == {[size |-> 1, max |-> 2, dlq |-> TRUE],
              [size |-> 2, max |-> 1, dlq |-> FALSE],
              [size |-> 0, max |-> 1, dlq |-> FALSE]}
=============================================================================
