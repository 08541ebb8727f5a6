------------------------------- MODULE MCKeyDB -------------------------------
\* Three masters and one key, with and without a lag: enough for writes of two
\* masters to cross, for a flush or a delete to race with a replication, and
\* for a subscription to be closed twice around that of somebody else.
EXTENDS KeyDB

CONSTANTS a, b, c, k1

MCMasters == {a, b, c}
MCKeys == {k1}
MCLags == BOOLEAN
=============================================================================
