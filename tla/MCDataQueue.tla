----------------------------- MODULE MCDataQueue -----------------------------
\* Two handlers, one key and sends without a key, so that an entry can be
\* passed on from one handler to the next, retried behind another entry, and
\* meet a second entry of its own key.
EXTENDS DataQueue

CONSTANTS h1, h2, k1

MCHandlers == {h1, h2}
MCKeys == {k1}
=============================================================================
