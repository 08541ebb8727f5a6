------------------------------- MODULE MCPool -------------------------------
\* Pool with more borrowers than slots, so that a slot changes hands by
\* takeFree and by a hand-over, and a queue of two waiters forms.
EXTENDS Pool

CONSTANTS c1, c2, c3, c4

MCClients == {c1, c2, c3, c4}
MCSize == 2
=============================================================================
