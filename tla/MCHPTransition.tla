---------------------------- MODULE MCHPTransition ----------------------------
EXTENDS HPTransition

L(kind, value) == [kind |-> kind, value |-> value]
MCLockLists == {<<>>, <<L(100, 1)>>, <<L(50, 4), L(100, 2), L(50, 0)>>, <<L(100, 4)>>}
MCDeltas == {-2, -7, 3}
MCLowest == -6
=============================================================================
