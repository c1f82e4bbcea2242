---------------------------- MODULE MCTransportTx ----------------------------
EXTENDS TransportTx, TLC

Whole(k) == [kind |-> k, parts |-> 1]
Split(k) == [kind |-> k, parts |-> 2]

\* A packet of two frames, and two packets that draw on different counters.
SomeChunks == {<<Split("user")>>, <<Whole("control"), Whole("user")>>}

Symmetry == Permutations(Threads) \cup Permutations(Targets)
=============================================================================
