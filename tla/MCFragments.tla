----------------------------- MODULE MCFragments -----------------------------
EXTENDS Fragments, TLC

Pkt(first, parts, local) == [first |-> first, parts |-> parts, local |-> local]
A == Pkt(1, 2, TRUE)
B == Pkt(3, 2, TRUE)
C == Pkt(5, 2, FALSE)

\* Two packets of two frames for this node and one to relay.
ThreePackets == {A, B, C}
\* The frames of A come in any way, the second of B never, the first of C only with
\* the second, which may have come before.
SomeBatches == {<<f>> : f \in {Frame(A, 1), Frame(A, 2), Frame(B, 1), Frame(C, 2)}}
               \cup {<<Frame(p, 1), Frame(p, 2)>> : p \in {A, C}}

Symmetry == Permutations(Links)
=============================================================================
