------------------------------ MODULE MCReorder ------------------------------
EXTENDS Reorder

\* Chunks of one or two frames of a class, in any order.
Single(c, S) == {<<[c |-> c, n |-> n]>> : n \in S}
Pairs(c, S) == {<<[c |-> c, n |-> p[1]], [c |-> c, n |-> p[2]]>> : p \in S \X S}

\* Every order of the frames of one class.
OneClass == Single(0, 1..4) \cup Pairs(0, 1..4)
\* Two classes that lose frames on the way: frame 4 waits for what is missing, or
\* finds its queue full; one chunk has a frame to deliver and one that may have to
\* wait for another thread.
TwoClasses ==
  Single(0, {1, 4}) \cup Single(1, {1}) \cup {<<[c |-> 0, n |-> 2], [c |-> 1, n |-> 4]>>}

RxSymmetry == Permutations(Rx)
=============================================================================
