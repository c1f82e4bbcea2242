---------------------------- MODULE ReorderProofs ----------------------------
(***************************************************************************)
(* How the queues, the threads that deliver them and the life of a Peer    *)
(* stay together in Reorder, for every number of receive threads, classes, *)
(* frames and epochs.  A queue is seen by its place in the order of        *)
(* sending, so that sequence numbers and their wrap appear only in the     *)
(* lemmas about places; what a function does to a queue is one relation,   *)
(* Moved, and what a step gives to a thread is another, Gives.             *)
(***************************************************************************)
EXTENDS Reorder, WindowProofs

-----------------------------------------------------------------------------
\* Queues

\* How far a queue has come: the place, in the order of sending, of the frame it
\* expects next.
Pos(k) == (k.exp - Base) % SeqCount

\* A slot of a queue of class c holds a frame of the queue's life that lies in the window
\* and belongs there; without a baseline there is nothing in the queue at all.
QueueOk(c, k) ==
  /\ k \in Queues
  /\ ~k.init => k = EmptyQueue
  /\ k.init => Pos(k) \in 1..(MaxN + 1)
  /\ \A i \in 0..(Window - 1) : k.slots[i] # NoFrame =>
       LET f == k.slots[i]
       IN /\ f.c = c /\ f.e = k.epoch /\ Sq(f) % Window = i
          /\ Pos(k) <= f.n /\ f.n < Pos(k) + Window
  /\ \A i \in k.old : k.slots[i] # NoFrame

QueuesOk == \A c \in Classes : QueueOk(c, q[c])

\* The frames a thread has taken out of the queues and not yet finished with.
Carry(t) == out[t] \cup (IF t \in Rx THEN ready[t] ELSE {})

\* Such a frame's queue is delivered by its carrier alone, and has gone beyond it;
\* a queue is only busy for frames that somebody carries.
Carried ==
  /\ \A t \in Threads : \A f \in Carry(t) :
       /\ q[f.c].init /\ q[f.c].busy /\ q[f.c].owner = t
       /\ f.e = q[f.c].epoch /\ f.n < Pos(q[f.c])
  /\ \A c \in Classes : q[c].busy =>
       \E t \in Threads : q[c].owner = t /\ \E f \in Carry(t) : f.c = c
  /\ \A t \in Rx : \A f \in out[t], g \in ready[t] : f.c # g.c

-----------------------------------------------------------------------------
\* Lives

\* Epochs are even, and not 0, while the Peer is active.
Parity ==
  /\ life = "idle" => IF valid THEN epoch % 2 = 0 /\ epoch # 0 ELSE epoch = 0 \/ epoch % 2 = 1
  /\ life # "idle" => epoch % 2 = 1 /\ valid
  /\ life \in {"reset", "resume"} => epoch + 1 <= MaxEpoch

\* The life that is going on, or that a reset has not cleared away yet.
Aged(e) == \/ life = "idle" /\ valid /\ e = epoch
           \/ life \in {"reset", "unregister"} /\ e = epoch - 1

\* Queues are of such a life.
QueuesAged == \A c \in Classes : q[c].init => Aged(q[c].epoch)

\* A frame on its way was accepted in an epoch of an active Peer.
TodoBegun == \A t \in Rx : \A f \in ToSet(todo[t]) : f.e # 0
\* and all frames of a call in the same.
TodoOne == \A t \in Rx : \A f, g \in ToSet(todo[t]) : f.e = g.e

\* A class that has not begun in this life has delivered nothing in it; in one that
\* has, what was handed over is behind, and what is still to be handed over is not.
Delivered ==
  /\ \A c \in Classes :
       /\ last[c].e <= epoch
       /\ ~q[c].init /\ Active /\ epoch # 0 => last[c].e # epoch
       /\ q[c].init /\ last[c].e = q[c].epoch => last[c].n < Pos(q[c])
  /\ \A t \in Threads : \A f \in out[t] :
       pc[t] = "emit" /\ last[f.c].e = f.e => last[f.c].n < f.n
  /\ \A t \in Rx : \A f \in ready[t] : last[f.c].e = f.e => last[f.c].n < f.n

-----------------------------------------------------------------------------
\* Where a thread is

Control ==
  /\ \A t \in Threads : out[t] # {} <=> pc[t] \in {"emit", "hand", "complete"}
  /\ \A t \in Rx :
       /\ pc[t] \notin {"scan", "wait"}
       /\ pc[t] \in {"idle", "submit"} => ready[t] = {}
       /\ pc[t] \in {"emit", "hand", "complete"} =>
            back[t] \in {"groups", "press", "finish"} \/ (back[t] = "idle" /\ ready[t] = {})
       /\ pc[t] = "relock" => back[t] \in {"groups", "press"}
       /\ todo[t] # <<>> => pc[t] \in {"submit", "groups", "press", "relock"} \/ 
                           (pc[t] \in {"emit", "hand", "complete"} /\ back[t] \in {"groups", "press"})
  /\ pc[Worker] \in {"scan", "wait", "emit", "hand", "complete"}

ReorderInv ==
  /\ TypeOK /\ QueuesOk /\ Carried /\ Parity /\ QueuesAged
  /\ TodoBegun /\ TodoOne /\ Delivered /\ Control

-----------------------------------------------------------------------------
\* Places

\* The sizes of the windows and of the ring.
LEMMA Sizes ==
  /\ SeqCount \in Nat \ {0} /\ SeqCount \div 2 \in Nat /\ 2 * (SeqCount \div 2) = SeqCount
  /\ Window \in Nat \ {0} /\ Window <= SeqCount \div 2 /\ EmitMax \in 1..Window
  /\ SeqCount % Window = 0 /\ Base \in Nat
  /\ MaxN \in Nat \ {0} /\ MaxN < SeqCount \div 2 /\ NC \in Nat \ {0} /\ MaxEpoch \in Nat
  <1>1. PICK h \in Nat : h = SeqCount \div 2 /\ 2 * h = SeqCount
    BY DistType
  <1>2. 2 * Window <= SeqCount /\ Window \in Nat \ {0}
    BY QueueAssumption
  <1>3. Window <= h
    BY ONLY <1>1, <1>2
  <1>4. MaxN \in 1..(h - 1)
    BY <1>1, ReorderAssumption
  <1> QED BY <1>1, <1>2, <1>3, <1>4, DistType, QueueAssumption, ReorderAssumption

\* The sequence number of a place, as a queue or a frame has it.
At(x) == (Base + x) % SeqCount

\* The distance of two places that are less than a lap apart.
LEMMA Between ==
  ASSUME NEW x \in Int, NEW y \in Int
  PROVE  /\ x - y \in 0..(SeqCount - 1) => Dist(At(x), At(y)) = x - y
         /\ y - x \in 1..SeqCount => Dist(At(x), At(y)) = x - y + SeqCount
  <1> DEFINE N == SeqCount
  <1>0. N \in Nat \ {0} /\ Base \in Int
    BY Sizes
  <1>1. Dist(At(x), At(y)) = (x - y) % N
    <2>1. PICK a \in Int : a = Base + x
      BY <1>0
    <2>2. PICK b \in Int : b = Base + y
      BY <1>0
    <2>3. b % N \in Int /\ a % N \in Int
      BY <1>0, ModExists
    <2>4. ((a % N) - (b % N)) % N = (a - (b % N)) % N
      BY ONLY <1>0, <2>3, ModParts, a \in Int, ZenonT(40)
    <2>5. (a - (b % N)) % N = (a - b) % N
      BY ONLY <1>0, ModParts, a \in Int, b \in Int
    <2>6. a - b = x - y
      BY <1>0, <2>1, <2>2
    <2> QED BY <2>1, <2>2, <2>4, <2>5, <2>6 DEF Dist, At
  <1>2. ASSUME x - y \in 0..(N - 1) PROVE (x - y) % N = x - y
    <2>1. PICK d \in 0..(N - 1) : d = x - y
      BY <1>2
    <2>2. d = 0 * N + d
      BY <1>0
    <2> QED BY <1>0, <2>1, <2>2, ModUnique
  <1>3. ASSUME y - x \in 1..N PROVE (x - y) % N = x - y + N
    <2>1. PICK d \in 0..(N - 1) : d = x - y + N
      BY <1>0, <1>3
    <2>2. PICK z \in Int : z = x - y
      OBVIOUS
    <2>3. z = (-1) * N + d
      BY <1>0, <2>1, <2>2
    <2>4. z % N = d
      BY ONLY <1>0, <2>3, ModUnique, z \in Int, d \in 0..(N - 1)
    <2> QED BY <2>1, <2>2, <2>4
  <1> QED BY <1>1, <1>2, <1>3

\* A queue's place says which sequence number it expects.
LEMMA PosAt ==
  ASSUME NEW k, k.exp \in 0..(SeqCount - 1)
  PROVE  Pos(k) \in 0..(SeqCount - 1) /\ k.exp = At(Pos(k))
  <1> DEFINE N == SeqCount
             e == k.exp
  <1>0. N \in Nat \ {0} /\ Base \in Int /\ e \in 0..(N - 1)
    BY Sizes
  <1> HIDE DEF e
  <1>1. PICK b \in Int : b = e - Base
    BY <1>0
  <1>2. Pos(k) = b % N
    BY <1>1 DEF Pos, e
  <1>3. ((b % N) + Base) % N = (b + Base) % N
    BY ONLY <1>0, ModParts, b \in Int
  <1>4. b + Base = 0 * N + e
    BY <1>0, <1>1
  <1>5. (b + Base) % N = e
    BY ONLY <1>0, <1>4, ModUnique, b \in Int
  <1>6. b % N \in 0..(N - 1)
    BY <1>0, ModExists
  <1>7. Base + (b % N) = (b % N) + Base
    BY <1>0, <1>6
  <1> QED BY <1>2, <1>3, <1>5, <1>6, <1>7 DEF At, e

\* And the place of a queue that expects a given one.
LEMMA AtPos ==
  ASSUME NEW k, NEW x \in 0..(SeqCount - 1), k.exp = At(x)
  PROVE  Pos(k) = x /\ k.exp \in 0..(SeqCount - 1)
  <1> DEFINE N == SeqCount
  <1>0. N \in Nat \ {0} /\ Base \in Int
    BY Sizes
  <1>1. PICK a \in Int : a = Base + x
    BY <1>0
  <1>2. ((a % N) - Base) % N = (a - Base) % N
    BY ONLY <1>0, ModParts, a \in Int
  <1>3. a - Base = 0 * N + x
    BY <1>0, <1>1
  <1>4. (a - Base) % N = x
    BY ONLY <1>0, <1>3, ModUnique, a \in Int, x \in 0..(N - 1)
  <1>5. a % N \in 0..(N - 1)
    BY <1>0, ModExists
  <1> QED BY <1>1, <1>2, <1>4, <1>5 DEF At, Pos

\* What a frame is made of.
LEMMA FrameIs ==
  ASSUME NEW f \in Frames
  PROVE  /\ f.c \in Classes /\ f.n \in Nat /\ f.n \in 1..MaxN /\ f.e \in 0..MaxEpoch /\ f.e \in Nat
         /\ Sq(f) = At(f.n)
         /\ \A g \in Frames : f.c = g.c /\ f.n = g.n /\ f.e = g.e => f = g
  BY Sizes DEF Frames, Sq, At

\* Among frames, Before is the order of sending.
LEMMA FrameOrder ==
  ASSUME NEW f \in Frames, NEW g \in Frames
  PROVE  Before(Sq(g), Sq(f)) <=> g.n < f.n
  <1>1. PICK h \in Nat : h = SeqCount \div 2 /\ 2 * h = SeqCount
    BY Sizes
  <1>2. f.n \in 1..MaxN /\ g.n \in 1..MaxN /\ MaxN \in Nat /\ MaxN < h
    BY <1>1, FrameIs, Sizes
  <1>3. CASE g.n >= f.n
    <2>1. g.n - f.n \in 0..(SeqCount - 1) /\ g.n - f.n < h
      BY <1>1, <1>2, <1>3
    <2>2. Dist(Sq(g), Sq(f)) = g.n - f.n
      BY <1>2, <2>1, Between, FrameIs
    <2> QED BY <1>1, <1>2, <1>3, <2>1, <2>2 DEF Before
  <1>4. CASE g.n < f.n
    <2>1. f.n - g.n \in 1..SeqCount /\ g.n - f.n + SeqCount >= h
      BY <1>1, <1>2, <1>4
    <2>2. Dist(Sq(g), Sq(f)) = g.n - f.n + SeqCount
      BY <1>2, <2>1, Between, FrameIs
    <2> QED BY <1>1, <1>2, <1>4, <2>1, <2>2 DEF Before
  <1> QED BY <1>2, <1>3, <1>4

\* Where a frame is, seen from a queue.
LEMMA Places ==
  ASSUME NEW f \in Frames, NEW k, k.exp \in 0..(SeqCount - 1), Pos(k) \in 1..(MaxN + 1)
  PROVE  /\ f.n >= Pos(k) => Ahead(k, f) = f.n - Pos(k) /\ ~Late(k, f)
         /\ f.n < Pos(k) => Ahead(k, f) = f.n - Pos(k) + SeqCount /\ Late(k, f)
         /\ Late(k, f) <=> f.n < Pos(k)
         /\ Fits(k, f) <=> Pos(k) <= f.n /\ f.n < Pos(k) + Window
         /\ Far(k, f) <=> f.n >= Pos(k) + Window
  <1>1. PICK h \in Nat : h = SeqCount \div 2 /\ 2 * h = SeqCount
    BY Sizes
  <1>2. f.n \in 1..MaxN /\ MaxN \in Nat /\ MaxN < h /\ Window \in Nat /\ Window <= h
    BY <1>1, FrameIs, Sizes
  <1>3. k.exp = At(Pos(k))
    BY PosAt
  <1> DEFINE p == Pos(k)
  <1>4. p \in 1..(MaxN + 1)
    OBVIOUS
  <1> HIDE DEF p
  <1>5. CASE f.n >= p
    <2>1. f.n - p \in 0..(SeqCount - 1) /\ f.n - p < h
      BY <1>1, <1>2, <1>4, <1>5
    <2>2. Dist(Sq(f), k.exp) = f.n - p
      <3>1. Dist(At(f.n), At(p)) = f.n - p
        BY <1>2, <1>4, <2>1, Between
      <3> QED BY <1>3, <3>1, FrameIs DEF p
    <2>3. ~Late(k, f) /\ Ahead(k, f) = f.n - p
      BY <1>1, <1>2, <1>4, <2>1, <2>2 DEF Late, Before, Ahead
    <2> QED BY <1>2, <1>4, <1>5, <2>3 DEF Fits, Far, p
  <1>6. CASE f.n < p
    <2>1. p - f.n \in 1..SeqCount /\ f.n - p + SeqCount >= h
      BY <1>1, <1>2, <1>4, <1>6
    <2>2. Dist(Sq(f), k.exp) = f.n - p + SeqCount
      <3>1. Dist(At(f.n), At(p)) = f.n - p + SeqCount
        BY <1>2, <1>4, <2>1, Between
      <3> QED BY <1>3, <3>1, FrameIs DEF p
    <2>3. Late(k, f) /\ Ahead(k, f) = f.n - p + SeqCount
      BY <1>1, <1>2, <1>4, <2>1, <2>2 DEF Late, Before, Ahead
    <2> QED BY <1>2, <1>4, <1>6, <2>3 DEF Fits, Far, p
  <1> QED BY <1>2, <1>4, <1>5, <1>6 DEF p

\* Two frames that are less than a window apart and belong into one slot are at one place.
LEMMA OneSlot ==
  ASSUME NEW f \in Frames, NEW g \in Frames, Sq(f) % Window = Sq(g) % Window,
         f.n <= g.n, g.n - f.n < Window
  PROVE  f.n = g.n
  <1> DEFINE W == Window
             N == SeqCount
  <1>0. W \in Nat \ {0} /\ N \in Nat \ {0} /\ N % W = 0 /\ Base \in Int
    BY Sizes
  <1>a. W \in Nat \ {0} /\ N \in Nat \ {0} /\ N \in Int
    BY <1>0
  <1>1. PICK d \in Int : N = d * W
    <2>1. PICK d \in Int : N = d * W + (N % W)
      BY ONLY <1>a, ModExists
    <2>2. PICK z \in Int : z = d * W
      BY <1>0
    <2>3. N = z
      BY <1>0, <2>1, <2>2
    <2> QED BY <2>2, <2>3
  <1>2. ASSUME NEW a \in Int PROVE (a % N) % W = a % W
    <2>1. PICK j \in Int : a = j * N + (a % N)
      BY <1>0, ModExists
    <2>2. PICK b \in Int : b = a % N
      <3>1. a % N \in 0..(N - 1)
        BY ONLY <1>0, ModExists, a \in Int
      <3> QED BY <1>0, <3>1
    <2>3. PICK k \in Int : k = j * d
      OBVIOUS
    <2>4. a = b + k * W
      <3>1. j * N = j * (d * W)
        BY <1>1
      <3>2. j * (d * W) = (j * d) * W
        BY <1>0
      <3>3. PICK z \in Int : z = k * W
        BY <1>0
      <3>4. a = z + b
        BY <2>1, <2>2, <2>3, <3>1, <3>2, <3>3
      <3> QED BY ONLY <3>3, <3>4, z \in Int, b \in Int
    <2>5. a % W = b % W
      BY ONLY <1>0, <2>4, ModLaps, a \in Int, b \in Int, k \in Int, ZenonT(40)
    <2> QED BY <2>2, <2>5
  <1>3. f.n \in Nat /\ g.n \in Nat
    BY FrameIs
  <1>4. PICK a \in Int : a = Base + f.n
    BY <1>0, <1>3
  <1>5. PICK b \in Int : b = Base + g.n
    BY <1>0, <1>3
  <1>6. a % W = b % W
    BY <1>2, <1>4, <1>5 DEF Sq
  <1>7. (b - a) % W = 0
    <2>1. PICK r \in Int : r = a % W
      <3>1. a % W \in 0..(W - 1)
        BY ONLY <1>0, ModExists, a \in Int
      <3> QED BY <1>0, <3>1
    <2>2. (r - a) % W = (b - a) % W
      <3>1. ((b % W) - a) % W = (b - a) % W
        BY ONLY <1>0, ModParts, a \in Int, b \in Int
      <3> QED BY <1>6, <2>1, <3>1
    <2>3. (r - a) % W = (a - a) % W
      BY ONLY <1>0, <2>1, ModParts, a \in Int, ZenonT(40)
    <2>4. 0 = 0 * W + 0 /\ a - a = 0
      BY <1>0
    <2>5. 0 % W = 0
      BY <1>0, <2>4, ModUnique
    <2> QED BY <2>2, <2>3, <2>4, <2>5
  <1>8. PICK x \in 0..(W - 1) : x = b - a
    BY <1>0, <1>3, <1>4, <1>5
  <1>9. x % W = x
    <2>1. x = 0 * W + x
      BY <1>0
    <2> QED BY ONLY <1>0, <2>1, ModUnique, x \in 0..(W - 1)
  <1>10. b - a = 0
    BY <1>7, <1>8, <1>9
  <1>11. Base \in Int
    BY <1>0
  <1> QED BY ONLY <1>3, <1>4, <1>5, <1>10, <1>11

\* First is the frame that was sent first.
LEMMA FirstIs ==
  ASSUME NEW S \in SUBSET Frames, S # {}
  PROVE  First(S) \in S /\ \A g \in S : First(S).n <= g.n
  <1> DEFINE T == {f.n : f \in S}
  <1>1. T \in SUBSET Nat /\ T # {}
    BY FrameIs
  <1>2. Min(T) \in T /\ \A n \in T : Min(T) <= n
    <2> HIDE DEF T
    <2> QED BY <1>1, MinIn
  <1>3. PICK f \in S : f.n = Min(T)
    BY <1>2
  <1>4. \A g \in S : ~Before(Sq(g), Sq(f))
    <2> SUFFICES ASSUME NEW g \in S PROVE ~Before(Sq(g), Sq(f))
      OBVIOUS
    <2>1. f.n <= g.n
      BY <1>2, <1>3
    <2>2. f.n \in Nat /\ g.n \in Nat
      BY FrameIs
    <2> QED BY <2>1, <2>2, FrameOrder
  <1>5. First(S) \in S /\ \A g \in S : ~Before(Sq(g), Sq(First(S)))
    BY <1>4 DEF First
  <1>6. ASSUME NEW g \in S PROVE First(S).n <= g.n
    <2>1. First(S) \in Frames /\ g \in Frames
      BY <1>5
    <2>2. ~(g.n < First(S).n)
      BY <1>5, <2>1, FrameOrder
    <2>3. First(S).n \in Nat /\ g.n \in Nat
      BY <2>1, FrameIs
    <2> QED BY <2>2, <2>3
  <1> QED BY <1>5, <1>6

-----------------------------------------------------------------------------
\* What a queue holds

\* The empty queue is sound.
LEMMA EmptyOk ==
  /\ NoThread \in Threads \cup {NoThread}
  /\ EmptyQueue \in Queues /\ Cached(EmptyQueue) = {}
  /\ \A c : QueueOk(c, EmptyQueue)
  <1>1. EmptyQueue \in Queues
    BY Sizes DEF EmptyQueue, Queues
  <1> QED BY <1>1 DEF EmptyQueue, QueueOk, Cached

\* The frames in the slots of a sound queue.
LEMMA CachedIs ==
  ASSUME NEW c \in Classes, NEW k, QueueOk(c, k)
  PROVE  /\ Cached(k) \in SUBSET Frames /\ IsFiniteSet(Cached(k))
         /\ \A f \in Cached(k) : /\ f.c = c /\ f.e = k.epoch /\ Pos(k) <= f.n /\ f.n < Pos(k) + Window
                                 /\ Sq(f) % Window \in 0..(Window - 1)
                                 /\ k.slots[Sq(f) % Window] = f
         /\ \A f, g \in Cached(k) : f.n = g.n => f = g
         /\ Cached(k) # {} => k.init
         /\ \A i \in 0..(Window - 1) : k.slots[i] # NoFrame => k.slots[i] \in Cached(k)
         /\ \A i \in k.old : i \in 0..(Window - 1) /\ k.slots[i] \in Cached(k)
  <1>1. k \in Queues
    BY DEF QueueOk
  <1>2. /\ k.slots \in [0..(Window - 1) -> Frames \cup {NoFrame}]
        /\ k.old \in SUBSET (0..(Window - 1))
    BY <1>1 DEF Queues
  <1>3. Cached(k) \in SUBSET Frames
    BY <1>2 DEF Cached
  <1>4. IsFiniteSet(Cached(k))
    <2> DEFINE D == {k.slots[i] : i \in 0..(Window - 1)}
               F == [i \in 0..(Window - 1) |-> k.slots[i]]
    <2>1. IsFiniteSet(0..(Window - 1))
      BY Sizes, FS_Interval
    <2>2. F \in Surjection(0..(Window - 1), D)
      BY DEF Surjection
    <2>3. IsFiniteSet(D)
      BY <2>1, <2>2, FS_Surjection
    <2>4. Cached(k) \subseteq D
      BY DEF Cached
    <2> QED BY <2>3, <2>4, FS_Subset
  <1>5. ASSUME NEW f \in Cached(k)
        PROVE  /\ f.c = c /\ f.e = k.epoch /\ Pos(k) <= f.n /\ f.n < Pos(k) + Window
               /\ Sq(f) % Window \in 0..(Window - 1)
               /\ k.slots[Sq(f) % Window] = f
    <2>1. PICK i \in 0..(Window - 1) : k.slots[i] = f /\ f # NoFrame
      BY DEF Cached
    <2> QED BY <2>1 DEF QueueOk
  <1>6. ASSUME NEW f \in Cached(k), NEW g \in Cached(k), f.n = g.n PROVE f = g
    BY <1>3, <1>5, <1>6, FrameIs
  <1>7. Cached(k) # {} => k.init
    BY EmptyOk DEF QueueOk
  <1> QED BY <1>2, <1>3, <1>4, <1>5, <1>6, <1>7 DEF QueueOk, Cached

\* Frames that a queue may take: of its class and life, in its window, their slots empty.
Welcome(c, k, S) ==
  /\ S \in SUBSET Frames
  /\ \A f \in S : /\ f.c = c /\ f.e = k.epoch /\ Pos(k) <= f.n /\ f.n < Pos(k) + Window
                  /\ k.slots[Sq(f) % Window] = NoFrame

\* Putting them into their slots.
LEMMA PutIs ==
  ASSUME NEW c \in Classes, NEW k, QueueOk(c, k), k.init, NEW S, Welcome(c, k, S)
  PROVE  /\ QueueOk(c, Put(k, S)) /\ Cached(Put(k, S)) = Cached(k) \cup S
         /\ Put(k, S).init /\ Put(k, S).epoch = k.epoch /\ Put(k, S).exp = k.exp
         /\ Put(k, S).busy = k.busy /\ Put(k, S).owner = k.owner
  <1> DEFINE at(i) == {f \in S : Sq(f) % Window = i}
             slot(i) == IF at(i) = {} THEN k.slots[i] ELSE CHOOSE f \in at(i) : TRUE
             K == Put(k, S)
  <1>1. /\ k \in Queues /\ k.slots \in [0..(Window - 1) -> Frames \cup {NoFrame}]
        /\ k.old \in SUBSET (0..(Window - 1)) /\ Pos(k) \in 1..(MaxN + 1)
        /\ k.exp \in 0..(SeqCount - 1)
    BY DEF QueueOk, Queues
  <1>2. K = [k EXCEPT !.slots = [i \in 0..(Window - 1) |-> slot(i)],
                      !.old = {i \in k.old : at(i) = {}}]
    BY <1>1 DEF Put
  <1> HIDE DEF K
  <1>3. ASSUME NEW f \in S
        PROVE  /\ Sq(f) % Window \in 0..(Window - 1) /\ slot(Sq(f) % Window) = f
               /\ f \in Frames /\ f # NoFrame
    <2>1. f \in Frames /\ f.n \in Nat
      BY FrameIs DEF Welcome
    <2>2. Sq(f) % Window \in 0..(Window - 1)
      <3>1. Base + f.n \in Int /\ SeqCount \in Nat \ {0} /\ Window \in Nat \ {0}
        BY <2>1, Sizes
      <3>2. PICK s \in Int : s = Sq(f)
        BY <3>1, ModExists DEF Sq
      <3>3. s % Window \in 0..(Window - 1)
        BY ONLY <3>1, ModExists, s \in Int
      <3> QED BY <3>2, <3>3
    <2>3. ASSUME NEW g \in S, Sq(g) % Window = Sq(f) % Window PROVE g = f
      <3>1. g \in Frames /\ g.n \in Nat /\ g.c = f.c /\ g.e = f.e
        BY FrameIs DEF Welcome
      <3>2. Pos(k) \in Nat /\ Window \in Nat
        BY <1>1, Sizes
      <3>3. f.n < g.n + Window /\ g.n < f.n + Window
        BY <2>1, <3>1, <3>2 DEF Welcome
      <3>4. f.n = g.n
        <4>1. CASE f.n <= g.n
          BY <2>1, <2>3, <3>1, <3>2, <3>3, <4>1, OneSlot
        <4>2. CASE g.n <= f.n
          BY <2>1, <2>3, <3>1, <3>2, <3>3, <4>2, OneSlot
        <4> QED BY <2>1, <3>1, <4>1, <4>2
      <3> QED BY <2>1, <3>1, <3>4, FrameIs
    <2>4. f \in at(Sq(f) % Window)
      OBVIOUS
    <2>5. slot(Sq(f) % Window) = f
      BY <2>3, <2>4
    <2>6. f # NoFrame
      BY <2>1, ReorderAssumption
    <2> QED BY <2>1, <2>2, <2>5, <2>6
  <1>4. /\ K.init /\ K.epoch = k.epoch /\ K.exp = k.exp /\ K.busy = k.busy /\ K.owner = k.owner
        /\ K.old = {i \in k.old : at(i) = {}} /\ Pos(K) = Pos(k)
        /\ \A i \in 0..(Window - 1) : K.slots[i] = slot(i)
        /\ DOMAIN K.slots = 0..(Window - 1)
    BY <1>1, <1>2 DEF Queues, Pos
  <1>5. ASSUME NEW i \in 0..(Window - 1)
        PROVE  \/ at(i) = {} /\ slot(i) = k.slots[i]
               \/ slot(i) \in S /\ Sq(slot(i)) % Window = i
    OBVIOUS
  <1>6. K \in Queues
    <2>1. [i \in 0..(Window - 1) |-> slot(i)] \in [0..(Window - 1) -> Frames \cup {NoFrame}]
      BY <1>1, <1>5 DEF Welcome
    <2> QED BY <1>1, <1>2, <2>1 DEF Queues
  <1>7. ASSUME NEW i \in 0..(Window - 1), K.slots[i] # NoFrame
        PROVE  LET f == K.slots[i]
               IN /\ f.c = c /\ f.e = K.epoch /\ Sq(f) % Window = i
                  /\ Pos(K) <= f.n /\ f.n < Pos(K) + Window
    <2>1. CASE at(i) = {} /\ slot(i) = k.slots[i]
      BY <1>4, <1>7, <2>1 DEF QueueOk
    <2>2. CASE slot(i) \in S /\ Sq(slot(i)) % Window = i
      BY <1>4, <2>2 DEF Welcome
    <2> QED BY <1>5, <2>1, <2>2
  <1>8. ASSUME NEW i \in K.old PROVE K.slots[i] # NoFrame
    BY <1>1, <1>4 DEF QueueOk
  <1>9. QueueOk(c, K)
    BY <1>1, <1>4, <1>6, <1>7, <1>8 DEF QueueOk
  <1>10. Cached(K) = Cached(k) \cup S
    <2>1. ASSUME NEW f \in Cached(K) PROVE f \in Cached(k) \cup S
      <3>1. PICK i \in 0..(Window - 1) : f = slot(i) /\ f # NoFrame
        BY <1>4 DEF Cached
      <3> HIDE DEF slot
      <3> QED BY <1>5, <3>1 DEF Cached
    <2>2. ASSUME NEW f \in S PROVE f \in Cached(K)
      BY <1>3, <1>4 DEF Cached
    <2>3. ASSUME NEW f \in Cached(k) PROVE f \in Cached(K)
      <3>1. PICK i \in 0..(Window - 1) : k.slots[i] = f /\ f # NoFrame
        BY DEF Cached
      <3>2. at(i) = {}
        BY <3>1 DEF Welcome
      <3>3. K.slots[i] = f
        BY <1>4, <3>1, <3>2
      <3> QED BY <3>1, <3>3 DEF Cached
    <2> QED BY <2>1, <2>2, <2>3
  <1> QED BY <1>4, <1>9, <1>10 DEF K

\* A queue that can give frames S to thread t and go on to place x, which exp stands for.
GoesOn(c, k, S, exp, t, x) ==
  /\ QueueOk(c, k) /\ k.init /\ t \in Threads
  /\ x \in 1..(MaxN + 1) /\ Pos(k) <= x /\ exp % SeqCount = At(x)
  /\ \A f \in Cached(k) : f \in S \/ f.n >= x

\* and what it is afterwards.
GoneOn(c, k, S, d, t, x) ==
  /\ QueueOk(c, d) /\ d.init /\ d.epoch = k.epoch /\ Pos(d) = x
  /\ Cached(d) = Cached(k) \ S
  /\ S = {} => d.busy = k.busy /\ d.owner = k.owner
  /\ S # {} => d.busy = TRUE /\ d.owner = t

\* Frames that leave a queue for delivery leave the slots, and the queue goes on.
LEMMA DeliverIs ==
  ASSUME NEW c \in Classes, NEW k, NEW S, NEW exp, NEW t, NEW x, GoesOn(c, k, S, exp, t, x)
  PROVE  GoneOn(c, k, S, Deliver(k, S, exp, t), t, x)
  <1>0. /\ QueueOk(c, k) /\ k.init /\ t \in Threads
        /\ x \in 1..(MaxN + 1) /\ Pos(k) <= x /\ exp % SeqCount = At(x)
        /\ \A f \in Cached(k) : f \in S \/ f.n >= x
    BY DEF GoesOn
  <1> USE <1>0
  <1> DEFINE d == Deliver(k, S, exp, t)
             D == [k EXCEPT !.slots = [i \in 0..(Window - 1) |-> IF k.slots[i] \in S THEN NoFrame ELSE k.slots[i]],
                            !.old = {i \in k.old : k.slots[i] \notin S}]
  <1>1. /\ k \in Queues /\ k.slots \in [0..(Window - 1) -> Frames \cup {NoFrame}]
        /\ k.old \in SUBSET (0..(Window - 1)) /\ Pos(k) \in 1..(MaxN + 1)
        /\ k.exp \in 0..(SeqCount - 1)
    BY DEF QueueOk, Queues
  <1>2. Drop(k, S) = D
    BY <1>1 DEF Drop
  <1>3. x \in 0..(SeqCount - 1)
    BY Sizes
  <1>4. CASE S = {}
    <2>1. d = [k EXCEPT !.exp = exp % SeqCount]
      BY <1>4 DEF Deliver
    <2> HIDE DEF d
    <2>2. /\ d.exp = At(x) /\ d.init /\ d.epoch = k.epoch /\ d.busy = k.busy /\ d.owner = k.owner
          /\ d.slots = k.slots /\ d.old = k.old
      BY <1>1, <2>1 DEF Queues
    <2>3. Pos(d) = x /\ d.exp \in 0..(SeqCount - 1)
      BY <1>3, <2>2, AtPos
    <2>4. d \in Queues
      BY <1>1, <2>1, <2>2, <2>3 DEF Queues
    <2>5. Cached(d) = Cached(k)
      BY <2>2 DEF Cached
    <2>6. ASSUME NEW i \in 0..(Window - 1), d.slots[i] # NoFrame
          PROVE  /\ d.slots[i].c = c /\ d.slots[i].e = d.epoch /\ Sq(d.slots[i]) % Window = i
                 /\ Pos(d) <= d.slots[i].n /\ d.slots[i].n < Pos(d) + Window
      <3> DEFINE f == d.slots[i]
      <3>1. f \in Cached(k) /\ f \in Frames
        BY <1>1, <2>2, <2>6 DEF Cached
      <3>2. /\ f.c = c /\ f.e = k.epoch /\ Sq(f) % Window = i
            /\ Pos(k) <= f.n /\ f.n < Pos(k) + Window
        BY <2>2, <2>6 DEF QueueOk
      <3>3. f.n >= x /\ f.n \in Nat
        BY <1>4, <3>1, FrameIs
      <3>4. f.n < x + Window
        BY <1>1, <3>2, <3>3, Sizes
      <3> QED BY <2>2, <2>3, <3>2, <3>3, <3>4
    <2>7. QueueOk(c, d)
      BY <2>2, <2>3, <2>4, <2>6 DEF QueueOk
    <2> QED BY <1>4, <2>2, <2>3, <2>5, <2>7 DEF d, GoneOn
  <1>5. CASE S # {}
    <2>1. d = [D EXCEPT !.exp = exp % SeqCount, !.busy = TRUE, !.owner = t]
      BY <1>2, <1>5 DEF Deliver
    <2> HIDE DEF d
    <2>2. /\ d.exp = At(x) /\ d.init /\ d.epoch = k.epoch /\ d.busy = TRUE /\ d.owner = t
          /\ \A i \in 0..(Window - 1) : d.slots[i] = IF k.slots[i] \in S THEN NoFrame ELSE k.slots[i]
          /\ d.slots = [i \in 0..(Window - 1) |-> IF k.slots[i] \in S THEN NoFrame ELSE k.slots[i]]
          /\ d.old = {i \in k.old : k.slots[i] \notin S}
      BY <1>1, <2>1 DEF Queues
    <2>3. Pos(d) = x /\ d.exp \in 0..(SeqCount - 1)
      BY <1>3, <2>2, AtPos
    <2>4. d \in Queues
      <3>1. d.slots \in [0..(Window - 1) -> Frames \cup {NoFrame}]
        BY <1>1, <2>2, ZenonT(40)
      <3> QED BY <1>1, <2>1, <2>2, <2>3, <3>1 DEF Queues
    <2>5. Cached(d) = Cached(k) \ S
      <3>1. ASSUME NEW f \in Cached(d) PROVE f \in Cached(k) \ S
        BY <2>2 DEF Cached
      <3>2. ASSUME NEW f \in Cached(k), f \notin S PROVE f \in Cached(d)
        BY <2>2, <3>2 DEF Cached
      <3> QED BY <3>1, <3>2
    <2>6. ASSUME NEW i \in 0..(Window - 1), d.slots[i] # NoFrame
          PROVE  /\ d.slots[i].c = c /\ d.slots[i].e = d.epoch /\ Sq(d.slots[i]) % Window = i
                 /\ Pos(d) <= d.slots[i].n /\ d.slots[i].n < Pos(d) + Window
      <3> DEFINE f == d.slots[i]
      <3>0. f = k.slots[i] /\ k.slots[i] # NoFrame /\ f \notin S
        BY <2>2, <2>6
      <3>1. f \in Cached(k) /\ f \in Frames
        BY <1>1, <3>0 DEF Cached
      <3>2. /\ f.c = c /\ f.e = k.epoch /\ Sq(f) % Window = i
            /\ Pos(k) <= f.n /\ f.n < Pos(k) + Window
        BY <3>0 DEF QueueOk
      <3>3. f.n >= x /\ f.n \in Nat
        BY <3>0, <3>1, FrameIs
      <3>4. f.n < x + Window
        BY <1>1, <3>2, <3>3, Sizes
      <3> QED BY <2>2, <2>3, <3>2, <3>3, <3>4
    <2>7. ASSUME NEW i \in d.old PROVE d.slots[i] # NoFrame
      BY <1>1, <2>2 DEF QueueOk
    <2>8. QueueOk(c, d)
      BY <2>2, <2>3, <2>4, <2>6, <2>7 DEF QueueOk
    <2> QED BY <1>5, <2>2, <2>3, <2>5, <2>8 DEF d, GoneOn
  <1> QED BY <1>4, <1>5

-----------------------------------------------------------------------------
\* Frames without a gap

\* As many frames as a run from place p has, as many places it covers.
LEMMA Stairs ==
  ASSUME NEW S \in SUBSET Frames, IsFiniteSet(S), \A f, g \in S : f.n = g.n => f = g,
         NEW p \in Nat, \A f \in S : f.n >= p,
         \A f \in S : \A d \in p..f.n : \E g \in S : g.n = d
  PROVE  \E m \in Nat : /\ Cardinality(S) = m
                        /\ \A f \in S : f.n < p + m
                        /\ \A d \in p..(p + m - 1) : \E g \in S : g.n = d
  <1> DEFINE T == {f.n : f \in S}
             F == [f \in S |-> f.n]
  <1>1. CASE S = {}
    <2>1. Cardinality(S) = 0
      BY <1>1, FS_EmptySet
    <2> QED BY <1>1, <2>1
  <1>2. CASE S # {}
    <2>1. T \subseteq 0..MaxN /\ T # {}
      BY <1>2, FrameIs, Sizes
    <2>2. PICK M \in T : \A n \in T : n <= M
      <3> HIDE DEF T
      <3> QED BY <2>1, Sizes, MaxExists
    <2>3. M \in Nat /\ M >= p
      BY <2>1
    <2>4. T = p..M
      <3>1. ASSUME NEW n \in T PROVE n \in p..M
        BY <2>1, <2>2, <2>3
      <3>2. ASSUME NEW n \in p..M PROVE n \in T
        BY <2>2
      <3> QED BY <3>1, <3>2
    <2>5. Cardinality(T) = M - p + 1
      <3> HIDE DEF T
      <3>1. Cardinality(p..M) = M - p + 1
        BY <2>3, FS_Interval
      <3> QED BY <2>4, <3>1
    <2>6. F \in Bijection(S, T)
      BY DEF Bijection, Injection, Surjection, IsInjective
    <2>7. Cardinality(S) = Cardinality(T)
      <3> HIDE DEF T, F
      <3>1. ExistsBijection(S, T)
        BY <2>6 DEF ExistsBijection
      <3> QED BY <3>1, FS_Bijection
    <2>8. PICK m \in Nat : m = M - p + 1
      BY <2>3
    <2>9. ASSUME NEW f \in S PROVE f.n < p + m
      <3>1. f.n \in T
        OBVIOUS
      <3> QED BY <2>3, <2>4, <2>8, <3>1
    <2>10. ASSUME NEW d \in p..(p + m - 1) PROVE \E g \in S : g.n = d
      <3>1. d \in T
        BY <2>3, <2>4, <2>8
      <3> QED BY <3>1
    <2> QED BY <2>5, <2>7, <2>8, <2>9, <2>10
  <1> QED BY <1>1, <1>2

\* The first cap frames are a beginning of S.
LEMMA EarliestIs ==
  ASSUME NEW k, k.exp \in 0..(SeqCount - 1), Pos(k) \in 1..(MaxN + 1),
         NEW S \in SUBSET Frames, IsFiniteSet(S), \A f \in S : Pos(k) <= f.n, NEW cap \in Int
  PROVE  LET E == Earliest(k, S, cap)
         IN /\ E \in SUBSET S /\ Cardinality(S) \in Nat
            /\ \A f \in E, g \in S : g.n <= f.n => g \in E
            /\ Cardinality(S) <= cap => E = S
            /\ cap > 0 /\ S # {} => E # {}
  <1> DEFINE E == Earliest(k, S, cap)
             B(f) == {g \in S : g.n < f.n}
  <1>1. ASSUME NEW f \in S PROVE {g \in S : Ahead(k, g) < Ahead(k, f)} = B(f)
    <2>1. ASSUME NEW g \in S PROVE Ahead(k, g) < Ahead(k, f) <=> g.n < f.n
      <3>1. /\ f \in Frames /\ g \in Frames /\ f.n \in Nat /\ g.n \in Nat /\ Pos(k) \in Nat
            /\ f.n >= Pos(k) /\ g.n >= Pos(k)
        BY FrameIs, Sizes
      <3>2. Ahead(k, f) = f.n - Pos(k) /\ Ahead(k, g) = g.n - Pos(k)
        BY <3>1, Places
      <3> QED BY <3>1, <3>2
    <2> QED BY <2>1
  <1>2. E = {f \in S : Cardinality(B(f)) < cap}
    BY <1>1 DEF Earliest
  <1>3. ASSUME NEW f \in S
        PROVE  /\ IsFiniteSet(B(f)) /\ Cardinality(B(f)) \in Nat
               /\ Cardinality(S) \in Nat /\ Cardinality(B(f)) < Cardinality(S)
    <2>1. IsFiniteSet(S \ {f}) /\ Cardinality(S \ {f}) = Cardinality(S) - 1 /\ Cardinality(S) \in Nat
      BY FS_RemoveElement, FS_CardinalityType
    <2>2. f.n \in Nat
      BY FrameIs
    <2>3. B(f) \subseteq S \ {f}
      BY <2>2
    <2> HIDE DEF B
    <2>4. IsFiniteSet(B(f)) /\ Cardinality(B(f)) <= Cardinality(S \ {f})
      BY <2>1, <2>3, FS_Subset
    <2>5. Cardinality(B(f)) \in Nat
      BY <2>4, FS_CardinalityType
    <2> QED BY <2>1, <2>4, <2>5
  <1>4. ASSUME NEW f \in E, NEW g \in S, g.n <= f.n PROVE g \in E
    <2>1. f \in S
      BY <1>2
    <2>2. f.n \in Nat /\ g.n \in Nat /\ \A h \in S : h.n \in Nat
      BY <2>1, FrameIs
    <2>3. B(g) \subseteq B(f)
      BY <1>4, <2>2
    <2> HIDE DEF B
    <2>4. Cardinality(B(g)) <= Cardinality(B(f))
      BY <1>3, <2>1, <2>3, FS_Subset
    <2>5. Cardinality(B(f)) < cap
      BY <1>2
    <2>6. Cardinality(B(g)) < cap
      BY <1>3, <2>1, <2>4, <2>5
    <2> QED BY <1>2, <2>6
  <1>5. ASSUME Cardinality(S) <= cap PROVE E = S
    <2> HIDE DEF B
    <2> QED BY <1>2, <1>3, <1>5
  <1>6. ASSUME cap > 0, S # {} PROVE E # {}
    <2>1. First(S) \in S /\ \A g \in S : First(S).n <= g.n
      BY <1>6, FirstIs
    <2>2. \A g \in S : g.n \in Nat
      BY FrameIs
    <2>3. B(First(S)) = {}
      BY <2>1, <2>2
    <2>4. Cardinality(B(First(S))) = 0
      BY <2>3, FS_EmptySet
    <2> QED BY <1>2, <1>6, <2>1, <2>4
  <1>7. Cardinality(S) \in Nat
    BY FS_CardinalityType
  <1> QED BY <1>2, <1>4, <1>5, <1>6, <1>7

\* The frames from the expected one on without a gap.
LEMMA ContiguousIs ==
  ASSUME NEW k, k.exp \in 0..(SeqCount - 1), Pos(k) \in 1..(MaxN + 1),
         NEW S \in SUBSET Frames, \A f \in S : Pos(k) <= f.n
  PROVE  LET C == Contiguous(k, S)
         IN /\ C \in SUBSET S
            /\ \A f \in C : \A d \in Pos(k)..f.n : \E g \in C : g.n = d
            /\ \A f \in S : (\A d \in Pos(k)..f.n : \E g \in S : g.n = d) => f \in C
  <1> DEFINE C == Contiguous(k, S)
             p == Pos(k)
  <1>1. p \in Nat /\ \A f \in S : f.n \in Nat /\ f.n >= p /\ Ahead(k, f) = f.n - p
    <2>1. p \in Nat
      BY Sizes
    <2>2. ASSUME NEW f \in S PROVE f.n \in Nat /\ f.n >= p /\ Ahead(k, f) = f.n - p
      BY FrameIs, Places
    <2> QED BY <2>1, <2>2
  <1> HIDE DEF p
  <1>2. ASSUME NEW f \in S
        PROVE  f \in C <=> \A d \in p..f.n : \E g \in S : g.n = d
    <2>1. f \in C <=> \A d \in 0..(f.n - p) : \E g \in S : g.n - p = d
      BY <1>1 DEF Contiguous
    <2>2. ASSUME \A d \in 0..(f.n - p) : \E g \in S : g.n - p = d, NEW d \in p..f.n
          PROVE  \E g \in S : g.n = d
      <3>1. d - p \in 0..(f.n - p)
        BY <1>1
      <3>2. PICK g \in S : g.n - p = d - p
        BY <2>2, <3>1
      <3>3. g.n \in Nat /\ d \in Int
        BY <1>1
      <3> QED BY <1>1, <3>2, <3>3
    <2>3. ASSUME \A d \in p..f.n : \E g \in S : g.n = d, NEW d \in 0..(f.n - p)
          PROVE  \E g \in S : g.n - p = d
      <3>1. d + p \in p..f.n
        BY <1>1
      <3>2. PICK g \in S : g.n = d + p
        BY <2>3, <3>1
      <3> QED BY <1>1, <3>2
    <2> QED BY <2>1, <2>2, <2>3
  <1>3. C \in SUBSET S
    BY DEF Contiguous
  <1>4. ASSUME NEW f \in C, NEW d \in p..f.n PROVE \E g \in C : g.n = d
    <2>1. f \in S
      BY <1>3
    <2>2. PICK g \in S : g.n = d
      BY <1>2, <2>1
    <2>3. \A x \in p..g.n : x \in p..f.n
      BY <1>1, <2>1, <2>2
    <2>4. g \in C
      BY <1>2, <2>1, <2>3
    <2> QED BY <2>2, <2>4
  <1> QED BY <1>2, <1>3, <1>4 DEF p

\* The first cap frames without a gap: how many there are is how far the queue goes on.
LEMMA RunIs ==
  ASSUME NEW k, k.exp \in 0..(SeqCount - 1), Pos(k) \in 1..(MaxN + 1),
         NEW S \in SUBSET Frames, IsFiniteSet(S), \A f \in S : Pos(k) <= f.n,
         \A f, g \in S : f.n = g.n => f = g, NEW cap \in Int
  PROVE  LET R == Earliest(k, Contiguous(k, S), cap)
         IN \E m \in Nat :
              /\ Cardinality(R) = m /\ R \in SUBSET S
              /\ Pos(k) + m \in 1..(MaxN + 1)
              /\ \A f \in R : f.n < Pos(k) + m
              /\ \A f \in S : f \in R \/ f.n >= Pos(k) + m
              /\ \A d \in Pos(k)..(Pos(k) + m - 1) : \E g \in R : g.n = d
  <1> DEFINE C == Contiguous(k, S)
             R == Earliest(k, C, cap)
  <1>1. /\ C \in SUBSET S
        /\ \A f \in C : \A d \in Pos(k)..f.n : \E g \in C : g.n = d
        /\ \A f \in S : (\A d \in Pos(k)..f.n : \E g \in S : g.n = d) => f \in C
    BY ContiguousIs
  <1> HIDE DEF C
  <1>2. IsFiniteSet(C) /\ C \in SUBSET Frames /\ \A f \in C : Pos(k) <= f.n
    BY <1>1, FS_Subset
  <1>3. R \in SUBSET C /\ \A f \in R, g \in C : g.n <= f.n => g \in R
    BY <1>2, EarliestIs
  <1> HIDE DEF R
  <1>4. /\ R \in SUBSET Frames /\ IsFiniteSet(R) /\ \A f, g \in R : f.n = g.n => f = g
        /\ \A f \in R : f.n >= Pos(k)
    <2>1. IsFiniteSet(R)
      BY <1>2, <1>3, FS_Subset
    <2>2. \A f \in R : f.n \in Nat /\ Pos(k) \in Nat
      BY <1>1, <1>3, FrameIs, Sizes
    <2> QED BY <1>1, <1>2, <1>3, <2>1, <2>2
  <1>5. ASSUME NEW f \in R, NEW d \in Pos(k)..f.n PROVE \E g \in R : g.n = d
    <2>1. PICK g \in C : g.n = d
      BY <1>1, <1>3
    <2>2. g.n <= f.n
      BY <2>1
    <2> QED BY <1>3, <2>1, <2>2
  <1>6. Pos(k) \in Nat
    BY Sizes
  <1>7. PICK m \in Nat : /\ Cardinality(R) = m
                         /\ \A f \in R : f.n < Pos(k) + m
                         /\ \A d \in Pos(k)..(Pos(k) + m - 1) : \E g \in R : g.n = d
    BY <1>4, <1>5, <1>6, Stairs
  <1>8. ASSUME NEW f \in S, f.n < Pos(k) + m PROVE f \in R
    <2>1. f.n \in Pos(k)..(Pos(k) + m - 1)
      BY <1>6, <1>8, FrameIs
    <2>2. PICK g \in R : g.n = f.n
      BY <1>7, <2>1
    <2> QED BY <1>1, <1>3, <2>2
  <1>9. Pos(k) + m \in 1..(MaxN + 1)
    <2>1. CASE m = 0
      BY <1>6, <2>1
    <2>2. CASE m # 0
      <3>1. Pos(k) + m - 1 \in Pos(k)..(Pos(k) + m - 1)
        BY <1>6, <2>2
      <3>2. PICK g \in R : g.n = Pos(k) + m - 1
        BY <1>7, <3>1
      <3>3. g.n \in 1..MaxN
        BY <1>4, FrameIs
      <3> QED BY <1>6, <3>2, <3>3, Sizes
    <2> QED BY <2>1, <2>2
  <1>10. \A f \in S : f.n \in Nat
    BY FrameIs
  <1>11. \A f \in S : f \in R \/ f.n >= Pos(k) + m
    BY <1>6, <1>8, <1>10
  <1> QED BY <1>1, <1>3, <1>7, <1>9, <1>11 DEF R, C

\* The whole of it.
LEMMA PrefixIs ==
  ASSUME NEW k, k.exp \in 0..(SeqCount - 1), Pos(k) \in 1..(MaxN + 1),
         NEW S \in SUBSET Frames, IsFiniteSet(S), \A f \in S : Pos(k) <= f.n,
         \A f, g \in S : f.n = g.n => f = g
  PROVE  \E m \in Nat :
           /\ Cardinality(Contiguous(k, S)) = m /\ Contiguous(k, S) \in SUBSET S
           /\ Pos(k) + m \in 1..(MaxN + 1)
           /\ \A f \in Contiguous(k, S) : f.n < Pos(k) + m
           /\ \A f \in S : f \in Contiguous(k, S) \/ f.n >= Pos(k) + m
           /\ \A d \in Pos(k)..(Pos(k) + m - 1) : \E g \in Contiguous(k, S) : g.n = d
  <1> DEFINE C == Contiguous(k, S)
  <1>1. C \in SUBSET S /\ IsFiniteSet(C) /\ C \in SUBSET Frames
    BY FS_Subset DEF Contiguous
  <1>2. Cardinality(C) \in Nat /\ Cardinality(C) \in Int
    BY <1>1, FS_CardinalityType
  <1> HIDE DEF C
  <1>3. Earliest(k, C, Cardinality(C)) = C
    <2>1. \A f \in C : Pos(k) <= f.n
      BY <1>1
    <2>2. Cardinality(C) <= Cardinality(C)
      BY <1>2
    <2> QED BY <1>1, <1>2, <2>1, <2>2, EarliestIs
  <1>4. PICK m \in Nat :
          LET R == Earliest(k, Contiguous(k, S), Cardinality(C))
          IN /\ Cardinality(R) = m /\ R \in SUBSET S
             /\ Pos(k) + m \in 1..(MaxN + 1)
             /\ \A f \in R : f.n < Pos(k) + m
             /\ \A f \in S : f \in R \/ f.n >= Pos(k) + m
             /\ \A d \in Pos(k)..(Pos(k) + m - 1) : \E g \in R : g.n = d
    BY ONLY <1>2, RunIs, k.exp \in 0..(SeqCount - 1), Pos(k) \in 1..(MaxN + 1), S \in SUBSET Frames,
         IsFiniteSet(S), \A f \in S : Pos(k) <= f.n, \A f, g \in S : f.n = g.n => f = g
  <1>5. Earliest(k, Contiguous(k, S), Cardinality(C)) = Contiguous(k, S)
    BY <1>3 DEF C
  <1> QED BY <1>4, <1>5

\* Going on by m places.
LEMMA ExpPlus ==
  ASSUME NEW k, k.exp \in 0..(SeqCount - 1), NEW m \in Int
  PROVE  (k.exp + m) % SeqCount = At(Pos(k) + m)
  <1> DEFINE N == SeqCount
  <1>0. N \in Nat \ {0} /\ Base \in Int
    BY Sizes
  <1>1. Pos(k) \in Int /\ k.exp = At(Pos(k))
    BY <1>0, PosAt
  <1>2. PICK a \in Int : a = Base + Pos(k)
    BY <1>0, <1>1
  <1>3. k.exp = a % N
    BY <1>1, <1>2 DEF At
  <1>4. ((a % N) + m) % N = (a + m) % N
    BY ONLY <1>0, ModParts, a \in Int, m \in Int
  <1>5. a + m = Base + (Pos(k) + m)
    BY <1>0, <1>1, <1>2
  <1> QED BY <1>3, <1>4, <1>5 DEF At

-----------------------------------------------------------------------------
\* What a function does to a queue

\* The queue k of class c has become k2, and thread t has taken the frames E out: a queue
\* keeps its life and only goes forward, a new one begins in this epoch of an active
\* Peer, and only one that nobody delivers gives frames away.
Moved(c, k, k2, E, t) ==
  /\ QueueOk(c, k2) /\ E \in SUBSET Frames
  /\ \A f \in E : f.c = c /\ f.e = k2.epoch /\ f.n < Pos(k2) /\ (k.init => Pos(k) <= f.n)
  /\ k.init => k2.init /\ k2.epoch = k.epoch /\ Pos(k) <= Pos(k2)
  /\ ~k.init => k2 = k \/ (k2.init /\ k2.epoch = epoch /\ Active /\ epoch # 0)
  /\ E = {} => k2.busy = k.busy /\ k2.owner = k.owner
  /\ E # {} => ~k.busy /\ k2.init /\ k2.busy = TRUE /\ k2.owner = t

\* A queue that is left alone,
LEMMA MovedNot ==
  ASSUME NEW c \in Classes, NEW k, QueueOk(c, k), NEW t
  PROVE  Moved(c, k, k, {}, t)
  <1>1. k.init => Pos(k) <= Pos(k)
    <2>1. k.init => Pos(k) \in Nat
      BY Sizes DEF QueueOk
    <2> QED BY <2>1
  <1> QED BY <1>1 DEF Moved

\* and one that has moved without giving anything away moves on.
LEMMA MovedOn ==
  ASSUME NEW c \in Classes, NEW k, QueueOk(c, k), NEW k1, NEW k2, NEW E, NEW t,
         Moved(c, k, k1, {}, t), Moved(c, k1, k2, E, t)
  PROVE  Moved(c, k, k2, E, t)
  <1>1. k.init => Pos(k) \in Nat
    BY Sizes DEF QueueOk
  <1>2. k1.init => Pos(k1) \in Nat
    BY Sizes DEF QueueOk, Moved
  <1>3. k2.init => Pos(k2) \in Nat
    BY Sizes DEF QueueOk, Moved
  <1>4. \A f \in E : f.n \in Nat
    BY FrameIs DEF Moved
  <1> QED BY <1>1, <1>2, <1>3, <1>4 DEF Moved

\* An empty queue that goes straight to a frame far ahead.
LEMMA RecoveredIs ==
  ASSUME NEW c \in Classes, NEW k, QueueOk(c, k), NEW f \in Frames, NEW t
  PROVE  /\ Moved(c, k, Recovered(k, f), {}, t)
         /\ Recovered(k, f) = k \/ (k.init /\ Pos(Recovered(k, f)) = f.n /\ Cached(Recovered(k, f)) = {})
         /\ Cached(Recovered(k, f)) = Cached(k)
  <1>1. CASE k.init /\ ~k.busy /\ Cached(k) = {} /\ Far(k, f)
    <2> DEFINE r == [k EXCEPT !.exp = Sq(f)]
    <2>1. k \in Queues /\ Pos(k) \in 1..(MaxN + 1) /\ k.exp \in 0..(SeqCount - 1)
      BY <1>1 DEF QueueOk, Queues
    <2>2. f.n \in 1..MaxN /\ f.n \in Nat /\ Sq(f) = At(f.n) /\ f.n \in 0..(SeqCount - 1)
      BY FrameIs, Sizes
    <2>3. r.exp = At(f.n) /\ r.init = k.init /\ r.epoch = k.epoch /\ r.busy = k.busy
          /\ r.owner = k.owner /\ r.slots = k.slots /\ r.old = k.old
      BY <2>1, <2>2 DEF Queues
    <2>4. Pos(r) = f.n /\ r.exp \in 0..(SeqCount - 1)
      BY <2>2, <2>3, AtPos
    <2>5. r \in Queues
      BY <2>1, <2>3, <2>4 DEF Queues
    <2> HIDE DEF r
    <2>6. Cached(r) = {}
      BY <1>1, <2>3 DEF Cached
    <2>7. \A i \in 0..(Window - 1) : r.slots[i] = NoFrame
      BY <2>6 DEF Cached
    <2>8. QueueOk(c, r)
      <3>1. \A i \in r.old : r.slots[i] # NoFrame
        BY <2>3 DEF QueueOk
      <3>2. Pos(r) \in 1..(MaxN + 1)
        BY <2>2, <2>4, Sizes
      <3> QED BY <1>1, <2>3, <2>5, <2>7, <3>1, <3>2 DEF QueueOk
    <2>9. Pos(k) <= Pos(r)
      <3>1. f.n >= Pos(k) + Window
        BY <1>1, <2>1, Places
      <3>2. Pos(k) \in Nat /\ Window \in Nat
        BY <2>1, Sizes
      <3> QED BY <2>2, <2>4, <3>1, <3>2
    <2>10. Recovered(k, f) = r
      BY <1>1 DEF Recovered, r
    <2> QED BY <1>1, <2>3, <2>4, <2>6, <2>8, <2>9, <2>10 DEF Moved
  <1>2. CASE ~(k.init /\ ~k.busy /\ Cached(k) = {} /\ Far(k, f))
    <2>1. Recovered(k, f) = k
      BY <1>2 DEF Recovered
    <2> QED BY <2>1, MovedNot
  <1> QED BY <1>1, <1>2

\* Frames that are waiting together to be put into a queue of class c, none of them
\* beyond its window.
Waiting(c, k, S) ==
  /\ S \in SUBSET Frames /\ IsFiniteSet(S) /\ S # {}
  /\ \A f \in S : f.c = c /\ f.e = epoch
  /\ Active /\ epoch # 0 /\ epoch \in 0..MaxEpoch /\ (k.init => k.epoch = epoch)
  /\ \A f \in S : ~Far(IF k.init THEN k ELSE [k EXCEPT !.exp = Sq(First(S))], f)

\* A queue that begins with such frames, or goes on, has room for all of them.
LEMMA BegunIs ==
  ASSUME NEW c \in Classes, NEW k, QueueOk(c, k), NEW S, Waiting(c, k, S), NEW t
  PROVE  LET K == Begun(k, S)
         IN /\ QueueOk(c, K) /\ K.init /\ K.epoch = epoch /\ Moved(c, k, K, {}, t)
            /\ Pos(K) \in 1..(MaxN + 1) /\ K.exp \in 0..(SeqCount - 1)
            /\ \A f \in S : f.n < Pos(K) + Window
            /\ \A f \in S : Pos(K) <= f.n \/ (k.init /\ Late(k, f))
            /\ K.busy = k.busy /\ Rebased(K, S) = K
  <1> DEFINE K == Begun(k, S)
  <1>0. S \in SUBSET Frames /\ S # {}
    BY DEF Waiting
  <1>1. First(S) \in S /\ First(S) \in Frames /\ \A g \in S : First(S).n <= g.n
    BY <1>0, FirstIs
  <1>2. /\ QueueOk(c, K) /\ K.init /\ K.epoch = epoch /\ Moved(c, k, K, {}, t)
        /\ Pos(K) \in 1..(MaxN + 1) /\ K.exp \in 0..(SeqCount - 1)
        /\ \A f \in S : ~Far(K, f)
        /\ K.busy = k.busy
        /\ k.init => K = k
        /\ ~k.init => Pos(K) = First(S).n
    <2>1. CASE k.init
      <3>1. K = k
        BY <2>1 DEF Begun
      <3>2. Pos(k) \in 1..(MaxN + 1) /\ k.exp \in 0..(SeqCount - 1)
        BY <2>1 DEF QueueOk, Queues
      <3> QED BY <2>1, <3>1, <3>2, MovedNot DEF Waiting
    <2>2. CASE ~k.init
      <3> DEFINE B == [init |-> TRUE, epoch |-> epoch, exp |-> Sq(First(S)), busy |-> FALSE,
                       owner |-> NoThread, slots |-> [i \in 0..(Window - 1) |-> NoFrame], old |-> {}]
      <3>1. k = EmptyQueue
        BY <2>2 DEF QueueOk
      <3>2. First(S).e = epoch
        BY <1>1 DEF Waiting
      <3>3. K = B
        BY <2>2, <3>1, <3>2 DEF Begun, EmptyQueue
      <3>4. /\ First(S).n \in 1..MaxN /\ Sq(First(S)) = At(First(S).n)
            /\ First(S).n \in 0..(SeqCount - 1) /\ First(S).n \in 1..(MaxN + 1)
        BY <1>1, FrameIs, Sizes
      <3> HIDE DEF K
      <3>5. Pos(K) = First(S).n /\ K.exp \in 0..(SeqCount - 1)
        BY <3>3, <3>4, AtPos
      <3>6. K \in Queues
        BY <3>3, <3>5, Sizes DEF Queues, Waiting
      <3>7. QueueOk(c, K)
        BY <3>3, <3>4, <3>5, <3>6 DEF QueueOk
      <3>8. K.busy = k.busy /\ K.owner = k.owner /\ K.init /\ K.epoch = epoch
        BY <3>1, <3>3 DEF EmptyQueue
      <3>9. Moved(c, k, K, {}, t)
        BY <2>2, <3>7, <3>8 DEF Moved, Waiting
      <3>10. \A f \in S : ~Far(K, f)
        <4>1. [k EXCEPT !.exp = Sq(First(S))].exp = K.exp
          BY <3>1, <3>3 DEF EmptyQueue
        <4>2. \A f \in S : ~Far([k EXCEPT !.exp = Sq(First(S))], f)
          BY <2>2 DEF Waiting
        <4> QED BY <4>1, <4>2 DEF Far, Late, Ahead
      <3> QED BY <2>2, <3>4, <3>5, <3>7, <3>8, <3>9, <3>10
    <2> QED BY <2>1, <2>2
  <1> HIDE DEF K
  <1>3. ASSUME NEW f \in S
        PROVE  /\ f \in Frames /\ f.n \in Nat /\ f.n < Pos(K) + Window
               /\ Pos(K) <= f.n \/ (k.init /\ Late(k, f))
               /\ Fits(K, f) <=> Pos(K) <= f.n
    <2>1. f \in Frames /\ f.n \in Nat /\ Pos(K) \in Nat /\ Window \in Nat
      BY <1>0, <1>2, FrameIs, Sizes
    <2>2. f.n < Pos(K) + Window
      <3>1. ~(f.n >= Pos(K) + Window)
        BY <1>2, <2>1, Places
      <3> QED BY <2>1, <3>1
    <2>3. Late(K, f) <=> f.n < Pos(K)
      BY <1>2, <2>1, Places
    <2>4. Pos(K) <= f.n \/ (k.init /\ Late(k, f))
      BY <1>1, <1>2, <2>1, <2>3
    <2>5. Fits(K, f) <=> Pos(K) <= f.n
      BY <1>2, <2>1, <2>2, Places
    <2> QED BY <2>1, <2>2, <2>4, <2>5
  <1>4. Rebased(K, S) = K
    <2>1. SUFFICES ASSUME ~(\E f \in S : Fits(K, f)) PROVE {f \in S : Before(K.exp, Sq(f))} = {}
      BY DEF Rebased
    <2>2. ASSUME NEW f \in S PROVE ~Before(K.exp, Sq(f))
      <3>1. f.n < Pos(K) /\ f.n \in Nat /\ Pos(K) \in Nat
        BY <1>2, <1>3, <2>1, Sizes
      <3>2. K.exp = At(Pos(K)) /\ Sq(f) = At(f.n)
        BY <1>2, <1>3, FrameIs, PosAt
      <3>3. PICK h \in Nat : h = SeqCount \div 2 /\ 2 * h = SeqCount
        BY Sizes
      <3>4. f.n \in 1..MaxN /\ Pos(K) - f.n \in 0..(SeqCount - 1) /\ Pos(K) - f.n < h
        <4>1. MaxN < h /\ MaxN \in Nat /\ f.n \in 1..MaxN
          BY <1>3, <3>3, FrameIs, Sizes
        <4> QED BY <1>2, <3>1, <3>3, <4>1
      <3>5. Dist(At(Pos(K)), At(f.n)) = Pos(K) - f.n
        BY <3>1, <3>4, Between
      <3>6. Dist(K.exp, Sq(f)) < SeqCount \div 2
        BY <3>2, <3>3, <3>4, <3>5
      <3>7. Dist(K.exp, Sq(f)) \in Int
        BY <3>1, <3>2, <3>5
      <3> QED BY <3>3, <3>6, <3>7 DEF Before
    <2> QED BY <2>2
  <1> QED BY <1>2, <1>3, <1>4 DEF K

\* Live frames for a queue: it takes all that are not late, and gives a run of them away.
LEMMA ProcessIs ==
  ASSUME NEW c \in Classes, NEW k, QueueOk(c, k), NEW S, Waiting(c, k, S), NEW t \in Threads,
         NEW b, NEW cap \in Int
  PROVE  LET r == Process(k, S, b, cap, t)
         IN /\ Moved(c, k, r.k, r.emit \cup r.ready, t)
            /\ r.emit = {} \/ r.ready = {}
            /\ r.cached \in BOOLEAN
            /\ \A f \in S : f \in Cached(r.k) \cup r.emit \cup r.ready \/ (k.init /\ Late(k, f))
  <1> DEFINE K == Begun(k, S)
             kept == Kept(K, S)
             prefix == Contiguous(K, kept)
             next == K.exp + Cardinality(prefix)
             k3 == Put(K, kept)
             run == Earliest(k3, Contiguous(k3, Cached(k3)), cap)
             r == Process(k, S, b, cap, t)
             A == [k |-> k3, emit |-> {}, ready |-> {}, cached |-> kept # {}]
             B == [k |-> Deliver(Put(K, kept \ prefix), prefix, next, t),
                   emit |-> {}, ready |-> prefix, cached |-> kept # prefix]
             C == [k |-> Deliver(k3, run, k3.exp + Cardinality(run), t),
                   emit |-> run, ready |-> {}, cached |-> kept # {}]
  <1>1. /\ QueueOk(c, K) /\ K.init /\ K.epoch = epoch /\ Moved(c, k, K, {}, t)
        /\ Pos(K) \in 1..(MaxN + 1) /\ K.exp \in 0..(SeqCount - 1) /\ Pos(K) \in Nat
        /\ \A f \in S : f.n < Pos(K) + Window
        /\ \A f \in S : Pos(K) <= f.n \/ (k.init /\ Late(k, f))
        /\ K.busy = k.busy /\ Rebased(K, S) = K
    BY BegunIs, Sizes
  <1> HIDE DEF K
  <1>2. \/ r = A
        \/ r = B /\ ~K.busy /\ prefix # {} /\ \A f \in Cached(K) : Sq(f) # next % SeqCount
        \/ r = C /\ ~K.busy
    <2>1. Rebased(Begun(k, S), S) = K
      BY <1>1 DEF K
    <2> QED BY <2>1 DEF Process, MayDeliver
  <1> HIDE DEF k3, kept
  <1>3. /\ kept \in SUBSET S /\ kept \in SUBSET Frames /\ IsFiniteSet(kept)
        /\ Welcome(c, K, kept)
        /\ \A f \in kept : Pos(K) <= f.n /\ f.c = c /\ f.e = epoch /\ K.slots[Sq(f) % Window] = NoFrame
        /\ \A f, g \in kept : f.n = g.n => f = g
    <2>1. kept \in SUBSET S /\ kept \in SUBSET Frames /\ IsFiniteSet(kept)
      <3>1. kept \subseteq S
        BY DEF Kept, kept
      <3> QED BY <3>1, FS_Subset DEF Waiting
    <2>2. ASSUME NEW f \in kept
          PROVE  /\ f \in Frames /\ f.c = c /\ f.e = epoch /\ Pos(K) <= f.n /\ f.n < Pos(K) + Window
                 /\ K.slots[Sq(f) % Window] = NoFrame
      <3>1. f \in Frames /\ f \in S /\ f.c = c /\ f.e = epoch
        BY <2>1 DEF Waiting
      <3>2. Fits(K, f) /\ K.slots[Sq(f) % Window] = NoFrame
        BY DEF Kept, kept
      <3> QED BY <1>1, <3>1, <3>2, Places
    <2>3. ASSUME NEW f \in kept, NEW g \in kept, f.n = g.n PROVE f = g
      BY <2>2, <2>3, FrameIs
    <2> QED BY <1>1, <2>1, <2>2, <2>3 DEF Welcome
  <1>4. ASSUME NEW f \in S PROVE f \in Cached(K) \cup kept \/ (k.init /\ Late(k, f))
    <2> SUFFICES ASSUME Pos(K) <= f.n, f \notin kept PROVE f \in Cached(K)
      BY <1>1
    <2>1. f \in Frames /\ f.c = c /\ f.e = epoch /\ f.n \in Nat
      BY FrameIs DEF Waiting
    <2>2. Fits(K, f)
      BY <1>1, <2>1, Places
    <2>3. K.slots[Sq(f) % Window] # NoFrame
      BY <2>2 DEF Kept, kept
    <2> DEFINE i == Sq(f) % Window
               g == K.slots[i]
    <2>4. i \in 0..(Window - 1)
      <3>1. Base + f.n \in Int /\ SeqCount \in Nat \ {0} /\ Window \in Nat \ {0}
        BY <2>1, Sizes
      <3>2. PICK s \in Int : s = Sq(f)
        BY <3>1, ModExists DEF Sq
      <3>3. s % Window \in 0..(Window - 1)
        BY ONLY <3>1, ModExists, s \in Int
      <3> QED BY <3>2, <3>3
    <2>5. g \in Cached(K) /\ g \in Frames
      BY <1>1, <2>3, <2>4, CachedIs
    <2>6. /\ g.c = c /\ g.e = epoch /\ Sq(g) % Window = i /\ Pos(K) <= g.n /\ g.n < Pos(K) + Window
      BY <1>1, <2>3, <2>4 DEF QueueOk
    <2> HIDE DEF g, i
    <2>7. f.n = g.n
      <3>1. g.n \in Nat /\ Pos(K) \in Nat /\ Window \in Nat /\ f.n < Pos(K) + Window
        BY <1>1, <2>5, FrameIs, Sizes
      <3>2. CASE f.n <= g.n
        <4>1. g.n - f.n < Window
          BY <2>1, <2>6, <3>1
        <4> QED BY <2>1, <2>5, <2>6, <3>2, <4>1, OneSlot DEF i
      <3>3. CASE g.n <= f.n
        <4>1. f.n - g.n < Window
          BY <2>1, <2>6, <3>1
        <4> QED BY <2>1, <2>5, <2>6, <3>3, <4>1, OneSlot DEF i
      <3> QED BY <2>1, <3>1, <3>2, <3>3
    <2>8. f = g
      BY <2>1, <2>5, <2>6, <2>7, FrameIs
    <2> QED BY <2>5, <2>8
  <1>5. /\ QueueOk(c, k3) /\ Cached(k3) = Cached(K) \cup kept
        /\ k3.init /\ k3.epoch = K.epoch /\ Pos(k3) = Pos(K) /\ k3.exp = K.exp
        /\ k3.busy = K.busy /\ k3.owner = K.owner
    <2>1. Put(K, kept) = k3
      BY DEF k3
    <2> QED BY <1>1, <1>3, <2>1, PutIs DEF Pos
  <1>6. Moved(c, k, k3, {}, t)
    <2>1. Moved(c, K, k3, {}, t)
      BY <1>1, <1>5 DEF Moved
    <2> QED BY <1>1, <2>1, MovedOn
  <1>7. CASE r = A
    BY <1>4, <1>5, <1>6, <1>7
  <1>8. CASE r = B /\ ~K.busy /\ prefix # {} /\ \A f \in Cached(K) : Sq(f) # next % SeqCount
    <2> DEFINE k4 == Put(K, kept \ prefix)
               k5 == Deliver(k4, prefix, next, t)
    <2>1. PICK m \in Nat :
            /\ Cardinality(prefix) = m /\ prefix \in SUBSET kept
            /\ Pos(K) + m \in 1..(MaxN + 1)
            /\ \A f \in prefix : f.n < Pos(K) + m
            /\ \A f \in kept : f \in prefix \/ f.n >= Pos(K) + m
            /\ \A d \in Pos(K)..(Pos(K) + m - 1) : \E g \in prefix : g.n = d
      BY <1>1, <1>3, PrefixIs
    <2>2. next % SeqCount = At(Pos(K) + m)
      BY <1>1, <2>1, ExpPlus
    <2> HIDE DEF next, prefix
    <2>3. Welcome(c, K, kept \ prefix)
      BY <1>3 DEF Welcome
    <2>4. /\ QueueOk(c, k4) /\ Cached(k4) = Cached(K) \cup (kept \ prefix)
          /\ k4.init /\ k4.epoch = K.epoch /\ k4.exp = K.exp /\ k4.busy = K.busy /\ k4.owner = K.owner
      <3> DEFINE rest == kept \ prefix
      <3>1. Welcome(c, K, rest)
        BY <2>3
      <3> HIDE DEF rest
      <3>2. LET p == Put(K, rest)
            IN /\ QueueOk(c, p) /\ Cached(p) = Cached(K) \cup rest
               /\ p.init /\ p.epoch = K.epoch /\ p.exp = K.exp /\ p.busy = K.busy /\ p.owner = K.owner
        BY <1>1, <3>1, PutIs
      <3> QED BY <3>2 DEF rest
    <2> HIDE DEF k4
    <2>5. Pos(k4) = Pos(K)
      BY <2>4 DEF Pos
    <2>6. ASSUME NEW f \in Cached(k4) PROVE f \in prefix \/ f.n >= Pos(K) + m
      <3>1. CASE f \in kept
        BY <2>1, <3>1
      <3>2. CASE f \in Cached(K)
        <4>1. /\ f \in Frames /\ Pos(K) <= f.n /\ K.slots[Sq(f) % Window] = f /\ f.n \in Nat
              /\ f # NoFrame
          <5>1. f \in Frames /\ Pos(K) <= f.n /\ K.slots[Sq(f) % Window] = f
            BY <1>1, <3>2, CachedIs
          <5>2. f # NoFrame
            BY <3>2 DEF Cached
          <5> QED BY <5>1, <5>2, FrameIs
        <4>2. SUFFICES ASSUME f.n < Pos(K) + m PROVE FALSE
          BY <1>1, <2>1, <4>1
        <4>3. f.n \in Pos(K)..(Pos(K) + m - 1)
          BY <1>1, <4>1, <4>2
        <4>4. PICK g \in prefix : g.n = f.n
          BY <2>1, <4>3
        <4>5. K.slots[Sq(g) % Window] = NoFrame
          BY <1>3, <2>1
        <4>6. Sq(g) = Sq(f)
          BY <4>4 DEF Sq
        <4> QED BY <4>1, <4>5, <4>6
      <3> QED BY <2>4, <3>1, <3>2
    <2>7. Pos(k4) <= Pos(K) + m
      BY <1>1, <2>5
    <2>8. /\ QueueOk(c, k5) /\ k5.init /\ k5.epoch = K.epoch /\ Pos(k5) = Pos(K) + m
          /\ Cached(k5) = Cached(k4) \ prefix
          /\ k5.busy = TRUE /\ k5.owner = t
      <3>1. PICK x \in 1..(MaxN + 1) : x = Pos(K) + m
        BY <2>1
      <3>2. Pos(k4) <= x /\ next % SeqCount = At(x) /\ \A f \in Cached(k4) : f \in prefix \/ f.n >= x
        BY <2>2, <2>5, <2>6, <2>7, <3>1
      <3> HIDE DEF k5
      <3>3. k5 = Deliver(k4, prefix, next, t) /\ prefix # {}
        BY <1>8 DEF k5
      <3>4. /\ QueueOk(c, k5) /\ k5.init /\ k5.epoch = k4.epoch /\ Pos(k5) = x
            /\ Cached(k5) = Cached(k4) \ prefix /\ k5.busy = TRUE /\ k5.owner = t
        <4>1. GoesOn(c, k4, prefix, next, t, x)
          BY <2>4, <3>2 DEF GoesOn
        <4>2. GoneOn(c, k4, prefix, k5, t, x)
          BY <4>1, <3>3, DeliverIs
        <4> QED BY <4>2, <3>3 DEF GoneOn
      <3> QED BY <2>4, <3>1, <3>4
    <2> HIDE DEF k5
    <2>9. Moved(c, K, k5, prefix, t)
      <3>1. \A f \in prefix : f.c = c /\ f.e = epoch /\ Pos(K) <= f.n
        BY <1>3, <2>1
      <3>2. Pos(K) <= Pos(K) + m
        BY <1>1
      <3> QED BY <1>1, <1>3, <1>8, <2>1, <2>8, <3>1, <3>2 DEF Moved
    <2>10. Moved(c, k, k5, prefix, t)
      BY <1>1, <2>9, MovedOn
    <2>11. \A f \in S : f \in Cached(k5) \cup prefix \/ (k.init /\ Late(k, f))
      BY <1>4, <2>4, <2>8
    <2>12. r = [k |-> k5, emit |-> {}, ready |-> prefix, cached |-> kept # prefix]
      BY <1>8 DEF k5, k4
    <2> HIDE DEF r
    <2>13. r.k = k5 /\ r.emit = {} /\ r.ready = prefix /\ r.cached \in BOOLEAN
      BY <2>12
    <2>14. Moved(c, k, r.k, r.emit \cup r.ready, t)
      <3>1. r.emit \cup r.ready = prefix
        BY <2>13
      <3> QED BY <2>10, <2>13, <3>1
    <2> QED BY <2>11, <2>13, <2>14 DEF r
  <1>9. CASE r = C /\ ~K.busy
    <2> DEFINE k5 == Deliver(k3, run, k3.exp + Cardinality(run), t)
    <2>1. /\ Cached(k3) \in SUBSET Frames /\ IsFiniteSet(Cached(k3))
          /\ \A f \in Cached(k3) : Pos(k3) <= f.n /\ f.c = c /\ f.e = k3.epoch
          /\ \A f, g \in Cached(k3) : f.n = g.n => f = g
      BY <1>5, CachedIs
    <2>2. k3.exp \in 0..(SeqCount - 1) /\ Pos(k3) \in 1..(MaxN + 1) /\ Pos(k3) \in Nat
      BY <1>1, <1>5
    <2>3. PICK m \in Nat :
            /\ Cardinality(run) = m /\ run \in SUBSET Cached(k3)
            /\ Pos(k3) + m \in 1..(MaxN + 1)
            /\ \A f \in run : f.n < Pos(k3) + m
            /\ \A f \in Cached(k3) : f \in run \/ f.n >= Pos(k3) + m
      BY <2>1, <2>2, RunIs
    <2> HIDE DEF run
    <2>4. (k3.exp + m) % SeqCount = At(Pos(k3) + m)
      BY <2>2, ExpPlus
    <2>5. Pos(k3) <= Pos(k3) + m
      BY <2>2
    <2>6. /\ QueueOk(c, k5) /\ k5.init /\ k5.epoch = k3.epoch /\ Pos(k5) = Pos(k3) + m
          /\ Cached(k5) = Cached(k3) \ run
          /\ run = {} => k5.busy = k3.busy /\ k5.owner = k3.owner
          /\ run # {} => k5.busy = TRUE /\ k5.owner = t
      <3>1. PICK x \in 1..(MaxN + 1) : x = Pos(k3) + m
        BY <2>3
      <3>2. PICK exp : exp = k3.exp + Cardinality(run)
        OBVIOUS
      <3>3. Pos(k3) <= x /\ exp % SeqCount = At(x) /\ \A f \in Cached(k3) : f \in run \/ f.n >= x
        BY <2>3, <2>4, <2>5, <3>1, <3>2
      <3>4. k5 = Deliver(k3, run, exp, t)
        BY <3>2
      <3> HIDE DEF k5
      <3>5. /\ QueueOk(c, k5) /\ k5.init /\ k5.epoch = k3.epoch /\ Pos(k5) = x
            /\ Cached(k5) = Cached(k3) \ run
            /\ run = {} => k5.busy = k3.busy /\ k5.owner = k3.owner
            /\ run # {} => k5.busy = TRUE /\ k5.owner = t
        <4>1. GoesOn(c, k3, run, exp, t, x)
          BY <1>5, <3>3 DEF GoesOn
        <4>2. GoneOn(c, k3, run, k5, t, x)
          BY <4>1, <3>4, DeliverIs
        <4> QED BY <4>2 DEF GoneOn
      <3> QED BY <3>1, <3>5
    <2> HIDE DEF k5
    <2>7. Moved(c, k3, k5, run, t)
      BY <1>5, <1>9, <2>1, <2>3, <2>5, <2>6 DEF Moved
    <2>8. Moved(c, k, k5, run, t)
      BY <1>6, <2>7, MovedOn
    <2>9. \A f \in S : f \in Cached(k5) \cup run \/ (k.init /\ Late(k, f))
      BY <1>4, <1>5, <2>6
    <2>10. r = [k |-> k5, emit |-> run, ready |-> {}, cached |-> kept # {}]
      BY <1>9 DEF k5
    <2> HIDE DEF r
    <2>11. r.k = k5 /\ r.emit = run /\ r.ready = {} /\ r.cached \in BOOLEAN
      BY <2>10
    <2>12. Moved(c, k, r.k, r.emit \cup r.ready, t)
      <3>1. r.emit \cup r.ready = run
        BY <2>11
      <3> QED BY <2>8, <2>11, <3>1
    <2> QED BY <2>9, <2>11, <2>12 DEF r
  <1> QED BY <1>2, <1>7, <1>8, <1>9

\* Farthest is the frame that was sent last.
LEMMA FarthestIs ==
  ASSUME NEW k, k.exp \in 0..(SeqCount - 1), Pos(k) \in 1..(MaxN + 1),
         NEW S \in SUBSET Frames, S # {}, \A f \in S : Pos(k) <= f.n
  PROVE  Farthest(k, S) \in S /\ \A g \in S : g.n <= Farthest(k, S).n
  <1> DEFINE T == {f.n : f \in S}
  <1>1. T \subseteq 0..MaxN /\ T # {}
    BY FrameIs, Sizes
  <1>2. PICK M \in T : \A n \in T : n <= M
    <2> HIDE DEF T
    <2> QED BY <1>1, Sizes, MaxExists
  <1>3. PICK f \in S : f.n = M
    OBVIOUS
  <1>4. ASSUME NEW g \in S PROVE Ahead(k, g) = g.n - Pos(k) /\ g.n \in Nat /\ Pos(k) \in Nat
    BY FrameIs, Places, Sizes
  <1>5. \A g \in S : Ahead(k, g) <= Ahead(k, f)
    <2> SUFFICES ASSUME NEW g \in S PROVE Ahead(k, g) <= Ahead(k, f)
      OBVIOUS
    <2>1. g.n <= f.n
      BY <1>2, <1>3
    <2> QED BY <1>4, <2>1
  <1>6. Farthest(k, S) \in S /\ \A g \in S : Ahead(k, g) <= Ahead(k, Farthest(k, S))
    BY <1>5 DEF Farthest
  <1>7. ASSUME NEW g \in S PROVE g.n <= Farthest(k, S).n
    <2>1. Ahead(k, g) <= Ahead(k, Farthest(k, S))
      BY <1>6
    <2> QED BY <1>4, <1>6, <2>1
  <1> QED BY <1>6, <1>7

\* Taking what is before place x, or the beginning of it.
LEMMA TakeIs ==
  ASSUME NEW c \in Classes, NEW k, QueueOk(c, k), k.init, ~k.busy, NEW t \in Threads,
         NEW x \in 1..(MaxN + 1), Pos(k) <= x, NEW exp, exp % SeqCount = At(x),
         NEW L, L = {g \in Cached(k) : g.n < x}
  PROVE  /\ Moved(c, k, Take(k, L, exp, t).k, Take(k, L, exp, t).emit, t)
         /\ Take(k, L, exp, t).emit \in SUBSET Cached(k)
  <1> DEFINE T == Earliest(k, L, EmitMax)
             g == Farthest(k, T)
             D(z) == Deliver(k, T, z, t)
  <1>1. /\ k.exp \in 0..(SeqCount - 1) /\ Pos(k) \in 1..(MaxN + 1) /\ Pos(k) \in Nat
        /\ EmitMax \in Nat \ {0}
    BY Sizes DEF QueueOk, Queues
  <1>2. /\ L \in SUBSET Cached(k) /\ L \in SUBSET Frames /\ IsFiniteSet(L)
        /\ \A f \in Cached(k) : f \in Frames /\ f.c = c /\ f.e = k.epoch /\ Pos(k) <= f.n /\ f.n \in Nat
        /\ Cardinality(L) \in Nat
    <2>1. Cached(k) \in SUBSET Frames /\ IsFiniteSet(Cached(k))
      BY CachedIs
    <2>2. L \in SUBSET Cached(k) /\ IsFiniteSet(L)
      BY <2>1, FS_Subset
    <2>3. ASSUME NEW f \in Cached(k)
          PROVE  f \in Frames /\ f.c = c /\ f.e = k.epoch /\ Pos(k) <= f.n /\ f.n \in Nat
      BY <2>1, CachedIs, FrameIs
    <2> QED BY <2>1, <2>2, <2>3, FS_CardinalityType
  <1>3. /\ T \in SUBSET L
        /\ \A f \in T, h \in L : h.n <= f.n => h \in T
        /\ Cardinality(L) <= EmitMax => T = L
        /\ L # {} => T # {}
    <2>1. \A f \in L : Pos(k) <= f.n
      BY <1>2
    <2>2. EmitMax \in Int /\ EmitMax > 0
      BY <1>1
    <2> QED BY ONLY <1>1, <1>2, <2>1, <2>2, EarliestIs
  <1> HIDE DEF T
  <1>4. \A f \in L : f.n < x
    OBVIOUS
  <1>5. ASSUME NEW y \in 1..(MaxN + 1), Pos(k) <= y, NEW z, z % SeqCount = At(y),
               \A f \in T : f.n < y, \A f \in Cached(k) : f \in T \/ f.n >= y
        PROVE  Moved(c, k, D(z), T, t)
    <2>1. GoesOn(c, k, T, z, t, y)
      BY <1>5 DEF GoesOn
    <2>2. GoneOn(c, k, T, D(z), t, y)
      BY <2>1, DeliverIs
    <2> HIDE DEF D
    <2>3. \A f \in T : f \in Frames /\ f.c = c /\ f.e = k.epoch /\ Pos(k) <= f.n
      BY <1>2, <1>3
    <2> QED BY <1>5, <2>2, <2>3 DEF GoneOn, Moved
  <1>6. CASE Cardinality(L) < EmitMax
    <2>1. Take(k, L, exp, t) = [k |-> D(exp), emit |-> T]
      BY <1>6 DEF Take, T
    <2>2. T = L
      BY <1>1, <1>2, <1>3, <1>6
    <2>3. \A f \in Cached(k) : f \in T \/ f.n >= x
      BY <1>2, <2>2
    <2>4. Moved(c, k, D(exp), T, t)
      BY <1>4, <1>5, <2>2, <2>3
    <2> HIDE DEF D
    <2>5. Take(k, L, exp, t).k = D(exp) /\ Take(k, L, exp, t).emit = T
      BY <2>1
    <2> QED BY <1>2, <2>2, <2>4, <2>5
  <1>7. CASE ~(Cardinality(L) < EmitMax)
    <2>1. Take(k, L, exp, t) = [k |-> D(1 + Sq(g)), emit |-> T]
      BY <1>7 DEF Take, T
    <2>2. T # {}
      <3>1. L # {}
        BY <1>1, <1>2, <1>7, FS_EmptySet
      <3> QED BY <1>3, <3>1
    <2>3. g \in T /\ \A h \in T : h.n <= g.n
      BY <1>1, <1>2, <1>3, <2>2, FarthestIs
    <2> HIDE DEF g, D
    <2>4. g \in Frames /\ g.n \in 1..MaxN /\ Sq(g) = At(g.n) /\ g.n < x /\ Pos(k) <= g.n /\ g.n \in Nat
      BY <1>2, <1>3, <1>4, <2>3, FrameIs
    <2>5. PICK y \in 1..(MaxN + 1) : y = g.n + 1
      BY <2>4, Sizes
    <2>6. (1 + Sq(g)) % SeqCount = At(y)
      <3>1. PICK a \in Int : a = Base + g.n
        BY <2>4, Sizes
      <3>2. SeqCount \in Nat \ {0} /\ Base \in Int
        BY Sizes
      <3>3. ((a % SeqCount) + 1) % SeqCount = (a + 1) % SeqCount
        <4>1. 1 \in Int
          OBVIOUS
        <4> QED BY ONLY <3>2, <4>1, ModParts, a \in Int
      <3>4. a + 1 = Base + y /\ Sq(g) = a % SeqCount
        BY <2>4, <2>5, <3>1, <3>2 DEF At
      <3>5. a % SeqCount \in Int
        BY <3>2, ModExists
      <3>6. 1 + Sq(g) = (a % SeqCount) + 1
        BY <3>4, <3>5
      <3> QED BY <3>3, <3>4, <3>6 DEF At
    <2>7. ASSUME NEW f \in Cached(k), f \notin T PROVE f.n >= y
      <3>1. CASE f \in L
        <4>1. ~(f.n <= g.n)
          BY <1>3, <2>3, <2>7, <3>1
        <4> QED BY <1>2, <2>4, <2>5, <4>1
      <3>2. CASE f \notin L
        BY <1>2, <2>4, <2>5, <3>2
      <3> QED BY <3>1, <3>2
    <2>8. \A f \in T : f.n < y
      <3> SUFFICES ASSUME NEW f \in T PROVE f.n < y
        OBVIOUS
      <3>1. f.n \in Nat /\ f.n <= g.n
        BY <1>2, <1>3, <2>3
      <3> QED BY <2>4, <2>5, <3>1
    <2>9. PICK z : z = 1 + Sq(g)
      OBVIOUS
    <2>10. Moved(c, k, D(z), T, t)
      BY <1>1, <1>5, <2>4, <2>5, <2>6, <2>7, <2>8, <2>9
    <2>11. Take(k, L, exp, t).k = D(z) /\ Take(k, L, exp, t).emit = T
      BY <2>1, <2>9
    <2> QED BY <1>2, <1>3, <2>10, <2>11
  <1> QED BY <1>6, <1>7

\* What leaves so that a frame far ahead fits.
LEMMA TakePressureIs ==
  ASSUME NEW c \in Classes, NEW k, QueueOk(c, k), k.init, ~k.busy, NEW t \in Threads,
         NEW f \in Frames, Far(k, f)
  PROVE  Moved(c, k, TakePressure(k, f, t).k, TakePressure(k, f, t).emit, t)
  <1> DEFINE N == SeqCount
             p == Pos(k)
             target == Sq(f) - (Window - 1)
             leaving == {g \in Cached(k) : Ahead(k, g) < Dist(target, k.exp)}
  <1>0. N \in Nat \ {0} /\ Base \in Int /\ Window \in Nat \ {0}
    BY Sizes
  <1>1. k.exp \in 0..(N - 1) /\ p \in 1..(MaxN + 1) /\ p \in Nat /\ p \in 0..(N - 1)
    BY Sizes DEF QueueOk, Queues
  <1>2. f.n \in 1..MaxN /\ f.n \in Nat /\ MaxN \in Nat /\ f.n >= p + Window /\ f.n < N
    BY <1>1, FrameIs, Places, Sizes
  <1> HIDE DEF p
  <1>3. PICK w \in Int : w = Window - 1 /\ w >= 0
    BY <1>0
  <1>4. PICK x \in 1..(MaxN + 1) : x = f.n - w /\ p <= x /\ x - p \in 0..(N - 1) /\ x \in Int
    <2>1. f.n - w \in 1..(MaxN + 1) /\ p <= f.n - w /\ f.n - w - p \in 0..(N - 1)
      BY <1>0, <1>1, <1>2, <1>3
    <2> QED BY <2>1
  <1>5. PICK a \in Int : a = Base + f.n
    BY <1>0, <1>2
  <1>6. PICK b \in Int : b = Base + p
    BY <1>0, <1>1
  <1>7. Sq(f) = a % N /\ k.exp = b % N
    BY <1>1, <1>5, <1>6, PosAt DEF Sq, At, p
  <1>8. PICK u \in Int : u = a % N
    <2>1. a % N \in 0..(N - 1)
      BY ONLY <1>0, ModExists, a \in Int
    <2> QED BY <1>0, <2>1
  <1>9. PICK v \in Int : v = b % N
    <2>1. b % N \in 0..(N - 1)
      BY ONLY <1>0, ModExists, b \in Int
    <2> QED BY <1>0, <2>1
  <1>10. target = u - w
    BY <1>3, <1>7, <1>8
  <1>11. target % N = At(x)
    <2>1. ((a % N) - w) % N = (a - w) % N
      BY ONLY <1>0, ModParts, a \in Int, w \in Int
    <2>2. a - w = Base + x
      BY <1>0, <1>2, <1>4, <1>5
    <2> QED BY <1>8, <1>10, <2>1, <2>2 DEF At
  <1>12. Dist(target, k.exp) = x - p
    <2>1. PICK y \in Int : y = w + v
      OBVIOUS
    <2>2. PICK z \in Int : z = a - w
      OBVIOUS
    <2>3. ((a % N) - y) % N = (a - y) % N
      BY ONLY <1>0, ModParts, a \in Int, y \in Int, ZenonT(40)
    <2>4. a - y = z - v
      BY <2>1, <2>2
    <2>5. (z - (b % N)) % N = (z - b) % N
      BY ONLY <1>0, ModParts, z \in Int, b \in Int, ZenonT(40)
    <2>6. PICK d \in 0..(N - 1) : d = x - p
      BY <1>4
    <2>7. z - b = 0 * N + d
      BY <1>0, <1>1, <1>2, <1>4, <1>5, <1>6, <2>2, <2>6
    <2>8. PICK e \in Int : e = z - b
      BY <2>2
    <2>9. e % N = d
      BY <1>0, <2>7, <2>8, ModUnique
    <2>10. target - k.exp = u - y
      BY <1>7, <1>8, <1>9, <1>10, <2>1
    <2> QED BY <1>8, <1>9, <2>3, <2>4, <2>5, <2>6, <2>8, <2>9, <2>10 DEF Dist
  <1>13. leaving = {g \in Cached(k) : g.n < x}
    <2>1. ASSUME NEW g \in Cached(k) PROVE Ahead(k, g) < Dist(target, k.exp) <=> g.n < x
      <3>1. g \in Frames /\ g.n \in Nat /\ p <= g.n
        BY CachedIs, FrameIs DEF p
      <3>2. Ahead(k, g) = g.n - p
        BY <1>1, <3>1, Places DEF p
      <3> QED BY <1>1, <1>4, <1>12, <3>1, <3>2
    <2> QED BY <2>1
  <1> HIDE DEF leaving, target
  <1>14. Moved(c, k, Take(k, leaving, target, t).k, Take(k, leaving, target, t).emit, t)
    BY <1>4, <1>11, <1>13, TakeIs DEF p
  <1> QED BY <1>14 DEF TakePressure, leaving, target

\* The worker never goes beyond the last frame it has.
LEMMA StopIs ==
  ASSUME NEW c \in Classes, NEW k, QueueOk(c, k), k.init
  PROVE  Stop(k) \in 0..Window /\ Pos(k) + Stop(k) \in 1..(MaxN + 1)
  <1> DEFINE at(d) == \E f \in Cached(k) : Ahead(k, f) = d
             due(d) == \E i \in k.old : Ahead(k, k.slots[i]) >= d
             H == {d \in 0..Window : d = Window \/ (~at(d) /\ ~due(d))}
  <1>1. Window \in Nat /\ Pos(k) \in 1..(MaxN + 1) /\ MaxN \in Nat /\ k.exp \in 0..(SeqCount - 1)
    BY Sizes DEF QueueOk, Queues
  <1>2. H \subseteq Nat /\ H # {}
    <2>1. Window \in H
      BY <1>1
    <2>2. H \subseteq Nat
      BY <1>1
    <2> QED BY <2>1, <2>2
  <1>3. Min(H) \in H /\ \A n \in H : Min(H) <= n
    <2> HIDE DEF H
    <2> QED BY <1>2, MinIn
  <1>4. PICK m \in 0..Window : m = Min(H) /\ m \in H
    BY <1>3
  <1>5. \A x \in 0..(m - 1) : at(x) \/ due(x)
    <2> SUFFICES ASSUME NEW x \in 0..(m - 1), ~(at(x) \/ due(x)) PROVE FALSE
      OBVIOUS
    <2>1. x \in 0..Window /\ x < m
      BY <1>1
    <2>2. x \in H
      BY <2>1
    <2>3. m <= x
      BY <1>3, <1>4, <2>2
    <2> QED BY <1>1, <2>1, <2>3
  <1>6. /\ Stop(k) \in 0..Window
        /\ \A x \in 0..(Stop(k) - 1) : at(x) \/ due(x)
    <2>1. m = Window \/ (~at(m) /\ ~due(m))
      BY <1>4
    <2> QED BY <1>5, <2>1 DEF Stop
  <1>7. ASSUME NEW f \in Cached(k) PROVE Ahead(k, f) = f.n - Pos(k) /\ f.n \in 1..MaxN
    <2>1. f \in Frames /\ Pos(k) <= f.n
      BY CachedIs
    <2>2. f.n \in 1..MaxN /\ f.n >= Pos(k)
      BY <1>1, <2>1, FrameIs
    <2> QED BY <1>1, <2>1, <2>2, Places
  <1>8. CASE Stop(k) = 0
    BY <1>1, <1>8
  <1>9. CASE Stop(k) # 0
    <2>1. PICK x \in 0..(Stop(k) - 1) : x = Stop(k) - 1
      BY <1>1, <1>6, <1>9
    <2>2. \E f \in Cached(k) : Ahead(k, f) >= x
      <3>1. CASE at(x)
        <4>1. PICK f \in Cached(k) : Ahead(k, f) = x
          BY <3>1
        <4>2. x >= x
          BY <1>6
        <4> QED BY <4>1, <4>2
      <3>2. CASE due(x)
        <4>1. PICK i \in k.old : Ahead(k, k.slots[i]) >= x
          BY <3>2
        <4>2. k.slots[i] \in Cached(k)
          BY CachedIs
        <4> QED BY <4>1, <4>2
      <3> QED BY <1>6, <3>1, <3>2
    <2>3. PICK f \in Cached(k) : Ahead(k, f) >= x
      BY <2>2
    <2>4. f.n - Pos(k) >= x /\ f.n \in 1..MaxN
      BY <1>7, <2>3
    <2> QED BY <1>1, <1>6, <1>9, <2>1, <2>4
  <1> QED BY <1>6, <1>8, <1>9

\* What the worker takes.
LEMMA TakeWorkerIs ==
  ASSUME NEW c \in Classes, NEW k, QueueOk(c, k), NEW t \in Threads
  PROVE  Moved(c, k, TakeWorker(k, t).k, TakeWorker(k, t).emit, t)
  <1>1. CASE ~k.init \/ ~MayDeliver(k) \/ Cached(k) = {} \/ Stop(k) = 0
    <2>1. TakeWorker(k, t).k = k /\ TakeWorker(k, t).emit = {}
      BY <1>1 DEF TakeWorker
    <2> QED BY <2>1, MovedNot
  <1>2. CASE ~(~k.init \/ ~MayDeliver(k) \/ Cached(k) = {} \/ Stop(k) = 0)
    <2> DEFINE L == {f \in Cached(k) : Ahead(k, f) < Stop(k)}
               exp == k.exp + Stop(k)
    <2>0. k.init /\ ~k.busy
      BY <1>2 DEF MayDeliver
    <2>1. k.exp \in 0..(SeqCount - 1) /\ Pos(k) \in 1..(MaxN + 1) /\ Pos(k) \in Nat
      BY <2>0, Sizes DEF QueueOk, Queues
    <2>2. Stop(k) \in Nat /\ Pos(k) + Stop(k) \in 1..(MaxN + 1)
      BY <2>0, StopIs, Sizes
    <2>3. PICK x \in 1..(MaxN + 1) : x = Pos(k) + Stop(k) /\ Pos(k) <= x /\ x \in Int
      BY <2>1, <2>2
    <2>4. exp % SeqCount = At(x)
      BY <2>1, <2>2, <2>3, ExpPlus
    <2>5. L = {f \in Cached(k) : f.n < x}
      <3>1. ASSUME NEW f \in Cached(k) PROVE Ahead(k, f) < Stop(k) <=> f.n < x
        <4>1. f \in Frames /\ f.n \in Nat /\ Pos(k) <= f.n
          BY CachedIs, FrameIs
        <4>2. Ahead(k, f) = f.n - Pos(k)
          BY <2>1, <4>1, Places
        <4> QED BY <2>1, <2>2, <2>3, <4>1, <4>2
      <3> QED BY <3>1
    <2> HIDE DEF L, exp
    <2>6. Moved(c, k, Take(k, L, exp, t).k, Take(k, L, exp, t).emit, t)
      BY <2>0, <2>3, <2>4, <2>5, TakeIs
    <2> QED BY <1>2, <2>6 DEF TakeWorker, L, exp
  <1> QED BY <1>1, <1>2

-----------------------------------------------------------------------------
\* Groups and batches

\* Frames of one class that came with one call.
Incoming(c, S) ==
  /\ S \in SUBSET Frames /\ IsFiniteSet(S) /\ S # {}
  /\ \A f \in S : f.c = c /\ f.e # 0
  /\ \A f, g \in S : f.e = g.e

\* The queue of class c may take frames of the epoch.
InLife(c) == QueueOk(c, q[c]) /\ epoch \in 0..MaxEpoch /\ (q[c].init /\ Active => q[c].epoch = epoch)

\* What became of a frame when its queue k became k2 and the frames E left.
NotLost(f, k, k2, E) == f \in Cached(k2) \cup E \/ ~Matches(f) \/ (k.init /\ Late(k, f))

\* The group of one class: no live frame is lost, but for what is late.
LEMMA GroupIs ==
  ASSUME NEW c \in Classes, InLife(c), NEW S, Incoming(c, S), ~NeedsPressure(c, S),
         NEW t \in Threads, NEW b, NEW cap \in Int
  PROVE  LET g == Group(c, S, b, cap, t)
         IN /\ Moved(c, q[c], g.k, g.emit \cup g.ready, t)
            /\ g.emit = {} \/ g.ready = {}
            /\ g.cached \in BOOLEAN
            /\ \A f \in S : NotLost(f, q[c], g.k, g.emit \cup g.ready)
  <1>1. CASE Live(c, S) = {}
    <2>1. Group(c, S, b, cap, t) = [k |-> q[c], emit |-> {}, ready |-> {}, cached |-> FALSE]
      BY <1>1 DEF Group
    <2>2. \A f \in S : ~Matches(f)
      BY <1>1 DEF Live, InLife, Matches
    <2>3. Moved(c, q[c], q[c], {}, t)
      BY MovedNot DEF InLife
    <2> DEFINE g == Group(c, S, b, cap, t)
    <2>4. g.k = q[c] /\ g.emit = {} /\ g.ready = {} /\ g.cached = FALSE
      BY <2>1
    <2> HIDE DEF g
    <2>5. g.emit \cup g.ready = {}
      BY <2>4
    <2> QED BY <2>2, <2>3, <2>4, <2>5 DEF NotLost, g
  <1>2. CASE Live(c, S) # {}
    <2>1. PICK f \in S : Matches(f)
      BY <1>2 DEF Live
    <2>2. Active /\ f.e = epoch /\ epoch # 0 /\ \A g \in S : g.e = epoch /\ g.c = c
      BY <2>1 DEF Matches, Incoming
    <2>3. q[c].init => q[c].epoch = epoch
      BY <2>2 DEF InLife
    <2>4. Live(c, S) = S
      BY <2>2, <2>3 DEF Live, Matches
    <2>5. \A g \in S : ~Far(IF q[c].init THEN q[c] ELSE [q[c] EXCEPT !.exp = Sq(First(S))], g)
      BY DEF NeedsPressure
    <2>6. Waiting(c, q[c], S)
      BY <2>2, <2>3, <2>5 DEF Waiting, Incoming, InLife
    <2>7. Group(c, S, b, cap, t) = Process(q[c], S, b, cap, t)
      BY <1>2, <2>4 DEF Group
    <2> DEFINE g == Process(q[c], S, b, cap, t)
    <2>8. /\ Moved(c, q[c], g.k, g.emit \cup g.ready, t)
          /\ g.emit = {} \/ g.ready = {}
          /\ g.cached \in BOOLEAN
          /\ \A h \in S : h \in Cached(g.k) \cup g.emit \cup g.ready \/ (q[c].init /\ Late(q[c], h))
      BY <2>6, ProcessIs DEF InLife
    <2> HIDE DEF g
    <2>9. \A h \in S : NotLost(h, q[c], g.k, g.emit \cup g.ready)
      BY <2>8 DEF NotLost
    <2> QED BY <2>7, <2>8, <2>9 DEF g
  <1> QED BY <1>1, <1>2

\* The frames of a sequence that are of class c.
LEMMA OfIs ==
  ASSUME NEW s \in Seq(Frames), NEW c
  PROVE  /\ Of(s, c) \in SUBSET Frames /\ IsFiniteSet(Of(s, c)) /\ IsFiniteSet(ToSet(s))
         /\ Of(s, c) \in SUBSET ToSet(s) /\ ToSet(s) \in SUBSET Frames
         /\ \A f \in Of(s, c) : f.c = c
         /\ s # << >> => Head(s) \in Of(s, Head(s).c) /\ Head(s).c \in Classes
  <1>1. ToSet(s) = {s[i] : i \in 1..Len(s)} /\ ToSet(s) \in SUBSET Frames
    BY DEF ToSet
  <1>2. IsFiniteSet(ToSet(s))
    <2>1. IsFiniteSet(1..Len(s))
      BY FS_Interval
    <2> DEFINE F == [i \in 1..Len(s) |-> s[i]]
    <2>2. F \in Surjection(1..Len(s), ToSet(s))
      BY <1>1 DEF Surjection
    <2> QED BY <2>1, <2>2, FS_Surjection
  <1>3. IsFiniteSet(Of(s, c))
    <2>1. Of(s, c) \subseteq ToSet(s)
      BY DEF Of
    <2> QED BY <1>2, <2>1, FS_Subset
  <1>4. ASSUME s # << >> PROVE Head(s) \in Of(s, Head(s).c) /\ Head(s).c \in Classes
    <2>1. Head(s) \in ToSet(s) /\ Head(s) \in Frames
      BY <1>4, TailFacts
    <2> QED BY <2>1, FrameIs DEF Of
  <1> QED BY <1>1, <1>2, <1>3, <1>4 DEF Of

\* There are finitely many frames.
LEMMA FramesFinite == IsFiniteSet(Frames)
  <1> DEFINE P == Classes \X (1..MaxN)
             T == P \X (0..MaxEpoch)
             F == [x \in T |-> [c |-> x[1][1], n |-> x[1][2], e |-> x[2]]]
  <1>1. IsFiniteSet(Classes) /\ IsFiniteSet(1..MaxN) /\ IsFiniteSet(0..MaxEpoch)
    BY Sizes, FS_Interval DEF Classes
  <1>2. IsFiniteSet(P)
    BY <1>1, FS_Product
  <1>3. IsFiniteSet(T)
    BY <1>1, <1>2, FS_Product
  <1>4. F \in Surjection(T, Frames)
    <2>1. \A x \in T : F[x] \in Frames
      BY DEF Frames
    <2>2. ASSUME NEW f \in Frames PROVE \E x \in T : F[x] = f
      <3>1. f = [c |-> f.c, n |-> f.n, e |-> f.e] /\ f.c \in Classes /\ f.n \in 1..MaxN /\ f.e \in 0..MaxEpoch
        BY DEF Frames
      <3>2. <<<<f.c, f.n>>, f.e>> \in T
        BY <3>1
      <3>3. F[<<<<f.c, f.n>>, f.e>>] = f
        BY <3>1, <3>2
      <3> QED BY <3>2, <3>3
    <2> QED BY <2>1, <2>2 DEF Surjection
  <1> QED
    <2> HIDE DEF F, T
    <2> QED BY <1>3, <1>4, FS_Surjection

\* The recursive function behind Batch exists.
LEMMA BatchRun ==
  ASSUME NEW b \in Seq(Frames), NEW t
  PROVE  \E g : /\ Batch(b, t) = g[Len(b)]
                /\ g[0] = [q |-> q, emit |-> {}, ready |-> {}, cached |-> FALSE]
                /\ \A i \in 1..Len(b) :
                     g[i] = IF \E j \in 1..(i - 1) : b[j].c = b[i].c THEN g[i - 1]
                            ELSE BatchGroup(g[i - 1], b[i].c, b, t)
  <1> DEFINE None == [q |-> q, emit |-> {}, ready |-> {}, cached |-> FALSE]
             Step(r, i) == IF \E j \in 1..(i - 1) : b[j].c = b[i].c THEN r
                           ELSE BatchGroup(r, b[i].c, b, t)
             F(n, f) == [i \in 0..n |-> IF i = 0 THEN None ELSE Step(f[i - 1], i)]
             T == {n \in Nat : \E g : g = F(n, g)}
             run == CHOOSE f : f = F(Len(b), f)
  <1>1. Batch(b, t) = run[Len(b)]
    BY DEF Batch
  <1> HIDE DEF Step, None
  <1>2. 0 \in T
    <2> DEFINE g == [i \in 0..0 |-> None]
    <2>1. g = F(0, g)
      OBVIOUS
    <2> QED BY <2>1
  <1>3. \A n \in Nat : n \in T => n + 1 \in T
    <2> SUFFICES ASSUME NEW n \in Nat, n \in T
                 PROVE  \E g : g = F(n + 1, g)
      <3> HIDE DEF F
      <3> QED OBVIOUS
    <2>1. PICK g : g = F(n, g)
      <3> HIDE DEF F
      <3> QED OBVIOUS
    <2> DEFINE h == F(n + 1, g)
    <2>2. ASSUME NEW i \in 0..n PROVE h[i] = g[i]
      <3>1. h[i] = IF i = 0 THEN None ELSE Step(g[i - 1], i)
        OBVIOUS
      <3>2. F(n, g)[i] = IF i = 0 THEN None ELSE Step(g[i - 1], i)
        OBVIOUS
      <3> QED BY ONLY <2>1, <3>1, <3>2
    <2> HIDE DEF h
    <2>3. \A i \in 1..(n + 1) : h[i - 1] = g[i - 1]
      BY <2>2
    <2>4. F(n + 1, g) = F(n + 1, h)
      BY <2>3
    <2>5. h = F(n + 1, h)
      BY <2>4 DEF h
    <2> QED BY <2>5
  <1>4. Len(b) \in Nat
    OBVIOUS
  <1>5. Len(b) \in T
    <2> HIDE DEF T
    <2> QED BY <1>2, <1>3, <1>4, SetInduction
  <1>6. run = F(Len(b), run)
    <2> HIDE DEF F
    <2> QED BY <1>5
  <1> HIDE DEF run
  <1>7. run[0] = None
    BY <1>4, <1>6
  <1>8. ASSUME NEW i \in 1..Len(b) PROVE run[i] = Step(run[i - 1], i)
    <2>1. F(Len(b), run)[i] = Step(run[i - 1], i)
      BY <1>4
    <2> QED BY ONLY <1>6, <2>1
  <1> QED BY <1>1, <1>7, <1>8 DEF Step, None

\* What the groups of the classes C of a batch have done when r is their result.
Grouped(r, C, b, t) ==
  /\ r.q \in [Classes -> Queues] /\ r.cached \in BOOLEAN
  /\ r.emit \in SUBSET Frames /\ IsFiniteSet(r.emit) /\ r.ready \in SUBSET Frames
  /\ \A c \in Classes : Moved(c, q[c], r.q[c], {f \in r.emit \cup r.ready : f.c = c}, t)
  /\ \A c \in Classes \ C : r.q[c] = q[c] /\ \A f \in r.emit \cup r.ready : f.c # c
  /\ \A f \in r.emit, g \in r.ready : f.c # g.c
  /\ \A f \in ToSet(b) : f.c \in C => NotLost(f, q[f.c], r.q[f.c], r.emit \cup r.ready)

\* One group more.
LEMMA BatchGroupIs ==
  ASSUME q \in [Classes -> Queues], \A c \in Classes : InLife(c), NEW t \in Threads,
         NEW b \in Seq(Frames), NEW C, NEW d \in Classes, d \notin C, NEW r, Grouped(r, C, b, t),
         Incoming(d, Of(b, d)), ~NeedsPressure(d, Of(b, d))
  PROVE  Grouped(BatchGroup(r, d, b, t), C \cup {d}, b, t)
  <1> DEFINE cap == EmitMax - Cardinality(r.emit)
             g == Group(d, Of(b, d), b, cap, t)
             s == BatchGroup(r, d, b, t)
  <1>1. cap \in Int
    BY FS_CardinalityType, Sizes DEF Grouped
  <1>2. /\ Moved(d, q[d], g.k, g.emit \cup g.ready, t)
        /\ g.emit = {} \/ g.ready = {}
        /\ g.cached \in BOOLEAN
        /\ \A f \in Of(b, d) : NotLost(f, q[d], g.k, g.emit \cup g.ready)
    <2> HIDE DEF cap
    <2> QED BY <1>1, GroupIs
  <1>3. /\ s.q = [r.q EXCEPT ![d] = g.k] /\ s.emit = r.emit \cup g.emit
        /\ s.ready = r.ready \cup g.ready /\ s.cached = (r.cached \/ g.cached)
    BY DEF BatchGroup
  <1> HIDE DEF g, s
  <1>4. /\ g.k \in Queues /\ g.emit \in SUBSET Frames /\ g.ready \in SUBSET Frames
        /\ \A f \in g.emit \cup g.ready : f.c = d
    BY <1>2 DEF Moved, QueueOk
  <1>6. /\ s.q \in [Classes -> Queues] /\ s.cached \in BOOLEAN
        /\ s.emit \in SUBSET Frames /\ IsFiniteSet(s.emit) /\ s.ready \in SUBSET Frames
        /\ s.q[d] = g.k /\ \A c \in Classes \ {d} : s.q[c] = r.q[c]
    <2>1. r.q \in [Classes -> Queues] /\ r.cached \in BOOLEAN
      BY DEF Grouped
    <2>2. s.q \in [Classes -> Queues] /\ s.q[d] = g.k /\ \A c \in Classes \ {d} : s.q[c] = r.q[c]
      BY <1>3, <1>4, <2>1
    <2>3. s.cached \in BOOLEAN
      BY <1>2, <1>3, <2>1
    <2>4. s.emit \in SUBSET Frames /\ s.ready \in SUBSET Frames
      BY <1>3, <1>4 DEF Grouped
    <2>5. IsFiniteSet(s.emit)
      BY <2>4, FramesFinite, FS_Subset
    <2> QED BY <2>2, <2>3, <2>4, <2>5
  <1>7. ASSUME NEW c \in Classes
        PROVE  Moved(c, q[c], s.q[c], {f \in s.emit \cup s.ready : f.c = c}, t)
    <2>1. CASE c = d
      <3>1. {f \in s.emit \cup s.ready : f.c = d} = g.emit \cup g.ready
        BY <1>3, <1>4 DEF Grouped
      <3> QED BY <1>2, <1>6, <2>1, <3>1
    <2>2. CASE c # d
      <3>1. {f \in s.emit \cup s.ready : f.c = c} = {f \in r.emit \cup r.ready : f.c = c}
        BY <1>3, <1>4, <2>2
      <3> QED BY <1>6, <2>2, <3>1 DEF Grouped
    <2> QED BY <2>1, <2>2
  <1>8. ASSUME NEW c \in Classes \ (C \cup {d})
        PROVE  s.q[c] = q[c] /\ \A f \in s.emit \cup s.ready : f.c # c
    BY <1>3, <1>4, <1>6 DEF Grouped
  <1>9. ASSUME NEW f \in s.emit, NEW h \in s.ready PROVE f.c # h.c
    BY <1>2, <1>3, <1>4 DEF Grouped
  <1>10. ASSUME NEW f \in ToSet(b), f.c \in C \cup {d}
         PROVE  NotLost(f, q[f.c], s.q[f.c], s.emit \cup s.ready)
    <2>1. CASE f.c = d
      <3>1. NotLost(f, q[d], g.k, g.emit \cup g.ready)
        BY <1>2, <2>1 DEF Of
      <3> QED BY <1>3, <1>6, <2>1, <3>1 DEF NotLost
    <2>2. CASE f.c # d
      <3>1. NotLost(f, q[f.c], r.q[f.c], r.emit \cup r.ready) /\ f.c \in Classes
        BY <1>10, <2>2, OfIs, FrameIs DEF Grouped
      <3>2. s.q[f.c] = r.q[f.c]
        BY <1>6, <2>2, <3>1
      <3> QED BY <1>3, <3>1, <3>2 DEF NotLost
    <2> QED BY <2>1, <2>2
  <1> QED BY <1>6, <1>7, <1>8, <1>9, <1>10 DEF Grouped, s

\* All groups.
LEMMA BatchIs ==
  ASSUME q \in [Classes -> Queues], \A c \in Classes : InLife(c), NEW t \in Threads,
         NEW b \in Seq(Frames), \A f \in ToSet(b) : f.e # 0, \A f, g \in ToSet(b) : f.e = g.e,
         \A c \in GroupsOf(b) : ~NeedsPressure(c, Of(b, c))
  PROVE  Grouped(Batch(b, t), GroupsOf(b), b, t)
  <1>1. PICK g : /\ Batch(b, t) = g[Len(b)]
                 /\ g[0] = [q |-> q, emit |-> {}, ready |-> {}, cached |-> FALSE]
                 /\ \A i \in 1..Len(b) :
                      g[i] = IF \E j \in 1..(i - 1) : b[j].c = b[i].c THEN g[i - 1]
                             ELSE BatchGroup(g[i - 1], b[i].c, b, t)
    BY BatchRun
  <1> DEFINE C(n) == {b[j].c : j \in 1..n}
             T == {n \in Nat : n <= Len(b) => Grouped(g[n], C(n), b, t)}
  <1>2. ASSUME NEW i \in 1..Len(b)
        PROVE  LET d == b[i].c
               IN d \in Classes /\ Incoming(d, Of(b, d)) /\ ~NeedsPressure(d, Of(b, d))
    <2>1. b[i] \in ToSet(b) /\ b[i] \in Frames /\ b[i].c \in Classes /\ b[i].c \in GroupsOf(b)
      BY FrameIs DEF ToSet, GroupsOf
    <2>2. b[i] \in Of(b, b[i].c)
      BY <2>1 DEF Of
    <2>3. Incoming(b[i].c, Of(b, b[i].c))
      BY <2>1, <2>2, OfIs DEF Incoming
    <2> QED BY <2>1, <2>3
  <1>3. 0 \in T
    <2> DEFINE r == g[0]
    <2>1. r.q = q /\ r.emit = {} /\ r.ready = {} /\ r.cached = FALSE
      BY <1>1
    <2> HIDE DEF r
    <2>2. \A c \in Classes : Moved(c, q[c], q[c], {}, t)
      BY MovedNot DEF InLife
    <2>3. \A c \in Classes : {f \in r.emit \cup r.ready : f.c = c} = {}
      BY <2>1
    <2>4. IsFiniteSet({})
      BY FS_EmptySet
    <2>5. C(0) = {}
      OBVIOUS
    <2>6. Grouped(r, {}, b, t)
      <3>1. r.q \in [Classes -> Queues] /\ r.cached \in BOOLEAN
        BY <2>1
      <3>2. \A c \in Classes : Moved(c, q[c], r.q[c], {f \in r.emit \cup r.ready : f.c = c}, t)
        BY <2>1, <2>2, <2>3
      <3>3. r.emit \in SUBSET Frames /\ IsFiniteSet(r.emit) /\ r.ready \in SUBSET Frames
        BY <2>1, <2>4
      <3> QED BY <2>1, <3>1, <3>2, <3>3 DEF Grouped
    <2> HIDE DEF C
    <2> QED BY <2>5, <2>6 DEF r
  <1>4. \A n \in Nat : n \in T => n + 1 \in T
    <2> SUFFICES ASSUME NEW n \in Nat, n + 1 <= Len(b), Grouped(g[n], C(n), b, t)
                 PROVE  Grouped(g[n + 1], C(n + 1), b, t)
      <3> HIDE DEF C
      <3> QED OBVIOUS
    <2>1. n + 1 \in 1..Len(b) /\ (n + 1) - 1 = n
      OBVIOUS
    <2>2. C(n + 1) = C(n) \cup {b[n + 1].c}
      OBVIOUS
    <2>3. g[n + 1] = IF b[n + 1].c \in C(n) THEN g[n] ELSE BatchGroup(g[n], b[n + 1].c, b, t)
      <3>1. (\E j \in 1..n : b[j].c = b[n + 1].c) <=> b[n + 1].c \in C(n)
        OBVIOUS
      <3> QED BY <1>1, <2>1, <3>1
    <2> HIDE DEF C
    <2>4. CASE b[n + 1].c \in C(n)
      <3>1. C(n + 1) = C(n) /\ g[n + 1] = g[n]
        BY <2>2, <2>3, <2>4
      <3> QED BY <3>1
    <2>5. CASE b[n + 1].c \notin C(n)
      <3>1. g[n + 1] = BatchGroup(g[n], b[n + 1].c, b, t)
        BY <2>3, <2>5
      <3>2. PICK d \in Classes : d = b[n + 1].c /\ Incoming(d, Of(b, d)) /\ ~NeedsPressure(d, Of(b, d))
        BY <1>2, <2>1
      <3>3. PICK r : r = g[n] /\ Grouped(r, C(n), b, t)
        OBVIOUS
      <3>4. Grouped(BatchGroup(r, d, b, t), C(n) \cup {d}, b, t)
        BY <2>5, <3>2, <3>3, BatchGroupIs
      <3> QED BY <2>2, <3>1, <3>2, <3>3, <3>4
    <2> QED BY <2>4, <2>5
  <1>5. Len(b) \in T
    <2> HIDE DEF T
    <2>1. Len(b) \in Nat
      OBVIOUS
    <2> QED BY <1>3, <1>4, <2>1, SetInduction
  <1>6. C(Len(b)) = GroupsOf(b)
    BY DEF GroupsOf, ToSet
  <1> HIDE DEF C
  <1> QED BY <1>1, <1>5, <1>6

-----------------------------------------------------------------------------
\* What a step gives to a thread

\* Thread t gets the frames A to emit and B as READY; queues have moved or, being of a
\* life that is over, are cleared; a thread that begins to emit had nothing before.
Gives(t, A, B) ==
  /\ UNCHANGED <<epoch, valid, life, last>>
  /\ \A u \in Threads : out'[u] = IF u = t THEN out[u] \cup A ELSE out[u]
  /\ \A u \in Rx : ready'[u] = IF u = t THEN ready[u] \cup B ELSE ready[u]
  /\ A \in SUBSET Frames /\ B \in SUBSET Frames /\ \A f \in A, g \in B : f.c # g.c
  /\ B # {} => t \in Rx
  /\ \A c \in Classes :
       \/ Moved(c, q[c], q'[c], {f \in A \cup B : f.c = c}, t)
       \/ Expired(c) /\ q'[c] = EmptyQueue /\ \A f \in A \cup B : f.c # c
  /\ \A u \in Threads : pc'[u] = "emit" => pc[u] = "emit" \/ (u = t /\ out[t] = {})

\* A queue of an old life means that the Peer is being reset.
LEMMA OldLife ==
  ASSUME TypeOK, Parity, QueuesAged, NEW c \in Classes
  PROVE  /\ q[c].init => (q[c].epoch = epoch <=> Active)
         /\ Expired(c) => ~Active
         /\ Active /\ epoch # 0 => Aged(epoch)
  <1>1. /\ epoch \in Nat /\ life \in {"idle", "reset", "unregister", "resume", "leave"} /\ valid \in BOOLEAN
        /\ q[c] \in Queues
    BY Sizes DEF TypeOK
  <1>2. q[c].init => q[c].epoch \in Nat
    BY <1>1, Sizes DEF Queues
  <1>3. q[c].init => Aged(q[c].epoch)
    BY DEF QueuesAged
  <1>4. q[c].init => (q[c].epoch = epoch <=> Active)
    BY <1>1, <1>2, <1>3 DEF Aged, Parity, Active
  <1>5. Active /\ epoch # 0 => Aged(epoch)
    BY <1>1 DEF Aged, Parity, Active
  <1> QED BY <1>4, <1>5 DEF Expired

\* Such a step keeps what the invariant says of queues, carriers, lives and the handler.
LEMMA GivesIs ==
  ASSUME ReorderInv, NEW t \in Threads, NEW A, NEW B, Gives(t, A, B)
  PROVE  QueuesOk' /\ Carried' /\ Parity' /\ QueuesAged' /\ Delivered'
  <1> DEFINE E(c) == {f \in A \cup B : f.c = c}
             Cleared(c) == Expired(c) /\ q'[c] = EmptyQueue /\ \A f \in A \cup B : f.c # c
  <1>1. /\ UNCHANGED <<epoch, valid, life, last>>
        /\ \A u \in Threads : out'[u] = IF u = t THEN out[u] \cup A ELSE out[u]
        /\ \A u \in Rx : ready'[u] = IF u = t THEN ready[u] \cup B ELSE ready[u]
        /\ A \in SUBSET Frames /\ B \in SUBSET Frames /\ \A f \in A, g \in B : f.c # g.c
        /\ B # {} => t \in Rx
        /\ \A c \in Classes : Moved(c, q[c], q'[c], E(c), t) \/ Cleared(c)
        /\ \A u \in Threads : pc'[u] = "emit" => pc[u] = "emit" \/ (u = t /\ out[t] = {})
    BY DEF Gives
  <1>2. /\ TypeOK /\ Carried /\ Parity /\ QueuesAged /\ Delivered
        /\ \A c \in Classes : QueueOk(c, q[c])
    BY DEF ReorderInv, QueuesOk
  <1>3. /\ \A u \in Threads : out[u] \in SUBSET Frames
        /\ \A u \in Rx : ready[u] \in SUBSET Frames
        /\ \A u \in Rx : u \in Threads
        /\ \A c \in Classes : last[c].n \in Nat /\ last[c].e \in Nat
    BY <1>2, Sizes DEF TypeOK, Threads
  <1>3a. ASSUME NEW c \in Classes
         PROVE  /\ last[c].e <= epoch
                /\ ~q[c].init /\ Active /\ epoch # 0 => last[c].e # epoch
                /\ q[c].init /\ last[c].e = q[c].epoch => last[c].n < Pos(q[c])
                /\ q[c].init => Pos(q[c]) \in Nat
    BY <1>2, Sizes DEF Delivered, QueueOk
  <1>4. QueuesOk'
    <2> SUFFICES ASSUME NEW c \in Classes PROVE QueueOk(c, q'[c])
      BY DEF QueuesOk, QueueOk, Queues, Pos, Classes, Frames, Threads
    <2>1. CASE Moved(c, q[c], q'[c], E(c), t)
      BY <2>1 DEF Moved
    <2>2. CASE Cleared(c)
      BY <2>2, EmptyOk
    <2> QED BY <1>1, <2>1, <2>2
  <1>5. Parity'
    BY <1>1, <1>2 DEF Parity
  <1>6. QueuesAged'
    <2> SUFFICES ASSUME NEW c \in Classes, q'[c].init PROVE Aged(q'[c].epoch)
      BY <1>1 DEF QueuesAged, Aged
    <2>1. Moved(c, q[c], q'[c], E(c), t)
      <3>1. EmptyQueue.init = FALSE
        BY DEF EmptyQueue
      <3>2. ~Cleared(c)
        BY <3>1
      <3> QED BY <1>1, <3>2
    <2>2. CASE q[c].init
      BY <1>2, <2>1, <2>2 DEF Moved, QueuesAged
    <2>3. CASE ~q[c].init
      <3>1. q[c] = EmptyQueue
        BY <1>2, <2>3 DEF QueueOk
      <3>2. q'[c].epoch = epoch /\ Active /\ epoch # 0
        BY <2>1, <2>3, <3>1 DEF Moved, EmptyQueue
      <3> QED BY <1>2, <3>2, OldLife
    <2> QED BY <2>2, <2>3
  <1>7. ASSUME NEW c \in Classes, q[c].busy
        PROVE  /\ q[c].init /\ E(c) = {} /\ q'[c].init /\ q'[c].epoch = q[c].epoch
               /\ q'[c].busy = q[c].busy /\ q'[c].owner = q[c].owner
               /\ Pos(q[c]) \in Nat /\ Pos(q'[c]) \in Nat /\ Pos(q[c]) <= Pos(q'[c])
    <2>1. q[c].init
      <3>1. EmptyQueue.busy = FALSE
        BY DEF EmptyQueue
      <3> QED BY <1>2, <1>7, <3>1 DEF QueueOk
    <2>2. Moved(c, q[c], q'[c], E(c), t)
      BY <1>1, <1>7 DEF Expired
    <2>3. Pos(q[c]) \in Nat
      BY <1>2, <2>1, Sizes DEF QueueOk
    <2>4. Pos(q'[c]) \in Nat
      BY <2>1, <2>2, Sizes DEF Moved, QueueOk
    <2> HIDE DEF E
    <2> QED BY <1>7, <2>1, <2>2, <2>3, <2>4 DEF Moved
  <1>8. ASSUME NEW f \in A \cup B
        PROVE  /\ f \in Frames /\ f.c \in Classes /\ f.n \in Nat /\ f \in E(f.c)
               /\ Moved(f.c, q[f.c], q'[f.c], E(f.c), t)
               /\ ~q[f.c].busy /\ q'[f.c].init /\ q'[f.c].busy = TRUE /\ q'[f.c].owner = t
               /\ f.e = q'[f.c].epoch /\ f.n < Pos(q'[f.c])
               /\ q[f.c].init => Pos(q[f.c]) <= f.n
    <2>1. f \in Frames /\ f.c \in Classes /\ f.n \in Nat /\ f \in E(f.c)
      BY <1>1, FrameIs
    <2>2. Moved(f.c, q[f.c], q'[f.c], E(f.c), t)
      BY <1>1, <1>8, <2>1
    <2> HIDE DEF E
    <2> QED BY <2>1, <2>2 DEF Moved
  <1>9. \A u \in Threads : Carry(u)' = IF u = t THEN Carry(u) \cup A \cup B ELSE Carry(u)
    BY <1>1, <1>3 DEF Carry
  <1>10. ASSUME NEW u \in Threads, NEW f \in Carry(u)
         PROVE  /\ f \in Frames /\ f.c \in Classes /\ f.n \in Nat
                /\ q[f.c].init /\ q[f.c].busy /\ q[f.c].owner = u
                /\ f.e = q[f.c].epoch /\ f.n < Pos(q[f.c])
    <2>1. f \in Frames
      BY <1>3 DEF Carry
    <2> QED BY <1>2, <2>1, FrameIs DEF Carried
  <1>11. ASSUME NEW u \in Threads, NEW f \in Carry(u)'
         PROVE  /\ q'[f.c].init /\ q'[f.c].busy /\ q'[f.c].owner = u
                /\ f.e = q'[f.c].epoch /\ f.n < Pos(q'[f.c])
    <2>1. CASE f \in Carry(u)
      <3>1. /\ f.c \in Classes /\ f.n \in Nat
            /\ q[f.c].init /\ q[f.c].busy /\ q[f.c].owner = u
            /\ f.e = q[f.c].epoch /\ f.n < Pos(q[f.c])
        BY <1>10, <2>1
      <3>2. /\ q'[f.c].init /\ q'[f.c].epoch = q[f.c].epoch
            /\ q'[f.c].busy = q[f.c].busy /\ q'[f.c].owner = q[f.c].owner
            /\ Pos(q[f.c]) \in Nat /\ Pos(q'[f.c]) \in Nat /\ Pos(q[f.c]) <= Pos(q'[f.c])
        BY <1>7, <3>1
      <3> QED BY <3>1, <3>2
    <2>2. CASE f \notin Carry(u)
      <3>1. u = t /\ f \in A \cup B
        BY <1>9, <2>2
      <3> QED BY <1>8, <3>1
    <2> QED BY <2>1, <2>2
  <1>12. ASSUME NEW c \in Classes, q'[c].busy
         PROVE  \E u \in Threads : q'[c].owner = u /\ \E f \in Carry(u)' : f.c = c
    <2>1. CASE q[c].busy
      <3>1. PICK u \in Threads : q[c].owner = u /\ \E f \in Carry(u) : f.c = c
        BY <1>2, <2>1 DEF Carried
      <3>2. q'[c].owner = u
        BY <1>7, <2>1, <3>1
      <3>3. \E f \in Carry(u)' : f.c = c
        BY <1>9, <3>1
      <3> QED BY <3>2, <3>3
    <2>2. CASE ~q[c].busy
      <3>1. EmptyQueue.busy = FALSE
        BY DEF EmptyQueue
      <3>2. Moved(c, q[c], q'[c], E(c), t)
        BY <1>1, <1>12, <3>1
      <3>3. E(c) # {}
        <4> HIDE DEF E
        <4> QED BY <1>12, <2>2, <3>2 DEF Moved
      <3>4. PICK f \in A \cup B : f.c = c
        BY <3>3
      <3>5. q'[c].owner = t
        BY <1>8, <3>4
      <3>6. f \in Carry(t)'
        BY <1>9
      <3> QED BY <3>4, <3>5, <3>6
    <2> QED BY <2>1, <2>2
  <1>13. ASSUME NEW u \in Rx, NEW f \in out'[u], NEW g \in ready'[u]
         PROVE  f.c # g.c
    <2>1. u \in Threads
      BY <1>3
    <2>2. f \in out[u] \/ (u = t /\ f \in A)
      BY <1>1, <2>1
    <2>3. g \in ready[u] \/ (u = t /\ g \in B)
      BY <1>1
    <2>4. f \in out[u] => q[f.c].busy
      BY <1>10, <2>1 DEF Carry
    <2>5. g \in ready[u] => q[g.c].busy
      BY <1>10, <2>1 DEF Carry
    <2>6. f \in A => ~q[f.c].busy
      BY <1>8
    <2>7. g \in B => ~q[g.c].busy
      BY <1>8
    <2>8. f \in out[u] /\ g \in ready[u] => f.c # g.c
      BY <1>2 DEF Carried
    <2> QED BY <1>1, <2>2, <2>3, <2>4, <2>5, <2>6, <2>7, <2>8
  <1>14. Carried'
    BY <1>11, <1>12, <1>13 DEF Carried
  <1>15. ASSUME NEW f \in A \cup B, last[f.c].e = f.e PROVE last[f.c].n < f.n
    <2>1. /\ f.c \in Classes /\ f.n \in Nat /\ Moved(f.c, q[f.c], q'[f.c], E(f.c), t)
          /\ f.e = q'[f.c].epoch /\ (q[f.c].init => Pos(q[f.c]) <= f.n)
      BY <1>8
    <2>2. CASE q[f.c].init
      <3>1. q'[f.c].epoch = q[f.c].epoch
        <4> HIDE DEF E
        <4> QED BY <2>1, <2>2 DEF Moved
      <3>2. last[f.c].n < Pos(q[f.c])
        BY ONLY <1>3a, <1>15, <2>1, <2>2, <3>1
      <3>3. Pos(q[f.c]) \in Nat /\ last[f.c].n \in Nat /\ Pos(q[f.c]) <= f.n
        BY ONLY <1>3, <1>3a, <2>1, <2>2
      <3> QED BY <2>1, <3>2, <3>3
    <2>3. CASE ~q[f.c].init
      <3>1. q'[f.c].init
        BY <1>8
      <3>2. q'[f.c].epoch = epoch /\ Active /\ epoch # 0
        <4> HIDE DEF E
        <4> QED BY <2>1, <2>3, <3>1 DEF Moved
      <3>3. last[f.c].e # epoch
        BY ONLY <1>3a, <2>1, <2>3, <3>2
      <3> QED BY <1>15, <2>1, <3>2, <3>3
    <2> QED BY <2>2, <2>3
  <1>16. ASSUME NEW c \in Classes
         PROVE  /\ last[c].e <= epoch
                /\ ~q'[c].init /\ Active /\ epoch # 0 => last[c].e # epoch
                /\ q'[c].init /\ last[c].e = q'[c].epoch => last[c].n < Pos(q'[c])
    <2>1. /\ last[c].e <= epoch
          /\ ~q[c].init /\ Active /\ epoch # 0 => last[c].e # epoch
          /\ q[c].init /\ last[c].e = q[c].epoch => last[c].n < Pos(q[c])
      BY <1>2 DEF Delivered
    <2>2. CASE Moved(c, q[c], q'[c], E(c), t)
      <3> HIDE DEF E
      <3>1. CASE q[c].init
        <4>1. /\ Pos(q[c]) \in Nat /\ Pos(q'[c]) \in Nat /\ Pos(q[c]) <= Pos(q'[c])
              /\ q'[c].init /\ q'[c].epoch = q[c].epoch
          BY <1>2, <2>2, <3>1, Sizes DEF Moved, QueueOk
        <4> QED BY <1>3, <2>1, <3>1, <4>1
      <3>2. CASE ~q[c].init
        BY <2>1, <2>2, <3>2 DEF Moved
      <3> QED BY <3>1, <3>2
    <2>3. CASE Cleared(c)
      <3>1. ~q'[c].init
        BY <2>3 DEF EmptyQueue
      <3>2. ~Active
        BY <1>2, <2>3, OldLife
      <3> QED BY <2>1, <3>1, <3>2
    <2> QED BY <1>1, <2>2, <2>3
  <1>17. ASSUME NEW u \in Threads, NEW f \in out'[u], pc'[u] = "emit", last[f.c].e = f.e
         PROVE  last[f.c].n < f.n
    <2>1. f \in out[u] \/ (u = t /\ f \in A)
      BY <1>1
    <2>2. CASE f \in A
      BY <1>15, <1>17, <2>2
    <2>3. CASE f \in out[u]
      <3>1. pc[u] = "emit"
        BY <1>1, <1>17, <2>3
      <3> QED BY <1>2, <1>17, <2>3, <3>1 DEF Delivered
    <2> QED BY <2>1, <2>2, <2>3
  <1>18. ASSUME NEW u \in Rx, NEW f \in ready'[u], last[f.c].e = f.e
         PROVE  last[f.c].n < f.n
    <2>1. f \in ready[u] \/ (u = t /\ f \in B)
      BY <1>1
    <2>2. CASE f \in B
      BY <1>15, <1>18, <2>2
    <2>3. CASE f \in ready[u]
      BY <1>2, <1>18, <2>3 DEF Delivered
    <2> QED BY <2>1, <2>2, <2>3
  <1>19. Delivered'
    BY <1>1, <1>16, <1>17, <1>18 DEF Delivered, Active
  <1> QED BY <1>4, <1>5, <1>6, <1>14, <1>19

\* A step that leaves the queues and what was taken from them alone.
LEMMA QuietIs ==
  ASSUME ReorderInv, UNCHANGED <<epoch, valid, life, last, q, out, ready>>,
         \A u \in Threads : pc'[u] = "emit" => pc[u] = "emit"
  PROVE  QueuesOk' /\ Carried' /\ Parity' /\ QueuesAged' /\ Delivered'
  <1>1. Worker \in Threads
    BY DEF Threads
  <1>2. \A c \in Classes : Moved(c, q[c], q'[c], {}, Worker)
    BY MovedNot DEF ReorderInv, QueuesOk
  <1>3. \A c \in Classes : {f \in {} \cup {} : f.c = c} = {}
    OBVIOUS
  <1>4. Gives(Worker, {}, {})
    BY <1>2, <1>3 DEF Gives
  <1> QED BY <1>1, <1>4, GivesIs

-----------------------------------------------------------------------------
\* The steps of a receive thread

\* What a thread has still to do only gets less.
LEMMA TodoShrinks ==
  ASSUME TypeOK, TodoBegun, TodoOne, NEW t \in Rx, NEW s \in Seq(Frames),
         ToSet(s) \subseteq ToSet(todo[t]), todo' = [todo EXCEPT ![t] = s]
  PROVE  todo' \in [Rx -> Seq(Frames)] /\ TodoBegun' /\ TodoOne'
  <1>1. todo \in [Rx -> Seq(Frames)]
    BY DEF TypeOK
  <1>2. todo' \in [Rx -> Seq(Frames)] /\ \A u \in Rx : ToSet(todo'[u]) \subseteq ToSet(todo[u])
    BY <1>1
  <1> QED BY <1>2 DEF TodoBegun, TodoOne

\* The rest of a thread's work.
LEMMA WithoutIs ==
  ASSUME TypeOK, NEW t \in Rx, NEW S
  PROVE  /\ Without(todo[t], S) \in Seq(Frames)
         /\ ToSet(Without(todo[t], S)) = ToSet(todo[t]) \ S
  <1>1. todo[t] \in Seq(Frames)
    BY DEF TypeOK
  <1>2. /\ Without(todo[t], S) \in Seq(Frames)
        /\ ToSet(Without(todo[t], S)) = ToSet(todo[t]) \cap (ToSet(todo[t]) \ S)
    BY <1>1, SelectedFacts DEF Without
  <1> QED BY <1>2

\* Steps that only move a thread and the lock.
LEMMA PressureSteps ==
  ASSUME ReorderInv, NEW t \in Rx,
         SubmitPressure(t) \/ GroupPressure(t) \/ GroupsDone(t) \/ PressWaits(t) \/ PressDone(t) \/ Relock(t)
  PROVE  ReorderInv'
  <1>1. TypeOK /\ Control /\ TodoBegun /\ TodoOne /\ t \in Threads
    BY DEF ReorderInv, Threads
  <1>2. /\ UNCHANGED <<epoch, valid, win, life, last, q, out, ready, todo, alarm, cursor>>
        /\ \A u \in Threads : pc'[u] = "emit" => pc[u] = "emit"
        /\ \A u \in Threads \ {t} : pc'[u] = pc[u]
        /\ \A u \in Rx \ {t} : back'[u] = back[u]
    BY <1>1, ZenonT(40) DEF TypeOK, Control, SubmitPressure, GroupPressure, GroupsDone,
                            PressWaits, PressDone, Relock, peer
  <1>3. QueuesOk' /\ Carried' /\ Parity' /\ QueuesAged' /\ Delivered'
    BY <1>2, QuietIs
  <1>4. TodoBegun' /\ TodoOne'
    BY <1>1, <1>2 DEF TodoBegun, TodoOne
  <1>5. CASE SubmitPressure(t)
    <2>1. TypeOK'
      BY <1>1, <1>2, <1>5 DEF TypeOK, SubmitPressure
    <2>2. Control'
      BY <1>1, <1>2, <1>5 DEF Control, TypeOK, SubmitPressure
    <2> QED BY <1>3, <1>4, <2>1, <2>2 DEF ReorderInv
  <1>6. CASE GroupPressure(t)
    <2>1. Head(todo[t]).c \in Classes
      BY <1>1, <1>6, OfIs DEF GroupPressure, TypeOK
    <2>2. TypeOK'
      BY <1>1, <1>2, <1>6, <2>1 DEF TypeOK, GroupPressure
    <2>3. Control'
      BY <1>1, <1>2, <1>6 DEF Control, TypeOK, GroupPressure
    <2> QED BY <1>3, <1>4, <2>2, <2>3 DEF ReorderInv
  <1>7. CASE GroupsDone(t)
    <2>1. TypeOK'
      BY <1>1, <1>2, <1>7 DEF TypeOK, GroupsDone, BroadcastIf
    <2>2. Control'
      BY <1>1, <1>2, <1>7 DEF Control, TypeOK, GroupsDone
    <2> QED BY <1>3, <1>4, <2>1, <2>2 DEF ReorderInv
  <1>8. CASE PressWaits(t)
    <2>1. TypeOK'
      BY <1>1, <1>2, <1>8 DEF TypeOK, PressWaits
    <2>2. Control'
      BY <1>1, <1>2, <1>8 DEF Control, TypeOK, PressWaits, Pressing
    <2> QED BY <1>3, <1>4, <2>1, <2>2 DEF ReorderInv
  <1>9. CASE PressDone(t)
    <2>1. TypeOK'
      BY <1>1, <1>2, <1>9 DEF TypeOK, PressDone
    <2>2. Control'
      BY <1>1, <1>2, <1>9 DEF Control, TypeOK, PressDone
    <2> QED BY <1>3, <1>4, <2>1, <2>2 DEF ReorderInv
  <1>10. CASE Relock(t)
    <2>0. back[t] \in {"groups", "press"}
      BY <1>1, <1>10 DEF Control, Relock
    <2>1. TypeOK'
      BY <1>1, <1>2, <1>10, <2>0 DEF TypeOK, Relock
    <2>2. Control'
      BY <1>1, <1>2, <1>10, <2>0, SMTT(30) DEF Control, TypeOK, Relock
    <2> QED BY <1>3, <1>4, <2>1, <2>2 DEF ReorderInv
  <1> QED BY <1>5, <1>6, <1>7, <1>8, <1>9, <1>10

\* Frames that are let go of.
LEMMA PressDrops ==
  ASSUME ReorderInv, NEW t \in Rx, PressStale(t) \/ PressGivesUp(t)
  PROVE  ReorderInv'
  <1>1. TypeOK /\ Control /\ TodoBegun /\ TodoOne /\ t \in Threads
    BY DEF ReorderInv, Threads
  <1>2. /\ UNCHANGED <<epoch, valid, win, life, last, q, out, ready, alarm, cursor, pc, back, cur, wake, lock, waiting>>
        /\ pc[t] = "press"
        /\ todo' = [todo EXCEPT ![t] = Without(todo[t], {Pressed(t)})]
    BY <1>1 DEF TypeOK, PressStale, PressGivesUp, Pressing, peer
  <1>3. todo' \in [Rx -> Seq(Frames)] /\ TodoBegun' /\ TodoOne'
    <2>1. PICK s : s = Without(todo[t], {Pressed(t)})
      OBVIOUS
    <2>2. s \in Seq(Frames) /\ ToSet(s) \subseteq ToSet(todo[t])
      BY <1>1, <2>1, WithoutIs
    <2> QED BY <1>1, <1>2, <2>1, <2>2, TodoShrinks
  <1>4. QueuesOk' /\ Carried' /\ Parity' /\ QueuesAged' /\ Delivered'
    BY <1>2, QuietIs
  <1>5. TypeOK'
    BY <1>1, <1>2, <1>3 DEF TypeOK
  <1>6. Control'
    <2>1. \A u \in Rx \ {t} : todo'[u] = todo[u]
      BY <1>1, <1>2 DEF TypeOK
    <2> QED BY <1>1, <1>2, <2>1 DEF Control
  <1> QED BY <1>3, <1>4, <1>5, <1>6 DEF ReorderInv

\* The life of the frames of a thread's group, and that its queue may take them.
LEMMA GroupOf ==
  ASSUME ReorderInv, NEW t \in Rx, NEW c \in Classes
  PROVE  /\ InLife(c) /\ q \in [Classes -> Queues] /\ todo[t] \in Seq(Frames)
         /\ \A f \in ToSet(todo[t]) : f.e # 0
         /\ \A f, g \in ToSet(todo[t]) : f.e = g.e
         /\ \A S : S # {} /\ S \in SUBSET Of(todo[t], c) => Incoming(c, S)
  <1>1. TypeOK /\ Parity /\ QueuesAged /\ TodoBegun /\ TodoOne /\ QueueOk(c, q[c])
    BY DEF ReorderInv, QueuesOk
  <1>2. InLife(c)
    BY <1>1, OldLife DEF InLife, TypeOK
  <1>3. todo[t] \in Seq(Frames) /\ q \in [Classes -> Queues]
    BY <1>1 DEF TypeOK
  <1>4. ASSUME NEW S, S # {}, S \in SUBSET Of(todo[t], c) PROVE Incoming(c, S)
    <2>1. /\ Of(todo[t], c) \in SUBSET Frames /\ IsFiniteSet(Of(todo[t], c))
          /\ Of(todo[t], c) \in SUBSET ToSet(todo[t]) /\ \A f \in Of(todo[t], c) : f.c = c
      BY <1>3, OfIs
    <2>2. IsFiniteSet(S)
      BY <1>4, <2>1, FS_Subset
    <2> QED BY <1>1, <1>4, <2>1, <2>2 DEF Incoming, TodoBegun, TodoOne
  <1> QED BY <1>1, <1>2, <1>3, <1>4 DEF TodoBegun, TodoOne

\* All groups at once.
LEMMA SubmitPlainStep ==
  ASSUME ReorderInv, NEW t \in Rx, SubmitPlain(t)
  PROVE  /\ ReorderInv'
         /\ \A f \in ToSet(todo[t]) : NotLost(f, q[f.c], q'[f.c], out'[t] \cup ready'[t])
  <1> DEFINE r == Batch(todo[t], t)
  <1>1. TypeOK /\ Control /\ TodoBegun /\ TodoOne /\ t \in Threads
    BY DEF ReorderInv, Threads
  <1>2. /\ pc[t] = "submit" /\ Free
        /\ \A c \in GroupsOf(todo[t]) : ~NeedsPressure(c, Of(todo[t], c))
        /\ q' = r.q /\ BroadcastIf(r.cached)
        /\ out' = [out EXCEPT ![t] = r.emit] /\ ready' = [ready EXCEPT ![t] = r.ready]
        /\ todo' = [todo EXCEPT ![t] = <<>>]
        /\ back' = [back EXCEPT ![t] = "finish"]
        /\ pc' = [pc EXCEPT ![t] = IF r.emit = {} THEN "finish" ELSE "emit"]
        /\ UNCHANGED <<peer, cur, wake, lock, alarm, cursor, life, last>>
    BY DEF SubmitPlain
  <1>3. Grouped(r, GroupsOf(todo[t]), todo[t], t)
    <2>1. /\ \A c \in Classes : InLife(c)
          /\ q \in [Classes -> Queues] /\ todo[t] \in Seq(Frames)
          /\ \A f \in ToSet(todo[t]) : f.e # 0
          /\ \A f, g \in ToSet(todo[t]) : f.e = g.e
      <3>1. 0 \in Classes
        BY Sizes DEF Classes
      <3> QED BY <3>1, GroupOf
    <2>2. PICK b \in Seq(Frames) : b = todo[t]
      BY <2>1
    <2>3. Grouped(Batch(b, t), GroupsOf(b), b, t)
      BY <1>1, <1>2, <2>1, <2>2, BatchIs
    <2> QED BY <2>2, <2>3
  <1> HIDE DEF r
  <1>4. out[t] = {} /\ ready[t] = {}
    BY <1>1, <1>2 DEF Control
  <1>5. /\ q' \in [Classes -> Queues] /\ r.cached \in BOOLEAN
        /\ r.emit \in SUBSET Frames /\ r.ready \in SUBSET Frames
        /\ \A c \in Classes : Moved(c, q[c], q'[c], {f \in r.emit \cup r.ready : f.c = c}, t)
        /\ \A f \in r.emit, g \in r.ready : f.c # g.c
        /\ \A f \in ToSet(todo[t]) : f.c \in GroupsOf(todo[t]) =>
             NotLost(f, q[f.c], q'[f.c], r.emit \cup r.ready)
    BY <1>2, <1>3 DEF Grouped
  <1>6. /\ out' \in [Threads -> SUBSET Frames] /\ ready' \in [Rx -> SUBSET Frames]
        /\ out'[t] = r.emit /\ ready'[t] = r.ready
        /\ \A u \in Threads \ {t} : out'[u] = out[u] /\ pc'[u] = pc[u]
        /\ \A u \in Rx \ {t} : ready'[u] = ready[u] /\ todo'[u] = todo[u] /\ back'[u] = back[u]
        /\ pc'[t] = (IF r.emit = {} THEN "finish" ELSE "emit") /\ back'[t] = "finish" /\ todo'[t] = <<>>
    BY <1>1, <1>2, <1>5 DEF TypeOK
  <1>7. Gives(t, r.emit, r.ready)
    BY <1>2, <1>4, <1>5, <1>6, ZenonT(40) DEF Gives, peer
  <1>8. QueuesOk' /\ Carried' /\ Parity' /\ QueuesAged' /\ Delivered'
    BY <1>1, <1>7, GivesIs
  <1>9. todo' \in [Rx -> Seq(Frames)] /\ TodoBegun' /\ TodoOne'
    <2>1. <<>> \in Seq(Frames) /\ ToSet(<<>>) = {}
      BY DEF ToSet
    <2>2. PICK s \in Seq(Frames) : s = <<>> /\ ToSet(s) \subseteq ToSet(todo[t])
      BY <2>1
    <2> QED BY <1>1, <1>2, <2>2, TodoShrinks
  <1>10. TypeOK'
    BY <1>1, <1>2, <1>5, <1>6, <1>9 DEF TypeOK, peer, BroadcastIf
  <1>11. Control'
    <2>1. pc[t] = "submit" /\ t # Worker
      BY <1>1, <1>2 DEF Control
    <2> QED BY <1>1, <1>6, <2>1 DEF Control, Threads
  <1>12. ASSUME NEW f \in ToSet(todo[t]) PROVE NotLost(f, q[f.c], q'[f.c], out'[t] \cup ready'[t])
    <2>1. f.c \in GroupsOf(todo[t])
      BY DEF GroupsOf
    <2> QED BY <1>5, <1>6, <2>1
  <1> QED BY <1>8, <1>9, <1>10, <1>11, <1>12 DEF ReorderInv

\* One group that fits its window.
LEMMA GroupPlainStep ==
  ASSUME ReorderInv, NEW t \in Rx, GroupPlain(t)
  PROVE  /\ ReorderInv'
         /\ \A f \in ToSet(todo[t]) \ ToSet(todo'[t]) : NotLost(f, q[f.c], q'[f.c], out'[t] \cup ready'[t])
  <1> DEFINE c == Head(todo[t]).c
             S == Of(todo[t], c)
             g == Group(c, S, todo[t], EmitMax, t)
  <1>1. TypeOK /\ Control /\ TodoBegun /\ TodoOne /\ t \in Threads
    BY DEF ReorderInv, Threads
  <1>2. /\ pc[t] = "groups" /\ lock = t /\ todo[t] # <<>> /\ ~NeedsPressure(c, S)
        /\ q' = [q EXCEPT ![c] = g.k]
        /\ ready' = [ready EXCEPT ![t] = ready[t] \cup g.ready]
        /\ wake' = [wake EXCEPT ![t] = wake[t] \/ g.cached]
        /\ todo' = [todo EXCEPT ![t] = Without(todo[t], S)]
        /\ EmitUnlocked(t, g.emit, "groups")
        /\ UNCHANGED <<peer, cur, waiting, alarm, cursor, life, last>>
    BY <1>1 DEF GroupPlain, TypeOK
  <1>3. c \in Classes /\ S # {} /\ S \in SUBSET ToSet(todo[t]) /\ \A f \in S : f.c = c
    BY <1>1, <1>2, OfIs DEF TypeOK
  <1>4. /\ Moved(c, q[c], g.k, g.emit \cup g.ready, t)
        /\ g.emit = {} \/ g.ready = {}
        /\ g.cached \in BOOLEAN
        /\ \A f \in S : NotLost(f, q[c], g.k, g.emit \cup g.ready)
    <2>1. InLife(c) /\ Incoming(c, S)
      <3> HIDE DEF c
      <3> QED BY <1>3, GroupOf
    <2>2. EmitMax \in Int
      BY Sizes
    <2>3. PICK d \in Classes : d = c
      BY <1>3
    <2>4. PICK D : D = S
      OBVIOUS
    <2> QED BY <1>1, <1>2, <2>1, <2>2, <2>3, <2>4, GroupIs
  <1> HIDE DEF g, S, c
  <1>5. /\ g.k \in Queues /\ g.emit \in SUBSET Frames /\ g.ready \in SUBSET Frames
        /\ \A f \in g.emit \cup g.ready : f.c = c
    BY <1>4 DEF Moved, QueueOk
  <1>6. /\ q' \in [Classes -> Queues] /\ q'[c] = g.k /\ \A d \in Classes \ {c} : q'[d] = q[d]
        /\ wake' \in [Rx -> BOOLEAN] /\ ready' \in [Rx -> SUBSET Frames]
        /\ ready'[t] = ready[t] \cup g.ready
        /\ \A u \in Rx \ {t} : ready'[u] = ready[u] /\ todo'[u] = todo[u]
    BY <1>1, <1>2, <1>3, <1>4, <1>5 DEF TypeOK
  <1>7. out[t] = {} /\ t # Worker
    BY <1>1, <1>2 DEF Control
  <1>8. /\ out' \in [Threads -> SUBSET Frames] /\ out'[t] = g.emit
        /\ \A u \in Threads \ {t} : out'[u] = out[u] /\ pc'[u] = pc[u]
        /\ back' \in [Rx -> {"idle", "groups", "press", "finish"}] /\ back'[t] = "groups"
        /\ \A u \in Rx \ {t} : back'[u] = back[u]
        /\ pc'[t] = IF g.emit = {} THEN "groups" ELSE "emit"
        /\ lock' \in Rx \cup {NoThread}
        /\ pc' \in [Threads -> {"idle", "submit", "groups", "press", "relock", "finish",
                                "emit", "hand", "complete", "scan", "wait"}]
    BY <1>1, <1>2, <1>5 DEF TypeOK, EmitUnlocked
  <1>9. Gives(t, g.emit, g.ready)
    <2>1. ASSUME NEW d \in Classes
          PROVE  Moved(d, q[d], q'[d], {f \in g.emit \cup g.ready : f.c = d}, t)
      <3>1. CASE d = c
        <4>1. {f \in g.emit \cup g.ready : f.c = d} = g.emit \cup g.ready
          BY <1>5, <3>1
        <4> QED BY <1>4, <1>6, <3>1, <4>1
      <3>2. CASE d # c
        <4>1. {f \in g.emit \cup g.ready : f.c = d} = {}
          BY <1>5, <3>2
        <4>2. Moved(d, q[d], q[d], {}, t)
          BY MovedNot DEF ReorderInv, QueuesOk
        <4> QED BY <1>6, <3>2, <4>1, <4>2
      <3> QED BY <3>1, <3>2
    <2>2. \A f \in g.emit, h \in g.ready : f.c # h.c
      BY <1>4
    <2>3. \A u \in Threads : out'[u] = IF u = t THEN out[u] \cup g.emit ELSE out[u]
      BY <1>7, <1>8
    <2>4. \A u \in Rx : ready'[u] = IF u = t THEN ready[u] \cup g.ready ELSE ready[u]
      BY <1>6
    <2>5. \A u \in Threads : pc'[u] = "emit" => pc[u] = "emit" \/ (u = t /\ out[t] = {})
      BY <1>7, <1>8
    <2>6. UNCHANGED <<epoch, valid, life, last>>
      BY <1>2 DEF peer
    <2> QED BY <1>5, <2>1, <2>2, <2>3, <2>4, <2>5, <2>6 DEF Gives
  <1>10. QueuesOk' /\ Carried' /\ Parity' /\ QueuesAged' /\ Delivered'
    BY <1>1, <1>9, GivesIs
  <1>11. /\ todo' \in [Rx -> Seq(Frames)] /\ TodoBegun' /\ TodoOne'
         /\ ToSet(todo'[t]) = ToSet(todo[t]) \ S
    <2>1. PICK s : s = Without(todo[t], S)
      OBVIOUS
    <2>2. s \in Seq(Frames) /\ ToSet(s) = ToSet(todo[t]) \ S
      BY <1>1, <2>1, WithoutIs
    <2>3. todo' = [todo EXCEPT ![t] = s]
      BY <1>2, <2>1
    <2> QED BY <1>1, <2>2, <2>3, TodoShrinks DEF TypeOK
  <1>12. TypeOK'
    BY <1>1, <1>2, <1>6, <1>8, <1>11 DEF TypeOK, peer
  <1>13. Control'
    BY <1>1, <1>2, <1>6, <1>7, <1>8 DEF Control, Threads
  <1>14. ASSUME NEW f \in ToSet(todo[t]) \ ToSet(todo'[t])
         PROVE  NotLost(f, q[f.c], q'[f.c], out'[t] \cup ready'[t])
    <2>1. f \in S /\ f.c = c
      BY <1>3, <1>11
    <2>2. NotLost(f, q[c], g.k, g.emit \cup g.ready)
      BY <1>4, <2>1
    <2> QED BY <1>6, <1>8, <2>1, <2>2 DEF NotLost
  <1> QED BY <1>10, <1>11, <1>12, <1>13, <1>14 DEF ReorderInv

\* What has to leave for a frame far ahead.
LEMMA PressTakesStep ==
  ASSUME ReorderInv, NEW t \in Rx, PressTakes(t)
  PROVE  ReorderInv' /\ todo' = todo
  <1> DEFINE c == cur[t]
             f == Pressed(t)
             k == Recovered(q[c], f)
             g == TakePressure(k, f, t)
  <1>1. TypeOK /\ Control /\ TodoBegun /\ TodoOne /\ t \in Threads
    BY DEF ReorderInv, Threads
  <1>2. /\ Pressing(t) /\ Outside(k, f) /\ MayDeliver(k)
        /\ q' = [q EXCEPT ![c] = g.k]
        /\ EmitUnlocked(t, g.emit, "press")
        /\ UNCHANGED <<peer, todo, ready, cur, wake, waiting, alarm, cursor, life, last>>
    BY DEF PressTakes
  <1>3. c \in Classes /\ f \in Frames /\ pc[t] = "press"
    <2>1. Of(todo[t], c) # {} /\ pc[t] = "press" /\ c \in Classes /\ todo[t] \in Seq(Frames)
      BY <1>1, <1>2 DEF Pressing, TypeOK
    <2>2. First(Of(todo[t], c)) \in Of(todo[t], c) /\ Of(todo[t], c) \in SUBSET Frames
      BY <2>1, OfIs, FirstIs
    <2> QED BY <2>1, <2>2 DEF Pressed
  <1>4. Moved(c, q[c], g.k, g.emit, t)
    <2>1. QueueOk(c, q[c])
      BY <1>3 DEF ReorderInv, QueuesOk
    <2> HIDE DEF c, f
    <2>2. PICK k0 : k0 = q[c] /\ QueueOk(c, k0)
      BY <2>1
    <2>3. Moved(c, k0, Recovered(k0, f), {}, t)
      BY <1>3, <2>2, RecoveredIs
    <2>4. PICK k1 : k1 = k /\ Moved(c, k0, k1, {}, t)
      BY <2>2, <2>3
    <2>5. QueueOk(c, k1) /\ k1.init /\ ~k1.busy /\ Far(k1, f)
      BY <1>2, <2>4 DEF Moved, Outside, MayDeliver
    <2>6. Moved(c, k1, TakePressure(k1, f, t).k, TakePressure(k1, f, t).emit, t)
      BY <1>1, <1>3, <2>5, TakePressureIs
    <2> HIDE DEF k
    <2>7. Moved(c, k0, g.k, g.emit, t)
      BY <1>3, <2>2, <2>4, <2>6, MovedOn
    <2> QED BY <2>2, <2>7
  <1> HIDE DEF g, k, f, c
  <1>5. g.k \in Queues /\ g.emit \in SUBSET Frames /\ \A h \in g.emit : h.c = c
    BY <1>4 DEF Moved, QueueOk
  <1>6. q' \in [Classes -> Queues] /\ q'[c] = g.k /\ \A d \in Classes \ {c} : q'[d] = q[d]
    BY <1>1, <1>2, <1>3, <1>5 DEF TypeOK
  <1>7. out[t] = {} /\ t # Worker
    BY <1>1, <1>3 DEF Control
  <1>8. /\ out' \in [Threads -> SUBSET Frames] /\ out'[t] = g.emit
        /\ \A u \in Threads \ {t} : out'[u] = out[u] /\ pc'[u] = pc[u]
        /\ back' \in [Rx -> {"idle", "groups", "press", "finish"}] /\ back'[t] = "press"
        /\ \A u \in Rx \ {t} : back'[u] = back[u]
        /\ pc'[t] = IF g.emit = {} THEN "press" ELSE "emit"
        /\ lock' \in Rx \cup {NoThread}
        /\ pc' \in [Threads -> {"idle", "submit", "groups", "press", "relock", "finish",
                                "emit", "hand", "complete", "scan", "wait"}]
    BY <1>1, <1>2, <1>5 DEF TypeOK, EmitUnlocked
  <1>9. Gives(t, g.emit, {})
    <2>1. ASSUME NEW d \in Classes
          PROVE  Moved(d, q[d], q'[d], {h \in g.emit \cup {} : h.c = d}, t)
      <3>1. CASE d = c
        <4>1. {h \in g.emit \cup {} : h.c = d} = g.emit
          BY <1>5, <3>1
        <4> QED BY <1>4, <1>6, <3>1, <4>1
      <3>2. CASE d # c
        <4>1. {h \in g.emit \cup {} : h.c = d} = {}
          BY <1>5, <3>2
        <4>2. Moved(d, q[d], q[d], {}, t)
          BY MovedNot DEF ReorderInv, QueuesOk
        <4> QED BY <1>6, <3>2, <4>1, <4>2
      <3> QED BY <3>1, <3>2
    <2> QED BY <1>2, <1>5, <1>7, <1>8, <2>1 DEF Gives, peer
  <1>10. QueuesOk' /\ Carried' /\ Parity' /\ QueuesAged' /\ Delivered'
    BY <1>1, <1>9, GivesIs
  <1>11. TodoBegun' /\ TodoOne'
    BY <1>1, <1>2 DEF TodoBegun, TodoOne
  <1>12. TypeOK'
    BY <1>1, <1>2, <1>6, <1>8 DEF TypeOK, peer
  <1>13. Control'
    BY <1>1, <1>2, <1>3, <1>6, <1>7, <1>8 DEF Control, Threads
  <1> QED BY <1>2, <1>10, <1>11, <1>12, <1>13 DEF ReorderInv

\* The frames of the pressure group that fit the window now.
LEMMA PressPartialStep ==
  ASSUME ReorderInv, NEW t \in Rx, PressPartial(t)
  PROVE  /\ ReorderInv'
         /\ \A f \in ToSet(todo[t]) \ ToSet(todo'[t]) : NotLost(f, q[f.c], q'[f.c], out'[t] \cup ready'[t])
  <1> DEFINE c == cur[t]
             p == Pressed(t)
             k == Recovered(q[c], p)
             base == IF k.init THEN k ELSE [k EXCEPT !.exp = Sq(p)]
             S == {g \in Of(todo[t], c) : ~Far(base, g)}
             g == Process(k, Live(c, S), todo[t], EmitMax, t)
  <1>1. TypeOK /\ Control /\ TodoBegun /\ TodoOne /\ t \in Threads
    BY DEF ReorderInv, Threads
  <1>2. /\ Pressing(t) /\ p \in Live(c, {p}) /\ ~Outside(k, p)
        /\ q' = [q EXCEPT ![c] = g.k]
        /\ todo' = [todo EXCEPT ![t] = Without(todo[t], S)]
        /\ wake' = [wake EXCEPT ![t] = wake[t] \/ g.cached]
        /\ BroadcastIf(wake'[t])
        /\ EmitUnlocked(t, g.emit \cup g.ready, "press")
        /\ UNCHANGED <<peer, ready, cur, alarm, cursor, life, last>>
    BY <1>1 DEF PressPartial, TypeOK
  <1>3. /\ c \in Classes /\ pc[t] = "press" /\ Of(todo[t], c) \in SUBSET Frames
        /\ p \in Of(todo[t], c) /\ p \in Frames /\ \A h \in Of(todo[t], c) : p.n <= h.n /\ h.c = c
        /\ S \in SUBSET Of(todo[t], c) /\ S \in SUBSET ToSet(todo[t])
    <2>1. Of(todo[t], c) # {} /\ pc[t] = "press" /\ c \in Classes /\ todo[t] \in Seq(Frames)
      BY <1>1, <1>2 DEF Pressing, TypeOK
    <2>2. /\ First(Of(todo[t], c)) \in Of(todo[t], c) /\ Of(todo[t], c) \in SUBSET Frames
          /\ \A h \in Of(todo[t], c) : First(Of(todo[t], c)).n <= h.n
          /\ \A h \in Of(todo[t], c) : h.c = c
          /\ Of(todo[t], c) \in SUBSET ToSet(todo[t])
      BY <2>1, OfIs, FirstIs
    <2> QED BY <2>1, <2>2 DEF Pressed
  <1>4. /\ Moved(c, q[c], k, {}, t) /\ Cached(k) = Cached(q[c]) /\ QueueOk(c, q[c]) /\ QueueOk(c, k)
        /\ k = q[c] \/ (k.init /\ q[c].init /\ Pos(k) = p.n)
    <2>1. QueueOk(c, q[c])
      BY <1>3 DEF ReorderInv, QueuesOk
    <2>2. PICK k0 : k0 = q[c] /\ QueueOk(c, k0)
      BY <2>1
    <2> HIDE DEF c, p
    <2>3. /\ Moved(c, k0, Recovered(k0, p), {}, t)
          /\ Recovered(k0, p) = k0 \/ (k0.init /\ Pos(Recovered(k0, p)) = p.n /\ Cached(Recovered(k0, p)) = {})
          /\ Cached(Recovered(k0, p)) = Cached(k0)
      BY <1>3, <2>2, RecoveredIs
    <2>4. PICK k1 : k1 = k /\ k1 = Recovered(k0, p)
      BY <2>2
    <2> HIDE DEF k
    <2>5. /\ Moved(c, k0, k1, {}, t) /\ Cached(k1) = Cached(k0)
          /\ k1 = k0 \/ (k0.init /\ Pos(k1) = p.n)
      BY <2>3, <2>4
    <2>6. QueueOk(c, k1) /\ (k0.init => k1.init)
      BY <2>5 DEF Moved
    <2> QED BY <2>2, <2>4, <2>5, <2>6
  <1>5. p \in S
    <2>1. ASSUME k.init PROVE ~Far(base, p)
      BY <1>2, <2>1 DEF Outside
    <2>2. ASSUME ~k.init PROVE ~Far(base, p)
      <3> DEFINE e == [k EXCEPT !.exp = Sq(p)]
      <3>1. k = EmptyQueue
        BY <1>4, <2>2 DEF QueueOk
      <3>2. p.n \in 1..MaxN /\ Sq(p) = At(p.n) /\ p.n \in 0..(SeqCount - 1) /\ p.n \in 1..(MaxN + 1)
        BY <1>3, FrameIs, Sizes
      <3>3. e.exp = At(p.n)
        BY <3>1, <3>2 DEF EmptyQueue
      <3> HIDE DEF e
      <3>4. Pos(e) = p.n /\ e.exp \in 0..(SeqCount - 1)
        BY <3>2, <3>3, AtPos
      <3>5. ~Far(e, p)
        <4>1. Far(e, p) <=> p.n >= Pos(e) + Window
          BY <1>3, <3>2, <3>4, Places
        <4> QED BY <3>2, <3>4, <4>1, Sizes
      <3> QED BY <2>2, <3>5 DEF e
    <2> QED BY <1>3, <2>1, <2>2
  <1>6. /\ InLife(c) /\ Incoming(c, S) /\ Live(c, S) = S
    <2>1. InLife(c) /\ Incoming(c, S)
      <3> HIDE DEF c, S
      <3> QED BY <1>3, <1>5, GroupOf
    <2>2. Matches(p) /\ (q[c].init => q[c].epoch = p.e)
      BY <1>2, Zenon DEF Live
    <2>3. \A h \in S : h.e = p.e
      BY <1>5, <2>1 DEF Incoming
    <2>4. Live(c, S) = S
      BY <2>2, <2>3 DEF Live, Matches
    <2> QED BY <2>1, <2>4
  <1>7. Waiting(c, k, S)
    <2>1. Matches(p) /\ (q[c].init => q[c].epoch = p.e)
      BY <1>2 DEF Live
    <2>2. Active /\ p.e = epoch /\ \A h \in S : h.e = epoch /\ h.c = c /\ h.e # 0
      BY <1>5, <1>6, <2>1 DEF Matches, Incoming
    <2>3. k.init => k.epoch = epoch
      BY <1>4, <2>1, <2>2 DEF Moved
    <2>4. ~k.init => First(S) = p
      <3>1. First(S) \in S /\ \A h \in S : First(S).n <= h.n
        BY <1>3, <1>5, FirstIs
      <3>2. p.n = First(S).n /\ p.e = First(S).e /\ p.c = First(S).c /\ First(S) \in Frames
        <4>1. p.n <= First(S).n /\ First(S).n <= p.n /\ First(S) \in Frames
          BY <1>3, <1>5, <3>1
        <4>2. p.n \in Nat /\ First(S).n \in Nat
          BY <1>3, <4>1, FrameIs
        <4> QED BY <1>3, <2>2, <3>1, <4>1, <4>2
      <3> QED BY <1>3, <3>2, FrameIs
    <2>5. \A h \in S : ~Far(IF k.init THEN k ELSE [k EXCEPT !.exp = Sq(First(S))], h)
      BY <2>4
    <2>6. epoch # 0 /\ epoch \in 0..MaxEpoch /\ S # {}
      BY <1>5, <1>6, <2>2 DEF InLife
    <2> HIDE DEF S, k, c
    <2> QED BY <1>6, <2>2, <2>3, <2>5, <2>6 DEF Waiting, Incoming
  <1>8. /\ Moved(c, q[c], g.k, g.emit \cup g.ready, t)
        /\ g.cached \in BOOLEAN
        /\ \A f \in S : f \in Cached(g.k) \cup g.emit \cup g.ready \/ (q[c].init /\ Late(q[c], f))
    <2> HIDE DEF k, S, c
    <2>1. EmitMax \in Int
      BY Sizes
    <2>2. PICK b : b = todo[t]
      OBVIOUS
    <2> DEFINE r == Process(k, S, b, EmitMax, t)
    <2>3. /\ Moved(c, k, r.k, r.emit \cup r.ready, t)
          /\ r.cached \in BOOLEAN
          /\ \A f \in S : f \in Cached(r.k) \cup r.emit \cup r.ready \/ (k.init /\ Late(k, f))
      BY <1>1, <1>3, <1>4, <1>7, <2>1, ProcessIs
    <2>4. g = r
      BY <1>6, <2>2
    <2> HIDE DEF g, r
    <2>5. Moved(c, q[c], r.k, r.emit \cup r.ready, t)
      <3>1. PICK k0 : k0 = q[c]
        OBVIOUS
      <3>2. PICK E : E = r.emit \cup r.ready
        OBVIOUS
      <3> QED BY <1>3, <1>4, <2>3, <3>1, <3>2, MovedOn
    <2>6. ASSUME NEW f \in S, k.init, Late(k, f) PROVE q[c].init /\ Late(q[c], f)
      <3>1. CASE k = q[c]
        BY <2>6, <3>1
      <3>2. CASE Pos(k) = p.n
        <4>1. f \in Frames /\ f.n \in Nat /\ p.n \in Nat /\ p.n <= f.n
          BY <1>3, FrameIs
        <4>2. Pos(k) \in 1..(MaxN + 1) /\ k.exp \in 0..(SeqCount - 1)
          BY <1>4, <2>6 DEF QueueOk, Queues
        <4>3. f.n < Pos(k)
          BY <2>6, <4>1, <4>2, Places
        <4> QED BY <3>2, <4>1, <4>3
      <3> QED BY <1>4, <3>1, <3>2
    <2> QED BY <2>3, <2>4, <2>5, <2>6
  <1> HIDE DEF g, S, base, k, p, c
  <1>9. /\ g.k \in Queues /\ g.emit \cup g.ready \in SUBSET Frames
        /\ \A f \in g.emit \cup g.ready : f.c = c
    BY <1>8 DEF Moved, QueueOk
  <1>10. PICK A : A = g.emit \cup g.ready
    OBVIOUS
  <1>11. /\ q' \in [Classes -> Queues] /\ q'[c] = g.k /\ \A d \in Classes \ {c} : q'[d] = q[d]
         /\ wake' \in [Rx -> BOOLEAN]
    BY <1>1, <1>2, <1>3, <1>8, <1>9 DEF TypeOK
  <1>12. out[t] = {} /\ t # Worker
    BY <1>1, <1>3 DEF Control
  <1>13. /\ out' \in [Threads -> SUBSET Frames] /\ out'[t] = A
         /\ \A u \in Threads \ {t} : out'[u] = out[u] /\ pc'[u] = pc[u]
         /\ back' \in [Rx -> {"idle", "groups", "press", "finish"}] /\ back'[t] = "press"
         /\ \A u \in Rx \ {t} : back'[u] = back[u]
         /\ pc'[t] = IF A = {} THEN "press" ELSE "emit"
         /\ lock' \in Rx \cup {NoThread}
         /\ pc' \in [Threads -> {"idle", "submit", "groups", "press", "relock", "finish",
                                 "emit", "hand", "complete", "scan", "wait"}]
    BY <1>1, <1>2, <1>9, <1>10 DEF TypeOK, EmitUnlocked
  <1>14. Gives(t, A, {})
    <2>1. ASSUME NEW d \in Classes
          PROVE  Moved(d, q[d], q'[d], {h \in A \cup {} : h.c = d}, t)
      <3>1. CASE d = c
        <4>1. {h \in A \cup {} : h.c = d} = A
          BY <1>9, <1>10, <3>1
        <4> QED BY <1>8, <1>10, <1>11, <3>1, <4>1
      <3>2. CASE d # c
        <4>1. {h \in A \cup {} : h.c = d} = {}
          BY <1>9, <1>10, <3>2
        <4>2. Moved(d, q[d], q[d], {}, t)
          BY MovedNot DEF ReorderInv, QueuesOk
        <4> QED BY <1>11, <3>2, <4>1, <4>2
      <3> QED BY <3>1, <3>2
    <2> QED BY <1>2, <1>9, <1>10, <1>12, <1>13, <2>1 DEF Gives, peer
  <1>15. QueuesOk' /\ Carried' /\ Parity' /\ QueuesAged' /\ Delivered'
    BY <1>1, <1>14, GivesIs
  <1>16. /\ todo' \in [Rx -> Seq(Frames)] /\ TodoBegun' /\ TodoOne'
         /\ ToSet(todo'[t]) = ToSet(todo[t]) \ S
         /\ \A u \in Rx \ {t} : todo'[u] = todo[u]
    <2>1. PICK s : s = Without(todo[t], S)
      OBVIOUS
    <2>2. s \in Seq(Frames) /\ ToSet(s) = ToSet(todo[t]) \ S
      BY <1>1, <2>1, WithoutIs
    <2>3. todo' = [todo EXCEPT ![t] = s]
      BY <1>2, <2>1
    <2> QED BY <1>1, <2>2, <2>3, TodoShrinks DEF TypeOK
  <1>17. TypeOK'
    BY <1>1, <1>2, <1>11, <1>13, <1>16 DEF TypeOK, peer, BroadcastIf
  <1>18. Control'
    <2>1. ready' = ready
      BY <1>2
    <2>2. ASSUME NEW u \in Threads PROVE out'[u] # {} <=> pc'[u] \in {"emit", "hand", "complete"}
      BY ONLY <1>1, <1>13 DEF Control
    <2>3. ASSUME NEW u \in Rx, u # t PROVE out'[u] = out[u] /\ pc'[u] = pc[u] /\ back'[u] = back[u]
                                          /\ ready'[u] = ready[u] /\ todo'[u] = todo[u]
      BY ONLY <1>13, <1>16, <2>1, <2>3 DEF Threads
    <2>4. pc'[Worker] = pc[Worker]
      BY <1>12, <1>13 DEF Threads
    <2>5. ASSUME NEW u \in Rx
          PROVE  /\ pc'[u] \notin {"scan", "wait"}
                 /\ pc'[u] \in {"idle", "submit"} => ready'[u] = {}
                 /\ pc'[u] \in {"emit", "hand", "complete"} =>
                      back'[u] \in {"groups", "press", "finish"} \/ (back'[u] = "idle" /\ ready'[u] = {})
                 /\ pc'[u] = "relock" => back'[u] \in {"groups", "press"}
                 /\ todo'[u] # <<>> => pc'[u] \in {"submit", "groups", "press", "relock"} \/ 
                      (pc'[u] \in {"emit", "hand", "complete"} /\ back'[u] \in {"groups", "press"})
      <3>1. CASE u = t
        BY ONLY <1>13, <3>1
      <3>2. CASE u # t
        BY ONLY <1>1, <2>3, <3>2 DEF Control
      <3> QED BY <3>1, <3>2
    <2> QED BY ONLY <1>1, <2>2, <2>4, <2>5 DEF Control
  <1>19. ASSUME NEW f \in ToSet(todo[t]) \ ToSet(todo'[t])
         PROVE  NotLost(f, q[f.c], q'[f.c], out'[t] \cup ready'[t])
    <2>1. f \in S /\ f.c = c
      BY <1>3, <1>16
    <2>2. f \in Cached(g.k) \cup A \/ (q[c].init /\ Late(q[c], f))
      BY <1>8, <1>10, <2>1
    <2> QED BY <1>11, <1>13, <2>1, <2>2 DEF NotLost
  <1> QED BY <1>15, <1>16, <1>17, <1>18, <1>19 DEF ReorderInv

-----------------------------------------------------------------------------
\* The steps of the worker

\* What a scan comes by is a class.
LEMMA ClassAfter ==
  ASSUME NEW x \in Int
  PROVE  x % NC \in Classes
  <1>1. NC \in Nat \ {0} /\ NC \in Int
    BY Sizes
  <1>2. x % NC \in 0..(NC - 1)
    BY ONLY <1>1, ModExists, x \in Int
  <1> QED BY <1>2 DEF Classes

\* The least of a set of numbers.
LEMMA LeastIs ==
  ASSUME NEW S, S \subseteq Nat, S # {}
  PROVE  (CHOOSE i \in S : \A j \in S : i <= j) \in S
  <1>1. Min(S) \in S /\ \A n \in S : Min(S) <= n
    BY MinIn
  <1> QED BY <1>1

\* The worker wakes up.
LEMMA WorkerQuiet ==
  ASSUME ReorderInv, WorkerWakes
  PROVE  ReorderInv'
  <1>1. TypeOK /\ Control /\ TodoBegun /\ TodoOne /\ Worker \in Threads /\ Worker \notin Rx
    BY ReorderAssumption DEF ReorderInv, Threads
  <1>2. /\ UNCHANGED <<epoch, valid, win, life, last, q, out, todo, ready, back, cur, wake, lock, alarm, cursor>>
        /\ pc[Worker] = "wait" /\ pc' = [pc EXCEPT ![Worker] = "scan"] /\ waiting' = waiting \ {Worker}
    BY DEF WorkerWakes, peer, rxv
  <1>3. pc'[Worker] = "scan" /\ \A u \in Threads \ {Worker} : pc'[u] = pc[u]
    BY <1>1, <1>2 DEF TypeOK
  <1>4. QueuesOk' /\ Carried' /\ Parity' /\ QueuesAged' /\ Delivered'
    BY <1>2, <1>3, QuietIs
  <1>5. TypeOK'
    BY <1>1, <1>2 DEF TypeOK
  <1>6. Control'
    BY <1>1, <1>2, <1>3 DEF Control, Threads
  <1>7. TodoBegun' /\ TodoOne'
    BY <1>1, <1>2 DEF TodoBegun, TodoOne
  <1> QED BY <1>4, <1>5, <1>6, <1>7 DEF ReorderInv

\* The worker takes frames out of one queue, and clears old ones on its way.
LEMMA ScanStep ==
  ASSUME ReorderInv, Scan
  PROVE  ReorderInv'
  <1> DEFINE has(i) == ~Expired(ScanClass(i)) /\ Taken(ScanClass(i)).emit # {}
             hits == {i \in 0..(NC - 1) : has(i)}
             stop == CHOOSE i \in hits : \A j \in hits : i <= j
             c == ScanClass(stop)
             skipped(d) == Expired(d) /\ \E i \in 0..(stop - 1) : d = ScanClass(i)
             g == Taken(c)
  <1>1. TypeOK /\ Control /\ TodoBegun /\ TodoOne /\ Worker \in Threads /\ Worker \notin Rx
    BY ReorderAssumption DEF ReorderInv, Threads
  <1>2. /\ pc[Worker] = "scan" /\ hits # {}
        /\ q' = [d \in Classes |-> IF d = c THEN g.k ELSE IF skipped(d) THEN EmptyQueue ELSE q[d]]
        /\ cursor' = (c + 1) % NC
        /\ out' = [out EXCEPT ![Worker] = g.emit]
        /\ pc' = [pc EXCEPT ![Worker] = "emit"]
        /\ UNCHANGED <<peer, rxv, lock, waiting, alarm, life, last>>
    BY DEF Scan, CursorAfter
  <1>3. stop \in hits
    <2>1. hits \subseteq Nat /\ hits # {}
      BY <1>2, Sizes
    <2> HIDE DEF hits
    <2> QED BY <2>1, LeastIs
  <1>4. c \in Classes /\ ~Expired(c) /\ g.emit # {}
    <2> HIDE DEF stop
    <2>1. stop \in Int /\ has(stop)
      BY <1>3, Sizes
    <2>2. cursor \in Int
      BY <1>1, Sizes DEF TypeOK, Classes
    <2>3. c \in Classes
      BY <2>1, <2>2, ClassAfter DEF ScanClass
    <2> QED BY <2>1, <2>3
  <1>5. Moved(c, q[c], g.k, g.emit, Worker)
    <2>1. QueueOk(c, q[c])
      BY <1>4 DEF ReorderInv, QueuesOk
    <2> HIDE DEF c
    <2>2. PICK k : k = q[c] /\ QueueOk(c, k)
      BY <2>1
    <2>3. Moved(c, k, TakeWorker(k, Worker).k, TakeWorker(k, Worker).emit, Worker)
      BY <1>1, <1>4, <2>2, TakeWorkerIs
    <2> QED BY <2>2, <2>3 DEF Taken
  <1> HIDE DEF g, skipped, c, stop, hits
  <1>6. g.k \in Queues /\ g.emit \in SUBSET Frames /\ \A f \in g.emit : f.c = c
    BY <1>5 DEF Moved, QueueOk
  <1>7. /\ q' \in [Classes -> Queues] /\ q'[c] = g.k
        /\ \A d \in Classes \ {c} : q'[d] = q[d] \/ (Expired(d) /\ q'[d] = EmptyQueue)
    <2>1. EmptyQueue \in Queues
      <3>1. QueueOk(c, EmptyQueue)
        BY <1>4, EmptyOk
      <3> QED BY <3>1 DEF QueueOk
    <2>2. q \in [Classes -> Queues]
      BY <1>1 DEF TypeOK
    <2>3. \A d \in Classes : skipped(d) => Expired(d)
      BY DEF skipped
    <2> QED BY <1>2, <1>4, <1>6, <2>1, <2>2, <2>3
  <1>8. /\ out[Worker] = {} /\ out' \in [Threads -> SUBSET Frames] /\ out'[Worker] = g.emit
        /\ \A u \in Threads \ {Worker} : out'[u] = out[u] /\ pc'[u] = pc[u]
        /\ pc'[Worker] = "emit"
        /\ pc' \in [Threads -> {"idle", "submit", "groups", "press", "relock", "finish",
                                "emit", "hand", "complete", "scan", "wait"}]
    <2>1. out[Worker] = {}
      BY <1>1, <1>2 DEF Control
    <2> QED BY <1>1, <1>2, <1>6, <2>1 DEF TypeOK
  <1>9. Gives(Worker, g.emit, {})
    <2>1. ASSUME NEW d \in Classes
          PROVE  \/ Moved(d, q[d], q'[d], {f \in g.emit \cup {} : f.c = d}, Worker)
                 \/ Expired(d) /\ q'[d] = EmptyQueue /\ \A f \in g.emit \cup {} : f.c # d
      <3>1. CASE d = c
        <4>1. {f \in g.emit \cup {} : f.c = d} = g.emit
          BY <1>6, <3>1
        <4> QED BY <1>5, <1>7, <3>1, <4>1
      <3>2. CASE d # c
        <4>1. {f \in g.emit \cup {} : f.c = d} = {} /\ \A f \in g.emit \cup {} : f.c # d
          BY <1>6, <3>2
        <4>2. Moved(d, q[d], q[d], {}, Worker)
          BY MovedNot DEF ReorderInv, QueuesOk
        <4> QED BY <1>7, <3>2, <4>1, <4>2
      <3> QED BY <3>1, <3>2
    <2> QED BY <1>1, <1>2, <1>6, <1>8, <2>1, ZenonT(40) DEF Gives, peer, rxv
  <1>10. QueuesOk' /\ Carried' /\ Parity' /\ QueuesAged' /\ Delivered'
    BY <1>1, <1>9, GivesIs
  <1>11. TodoBegun' /\ TodoOne'
    BY <1>1, <1>2 DEF TodoBegun, TodoOne, rxv
  <1>12. TypeOK'
    <2>1. cursor' \in Classes
      <3>1. c \in Int
        BY <1>4, Sizes DEF Classes
      <3> QED BY <1>2, <3>1, ClassAfter
    <2> QED BY <1>1, <1>2, <1>7, <1>8, <2>1 DEF TypeOK, peer, rxv
  <1>13. Control'
    BY <1>1, <1>2, <1>4, <1>8 DEF Control, Threads, rxv
  <1> QED BY <1>10, <1>11, <1>12, <1>13 DEF ReorderInv

\* Nothing is due.
LEMMA ScanNothingStep ==
  ASSUME ReorderInv, ScanNothing
  PROVE  ReorderInv'
  <1>1. TypeOK /\ Control /\ TodoBegun /\ TodoOne /\ Worker \in Threads /\ Worker \notin Rx
    BY ReorderAssumption DEF ReorderInv, Threads
  <1>2. /\ pc[Worker] = "scan"
        /\ q' = [c \in Classes |-> IF Expired(c) THEN EmptyQueue ELSE q[c]]
        /\ alarm' = \E c \in Classes : Deadline(c)
        /\ waiting' = waiting \cup {Worker} /\ pc' = [pc EXCEPT ![Worker] = "wait"]
        /\ UNCHANGED <<peer, rxv, out, lock, cursor, life, last>>
    BY DEF ScanNothing
  <1>3. q' \in [Classes -> Queues]
    <2>1. \A c \in Classes : EmptyQueue \in Queues
      BY EmptyOk DEF QueueOk
    <2>2. q \in [Classes -> Queues]
      BY <1>1 DEF TypeOK
    <2> QED BY <1>2, <2>1, <2>2
  <1>4. pc'[Worker] = "wait" /\ \A u \in Threads \ {Worker} : pc'[u] = pc[u]
    BY <1>1, <1>2 DEF TypeOK
  <1>5. Gives(Worker, {}, {})
    <2>1. ASSUME NEW d \in Classes
          PROVE  \/ Moved(d, q[d], q'[d], {f \in {} \cup {} : f.c = d}, Worker)
                 \/ Expired(d) /\ q'[d] = EmptyQueue /\ \A f \in {} \cup {} : f.c # d
      <3>1. {f \in {} \cup {} : f.c = d} = {}
        OBVIOUS
      <3>2. Moved(d, q[d], q[d], {}, Worker)
        BY MovedNot DEF ReorderInv, QueuesOk
      <3> QED BY <1>2, <3>1, <3>2
    <2> QED BY <1>1, <1>2, <1>4, <2>1 DEF Gives, peer, rxv
  <1>6. QueuesOk' /\ Carried' /\ Parity' /\ QueuesAged' /\ Delivered'
    BY <1>1, <1>5, GivesIs
  <1>7. TodoBegun' /\ TodoOne'
    BY <1>1, <1>2 DEF TodoBegun, TodoOne, rxv
  <1>8. alarm' \in BOOLEAN
    BY <1>2
  <1>9. TypeOK'
    BY <1>1, <1>2, <1>3, <1>8 DEF TypeOK, peer, rxv
  <1>10. Control'
    BY <1>1, <1>2, <1>4 DEF Control, Threads, rxv
  <1> QED BY <1>6, <1>7, <1>9, <1>10 DEF ReorderInv

\* A deadline passes.
LEMMA ExpireStep ==
  ASSUME ReorderInv, NEW c \in Classes, NEW i \in 0..(Window - 1), Expire(c, i)
  PROVE  ReorderInv'
  <1> DEFINE k == [q[c] EXCEPT !.old = q[c].old \cup {i}]
  <1>1. TypeOK /\ Control /\ TodoBegun /\ TodoOne /\ Worker \in Threads /\ Worker \notin Rx
    BY ReorderAssumption DEF ReorderInv, Threads
  <1>2. /\ q[c].slots[i] # NoFrame /\ q' = [q EXCEPT ![c] = k]
        /\ UNCHANGED <<peer, pc, rxv, out, lock, waiting, alarm, cursor, life, last>>
    BY <1>1 DEF Expire, TypeOK
  <1>3. Moved(c, q[c], k, {}, Worker)
    <2>1. QueueOk(c, q[c])
      BY DEF ReorderInv, QueuesOk
    <2>2. q[c].init
      <3>1. EmptyQueue.slots[i] = NoFrame
        BY DEF EmptyQueue
      <3> QED BY <1>2, <2>1, <3>1 DEF QueueOk
    <2>3. q[c] \in Queues /\ Pos(q[c]) \in 1..(MaxN + 1)
      BY <2>1, <2>2 DEF QueueOk
    <2>4. /\ k \in Queues /\ k.init = q[c].init /\ k.epoch = q[c].epoch /\ k.exp = q[c].exp
          /\ k.busy = q[c].busy /\ k.owner = q[c].owner /\ k.slots = q[c].slots
          /\ k.old = q[c].old \cup {i}
      BY <2>3 DEF Queues
    <2> HIDE DEF k
    <2>5. Pos(k) = Pos(q[c]) /\ Pos(k) \in Nat
      BY <2>3, <2>4, Sizes DEF Pos
    <2>6. QueueOk(c, k)
      BY <1>2, <2>1, <2>2, <2>4, <2>5 DEF QueueOk
    <2> QED BY <2>2, <2>4, <2>5, <2>6 DEF Moved
  <1>4. k \in Queues
    BY <1>3 DEF Moved, QueueOk
  <1> HIDE DEF k
  <1>5. q' \in [Classes -> Queues] /\ q'[c] = k /\ \A d \in Classes \ {c} : q'[d] = q[d]
    BY <1>1, <1>2, <1>4 DEF TypeOK
  <1>6. Gives(Worker, {}, {})
    <2>1. ASSUME NEW d \in Classes
          PROVE  Moved(d, q[d], q'[d], {f \in {} \cup {} : f.c = d}, Worker)
      <3>1. {f \in {} \cup {} : f.c = d} = {}
        OBVIOUS
      <3>2. Moved(d, q[d], q[d], {}, Worker)
        BY MovedNot DEF ReorderInv, QueuesOk
      <3> QED BY <1>3, <1>5, <3>1, <3>2
    <2> QED BY <1>1, <1>2, <2>1 DEF Gives, peer, rxv
  <1>7. QueuesOk' /\ Carried' /\ Parity' /\ QueuesAged' /\ Delivered'
    BY <1>1, <1>6, GivesIs
  <1>8. TodoBegun' /\ TodoOne'
    BY <1>1, <1>2 DEF TodoBegun, TodoOne, rxv
  <1>9. TypeOK'
    BY <1>1, <1>2, <1>5 DEF TypeOK, peer, rxv
  <1>10. Control'
    BY <1>1, <1>2 DEF Control, rxv
  <1> QED BY <1>7, <1>8, <1>9, <1>10 DEF ReorderInv

-----------------------------------------------------------------------------
\* Delivering

\* The newest of some frames.
LEMMA LatestIs ==
  ASSUME NEW S \in SUBSET Frames, S # {}
  PROVE  (CHOOSE f \in S : \A g \in S : g.n <= f.n) \in S
  <1> DEFINE T == {f.n : f \in S}
  <1>1. T \subseteq 0..MaxN /\ T # {}
    BY FrameIs, Sizes
  <1>2. PICK M \in T : \A n \in T : n <= M
    <2> HIDE DEF T
    <2> QED BY <1>1, Sizes, MaxExists
  <1>3. PICK f \in S : f.n = M
    OBVIOUS
  <1>4. \A g \in S : g.n <= f.n
    BY <1>2, <1>3
  <1> QED BY <1>4

\* The handler starts: what it is given is new to it, and ahead of what other threads have.
LEMMA HandStep ==
  ASSUME ReorderInv, NEW t \in Threads, Hand(t)
  PROVE  ReorderInv'
  <1> DEFINE S == {f \in out[t] : Matches(f)}
             C(c) == {f \in S : f.c = c}
             L(c) == CHOOSE f \in C(c) : \A g \in C(c) : g.n <= f.n
  <1>1. /\ TypeOK /\ Control /\ TodoBegun /\ TodoOne /\ Carried /\ Parity /\ QueuesAged /\ Delivered
        /\ QueuesOk /\ \A u \in Rx : u \in Threads
    BY DEF ReorderInv, Threads
  <1>2. /\ pc[t] = "emit" /\ pc' = [pc EXCEPT ![t] = IF S = {} THEN "complete" ELSE "hand"]
        /\ last' = [c \in Classes |-> IF C(c) = {} THEN last[c] ELSE [e |-> L(c).e, n |-> L(c).n]]
        /\ UNCHANGED <<peer, q, rxv, out, lock, waiting, alarm, cursor, life>>
    BY DEF Hand
  <1>3. ASSUME NEW c \in Classes, C(c) # {}
        PROVE  \E f \in out[t] : f \in Frames /\ f.c = c /\ f.e = epoch /\ last'[c] = [e |-> f.e, n |-> f.n]
    <2>1. C(c) \in SUBSET Frames
      BY <1>1 DEF TypeOK
    <2>2. L(c) \in C(c)
      <3> HIDE DEF C
      <3> QED BY <1>3, <2>1, LatestIs
    <2>3. last'[c] = [e |-> L(c).e, n |-> L(c).n]
      BY <1>2, <1>3
    <2> HIDE DEF L
    <2> QED BY <2>1, <2>2, <2>3 DEF Matches
  <1>4. ASSUME NEW c \in Classes, C(c) = {} PROVE last'[c] = last[c]
    BY <1>2, <1>4
  <1>5. pc'[t] \in {"hand", "complete"} /\ \A u \in Threads \ {t} : pc'[u] = pc[u]
    BY <1>1, <1>2 DEF TypeOK
  <1>6. last' \in [Classes -> [e: 0..MaxEpoch, n: 0..MaxN]]
    <2>1. DOMAIN last' = Classes /\ last' = [c \in Classes |-> last'[c]]
      BY <1>2
    <2>2. ASSUME NEW c \in Classes PROVE last'[c] \in [e: 0..MaxEpoch, n: 0..MaxN]
      <3>1. CASE C(c) = {}
        BY <1>1, <1>4, <3>1 DEF TypeOK
      <3>2. CASE C(c) # {}
        <4>1. PICK f \in out[t] : f \in Frames /\ last'[c] = [e |-> f.e, n |-> f.n]
          BY <1>3, <3>2
        <4>2. f.e \in 0..MaxEpoch /\ f.n \in 0..MaxN
          BY <4>1, FrameIs, Sizes
        <4> QED BY <4>1, <4>2
      <3> QED BY <3>1, <3>2
    <2> HIDE DEF C, L
    <2> QED BY <2>1, <2>2
  <1> HIDE DEF C, L, S
  <1>7. ASSUME NEW u \in Threads, NEW f \in Carry(u)
        PROVE  /\ f \in Frames /\ f.c \in Classes /\ q[f.c].init /\ q[f.c].owner = u
               /\ f.e = q[f.c].epoch /\ f.n < Pos(q[f.c])
    <2>1. f \in Frames
      BY <1>1, <1>7 DEF Carry, TypeOK
    <2> QED BY <1>1, <1>7, <2>1, FrameIs DEF Carried
  <1>8. ASSUME NEW c \in Classes
        PROVE  /\ last'[c].e <= epoch
               /\ ~q[c].init /\ Active /\ epoch # 0 => last'[c].e # epoch
               /\ q[c].init /\ last'[c].e = q[c].epoch => last'[c].n < Pos(q[c])
    <2>1. CASE C(c) = {}
      BY <1>1, <1>4, <2>1 DEF Delivered
    <2>2. CASE C(c) # {}
      <3>1. PICK f \in out[t] : f \in Frames /\ f.c = c /\ f.e = epoch /\ last'[c] = [e |-> f.e, n |-> f.n]
        BY <1>3, <2>2
      <3>2. q[c].init /\ f.n < Pos(q[c])
        BY <1>7, <3>1 DEF Carry
      <3>3. epoch <= epoch
        BY <1>1, Sizes DEF TypeOK
      <3> QED BY <3>1, <3>2, <3>3
    <2> QED BY <2>1, <2>2
  <1>9. ASSUME NEW u \in Threads, NEW f \in out[u], pc'[u] = "emit", last'[f.c].e = f.e
        PROVE  last'[f.c].n < f.n
    <2>1. u # t /\ pc[u] = "emit"
      BY <1>5, <1>9
    <2>2. f.c \in Classes /\ q[f.c].owner = u
      BY <1>7 DEF Carry
    <2>3. CASE C(f.c) = {}
      BY <1>1, <1>4, <1>9, <2>1, <2>2, <2>3 DEF Delivered
    <2>4. CASE C(f.c) # {}
      <3>1. PICK g \in out[t] : g.c = f.c
        BY <1>3, <2>2, <2>4
      <3>2. q[g.c].owner = t
        BY <1>7 DEF Carry
      <3> QED BY <2>1, <2>2, <3>1, <3>2
    <2> QED BY <2>3, <2>4
  <1>10. ASSUME NEW u \in Rx, NEW f \in ready[u], last'[f.c].e = f.e
         PROVE  last'[f.c].n < f.n
    <2>1. f.c \in Classes /\ q[f.c].owner = u
      BY <1>1, <1>7 DEF Carry
    <2>2. CASE C(f.c) = {}
      BY <1>1, <1>4, <1>10, <2>1, <2>2 DEF Delivered
    <2>3. CASE C(f.c) # {}
      <3>1. PICK g \in out[t] : g.c = f.c
        BY <1>3, <2>1, <2>3
      <3>2. q[g.c].owner = t
        BY <1>7 DEF Carry
      <3>3. t = u
        BY <2>1, <3>1, <3>2
      <3> QED BY <1>1, <3>1, <3>3 DEF Carried
    <2> QED BY <2>2, <2>3
  <1>11. Delivered'
    BY <1>2, <1>8, <1>9, <1>10 DEF Delivered, Active, Pos, peer, rxv
  <1>12. QueuesOk' /\ Carried' /\ Parity' /\ QueuesAged' /\ TodoBegun' /\ TodoOne'
    BY <1>1, <1>2 DEF QueuesOk, QueueOk, Pos, Carried, Carry, Parity, QueuesAged, Aged, TodoBegun, TodoOne, peer, rxv
  <1>13. TypeOK'
    BY <1>1, <1>2, <1>6 DEF TypeOK, peer, rxv
  <1>14. Control'
    <2>1. out[t] # {}
      BY <1>1, <1>2 DEF Control
    <2> QED BY <1>1, <1>2, <1>5, <2>1 DEF Control, Threads, rxv
  <1> QED BY <1>11, <1>12, <1>13, <1>14 DEF ReorderInv

\* The handler is done; the queue is not released yet.
LEMMA HandlerReturnsStep ==
  ASSUME ReorderInv, NEW t \in Threads, HandlerReturns(t)
  PROVE  ReorderInv'
  <1>1. TypeOK /\ Control /\ TodoBegun /\ TodoOne
    BY DEF ReorderInv
  <1>2. /\ UNCHANGED <<epoch, valid, win, life, last, q, out, todo, ready, back, cur, wake, lock, waiting, alarm, cursor>>
        /\ pc[t] = "hand" /\ pc' = [pc EXCEPT ![t] = "complete"]
    BY DEF HandlerReturns, peer, rxv
  <1>3. pc'[t] = "complete" /\ \A u \in Threads \ {t} : pc'[u] = pc[u]
    BY <1>1, <1>2 DEF TypeOK
  <1>4. QueuesOk' /\ Carried' /\ Parity' /\ QueuesAged' /\ Delivered'
    BY <1>2, <1>3, QuietIs
  <1>5. TypeOK'
    BY <1>1, <1>2 DEF TypeOK
  <1>6. Control'
    BY <1>1, <1>2, <1>3 DEF Control, Threads
  <1>7. TodoBegun' /\ TodoOne'
    BY <1>1, <1>2 DEF TodoBegun, TodoOne
  <1> QED BY <1>4, <1>5, <1>6, <1>7 DEF ReorderInv

\* A delivery is over: exactly the queues it was for may be delivered again.
LEMMA CompleteStep ==
  ASSUME ReorderInv, NEW t \in Threads, Complete(t)
  PROVE  ReorderInv'
  <1> DEFINE Had(c) == \E f \in out[t] : f.c = c
  <1>1. /\ TypeOK /\ Control /\ TodoBegun /\ TodoOne /\ Carried /\ Parity /\ QueuesAged /\ Delivered
        /\ QueuesOk /\ \A u \in Rx : u \in Threads
    BY DEF ReorderInv, Threads
  <1>2. /\ pc[t] = "complete"
        /\ q' = [c \in Classes |-> Completed(q[c], {f \in out[t] : f.c = c})]
        /\ BroadcastIf(q' # q)
        /\ out' = [out EXCEPT ![t] = {}]
        /\ pc' = [pc EXCEPT ![t] = IF t = Worker THEN "scan"
                                   ELSE IF back[t] \in {"groups", "press"} THEN "relock" ELSE back[t]]
        /\ UNCHANGED <<peer, rxv, lock, alarm, cursor, life, last>>
    BY DEF Complete
  <1>3. ASSUME NEW u \in Threads, NEW f \in Carry(u)
        PROVE  /\ f \in Frames /\ f.c \in Classes /\ q[f.c].init /\ q[f.c].owner = u
               /\ f.e = q[f.c].epoch /\ f.n < Pos(q[f.c]) /\ q[f.c].busy
    <2>1. f \in Frames
      BY <1>1, <1>3 DEF Carry, TypeOK
    <2> QED BY <1>1, <1>3, <2>1, FrameIs DEF Carried
  <1>4. ASSUME NEW c \in Classes
        PROVE  /\ QueueOk(c, q'[c]) /\ q'[c].init = q[c].init /\ q'[c].epoch = q[c].epoch
               /\ q'[c].owner = q[c].owner /\ Pos(q'[c]) = Pos(q[c])
               /\ Had(c) => q'[c].busy = FALSE
               /\ ~Had(c) => q'[c].busy = q[c].busy
    <2>0. QueueOk(c, q[c]) /\ q[c] \in Queues
      BY <1>1 DEF QueuesOk, QueueOk
    <2>1. CASE Had(c)
      <3> DEFINE k == [q[c] EXCEPT !.busy = FALSE]
      <3>1. q[c].init /\ \E f \in {f \in out[t] : f.c = c} : q[c].epoch = f.e
        BY <1>3, <2>1 DEF Carry
      <3>2. q'[c] = k
        BY <1>2, <3>1 DEF Completed
      <3>3. /\ k \in Queues /\ k.init = q[c].init /\ k.epoch = q[c].epoch /\ k.exp = q[c].exp
            /\ k.busy = FALSE /\ k.owner = q[c].owner /\ k.slots = q[c].slots /\ k.old = q[c].old
        BY <2>0 DEF Queues
      <3> HIDE DEF k
      <3>4. Pos(k) = Pos(q[c])
        BY <3>3 DEF Pos
      <3>5. QueueOk(c, k)
        BY <2>0, <3>1, <3>3, <3>4 DEF QueueOk
      <3> QED BY <2>1, <3>2, <3>3, <3>4, <3>5
    <2>2. CASE ~Had(c)
      <3>1. {f \in out[t] : f.c = c} = {}
        BY <2>2
      <3>2. q'[c] = q[c]
        BY <1>2, <3>1 DEF Completed
      <3> QED BY <2>0, <2>2, <3>2
    <2> QED BY <2>1, <2>2
  <1>5. /\ out'[t] = {} /\ \A u \in Threads \ {t} : out'[u] = out[u] /\ pc'[u] = pc[u]
        /\ pc'[t] = IF t = Worker THEN "scan"
                    ELSE IF back[t] \in {"groups", "press"} THEN "relock" ELSE back[t]
        /\ ready' = ready /\ back' = back /\ todo' = todo /\ epoch' = epoch /\ life' = life
        /\ valid' = valid /\ last' = last
    BY <1>1, <1>2 DEF TypeOK, peer, rxv
  <1>6. ASSUME NEW u \in Threads, NEW f \in Carry(u)' PROVE f \in Carry(u) /\ ~Had(f.c)
    <2>1. f \in Carry(u)
      BY <1>5, <1>6 DEF Carry
    <2>2. ASSUME NEW g \in out[t], g.c = f.c PROVE FALSE
      <3>1. q[f.c].owner = u /\ q[g.c].owner = t
        BY <1>3, <2>1 DEF Carry
      <3>2. u = t
        BY <2>2, <3>1
      <3>3. t \in Rx /\ f \in ready[t]
        BY <1>5, <1>6, <3>2 DEF Carry
      <3> QED BY <1>1, <2>2, <3>3 DEF Carried
    <2> QED BY <2>1, <2>2
  <1>7. Carried'
    <2>1. ASSUME NEW u \in Threads, NEW f \in Carry(u)'
          PROVE  /\ q'[f.c].init /\ q'[f.c].busy /\ q'[f.c].owner = u
                 /\ f.e = q'[f.c].epoch /\ f.n < Pos(q'[f.c])
      <3>1. f \in Carry(u) /\ ~Had(f.c)
        BY <1>6
      <3> HIDE DEF Had
      <3> QED BY <1>3, <1>4, <3>1, ZenonT(40)
    <2>2. ASSUME NEW c \in Classes, q'[c].busy
          PROVE  \E u \in Threads : q'[c].owner = u /\ \E f \in Carry(u)' : f.c = c
      <3>1. ~Had(c) /\ q[c].busy /\ q'[c].owner = q[c].owner
        BY <1>4, <2>2
      <3>2. PICK u \in Threads : q[c].owner = u /\ \E f \in Carry(u) : f.c = c
        BY <1>1, <3>1 DEF Carried
      <3>3. PICK f \in Carry(u) : f.c = c
        BY <3>2
      <3>4. f \in Carry(u)'
        <4>1. CASE u # t
          BY <1>5, <3>3, <4>1 DEF Carry
        <4>2. CASE u = t
          BY <1>5, <3>1, <3>3, <4>2 DEF Carry
        <4> QED BY <4>1, <4>2
      <3> QED BY <3>1, <3>2, <3>3, <3>4
    <2>3. ASSUME NEW u \in Rx, NEW f \in out'[u], NEW g \in ready'[u] PROVE f.c # g.c
      BY <1>1, <1>5 DEF Carried
    <2> QED BY <2>1, <2>2, <2>3 DEF Carried
  <1>8. Delivered'
    <2>1. \A u \in Threads : \A f \in out'[u] : pc'[u] = "emit" /\ last[f.c].e = f.e => last[f.c].n < f.n
      BY <1>1, <1>5 DEF Delivered
    <2>2. \A c \in Classes :
            /\ last[c].e <= epoch
            /\ ~q'[c].init /\ Active /\ epoch # 0 => last[c].e # epoch
            /\ q'[c].init /\ last[c].e = q'[c].epoch => last[c].n < Pos(q'[c])
      BY <1>1, <1>4 DEF Delivered
    <2>3. \A u \in Rx : \A f \in ready'[u] : last[f.c].e = f.e => last[f.c].n < f.n
      BY <1>1, <1>5 DEF Delivered
    <2> QED BY <1>5, <2>1, <2>2, <2>3 DEF Delivered, Active
  <1>9. QueuesOk'
    BY <1>4 DEF QueuesOk, QueueOk, Pos
  <1>10. Parity' /\ QueuesAged' /\ TodoBegun' /\ TodoOne'
    BY <1>1, <1>4, <1>5 DEF Parity, QueuesAged, Aged, TodoBegun, TodoOne
  <1>11. TypeOK'
    <2>1. q' \in [Classes -> Queues]
      <3>1. q' = [c \in Classes |-> q'[c]] /\ \A c \in Classes : q'[c] \in Queues
        BY <1>2, <1>4 DEF QueueOk
      <3> QED BY <3>1
    <2>2. pc' \in [Threads -> {"idle", "submit", "groups", "press", "relock", "finish",
                               "emit", "hand", "complete", "scan", "wait"}]
      <3>1. t # Worker => t \in Rx /\ back[t] \in {"idle", "groups", "press", "finish"}
        BY <1>1 DEF TypeOK, Threads
      <3> QED BY <1>1, <1>2, <3>1 DEF TypeOK
    <2>3. out' \in [Threads -> SUBSET Frames] /\ waiting' \subseteq Threads \cup {Life}
      BY <1>1, <1>2 DEF TypeOK, BroadcastIf
    <2> QED BY <1>1, <1>2, <2>1, <2>2, <2>3 DEF TypeOK, peer, rxv
  <1>12. Control'
    <2>1. Worker \notin Rx /\ Worker \in Threads
      BY ReorderAssumption DEF Threads
    <2>2. t # Worker => t \in Rx /\ back[t] \in {"idle", "groups", "press", "finish"}
      BY <1>1 DEF TypeOK, Threads
    <2>3. ASSUME NEW u \in Threads PROVE out'[u] # {} <=> pc'[u] \in {"emit", "hand", "complete"}
      BY <1>1, <1>5, <2>2 DEF Control
    <2>4. ASSUME NEW u \in Rx
          PROVE  /\ pc'[u] \notin {"scan", "wait"}
                 /\ pc'[u] \in {"idle", "submit"} => ready'[u] = {}
                 /\ pc'[u] \in {"emit", "hand", "complete"} =>
                      back'[u] \in {"groups", "press", "finish"} \/ (back'[u] = "idle" /\ ready'[u] = {})
                 /\ pc'[u] = "relock" => back'[u] \in {"groups", "press"}
                 /\ todo'[u] # <<>> => pc'[u] \in {"submit", "groups", "press", "relock"} \/ 
                      (pc'[u] \in {"emit", "hand", "complete"} /\ back'[u] \in {"groups", "press"})
      <3>1. CASE u = t
        BY <1>1, <1>2, <1>5, <2>1, <2>2, <3>1 DEF Control
      <3>2. CASE u # t
        BY <1>1, <1>5, <3>2 DEF Control
      <3> QED BY <3>1, <3>2
    <2>5. pc'[Worker] \in {"scan", "wait", "emit", "hand", "complete"}
      BY <1>1, <1>5, <2>1 DEF Control
    <2> QED BY <2>3, <2>4, <2>5 DEF Control
  <1> QED BY <1>7, <1>8, <1>9, <1>10, <1>11, <1>12 DEF ReorderInv

\* The READY frames of a chunk.
LEMMA FinishStep ==
  ASSUME ReorderInv, NEW t \in Rx, Finish(t)
  PROVE  ReorderInv'
  <1>1. /\ TypeOK /\ Control /\ TodoBegun /\ TodoOne /\ Carried /\ Parity /\ QueuesAged /\ Delivered
        /\ QueuesOk /\ t \in Threads /\ t # Worker
    BY ReorderAssumption DEF ReorderInv, Threads
  <1>2. /\ pc[t] = "finish"
        /\ out' = [out EXCEPT ![t] = ready[t]] /\ ready' = [ready EXCEPT ![t] = {}]
        /\ back' = [back EXCEPT ![t] = "idle"]
        /\ pc' = [pc EXCEPT ![t] = IF ready[t] = {} THEN "idle" ELSE "emit"]
        /\ UNCHANGED <<peer, q, todo, cur, wake, lock, waiting, alarm, cursor, life, last>>
    BY DEF Finish
  <1>3. /\ out[t] = {} /\ todo[t] = <<>>
        /\ out'[t] = ready[t] /\ ready'[t] = {} /\ back'[t] = "idle"
        /\ pc'[t] = IF ready[t] = {} THEN "idle" ELSE "emit"
        /\ \A u \in Threads \ {t} : out'[u] = out[u] /\ pc'[u] = pc[u]
        /\ \A u \in Rx \ {t} : ready'[u] = ready[u] /\ back'[u] = back[u]
    BY <1>1, <1>2 DEF TypeOK, Control
  <1>4. \A u \in Threads : Carry(u)' = Carry(u)
    BY <1>3 DEF Carry, Threads
  <1>5. Carried'
    <2>1. \A u \in Rx : \A f \in out'[u], g \in ready'[u] : f.c # g.c
      BY <1>1, <1>3 DEF Carried, Threads
    <2> QED BY <1>1, <1>2, <1>4, <2>1 DEF Carried, Pos
  <1>6. Delivered'
    <2>1. \A u \in Threads : \A f \in out'[u] : pc'[u] = "emit" /\ last[f.c].e = f.e => last[f.c].n < f.n
      BY <1>1, <1>3 DEF Delivered
    <2>2. \A u \in Rx : \A f \in ready'[u] : last[f.c].e = f.e => last[f.c].n < f.n
      BY <1>1, <1>3 DEF Delivered
    <2> QED BY <1>1, <1>2, <2>1, <2>2 DEF Delivered, Active, Pos, peer
  <1>7. QueuesOk' /\ Parity' /\ QueuesAged' /\ TodoBegun' /\ TodoOne'
    BY <1>1, <1>2 DEF QueuesOk, QueueOk, Pos, Parity, QueuesAged, Aged, TodoBegun, TodoOne, peer
  <1>8. TypeOK'
    BY <1>1, <1>2 DEF TypeOK, peer
  <1>9. Control'
    <2>1. ASSUME NEW u \in Threads PROVE out'[u] # {} <=> pc'[u] \in {"emit", "hand", "complete"}
      BY <1>1, <1>3 DEF Control
    <2>2. pc'[Worker] = pc[Worker]
      BY <1>1, <1>3 DEF Threads
    <2>3. ASSUME NEW u \in Rx
          PROVE  /\ pc'[u] \notin {"scan", "wait"}
                 /\ pc'[u] \in {"idle", "submit"} => ready'[u] = {}
                 /\ pc'[u] \in {"emit", "hand", "complete"} =>
                      back'[u] \in {"groups", "press", "finish"} \/ (back'[u] = "idle" /\ ready'[u] = {})
                 /\ pc'[u] = "relock" => back'[u] \in {"groups", "press"}
                 /\ todo'[u] # <<>> => pc'[u] \in {"submit", "groups", "press", "relock"} \/ 
                      (pc'[u] \in {"emit", "hand", "complete"} /\ back'[u] \in {"groups", "press"})
      <3>1. CASE u = t
        BY <1>2, <1>3, <3>1
      <3>2. CASE u # t
        <4>1. pc'[u] = pc[u] /\ back'[u] = back[u] /\ ready'[u] = ready[u] /\ todo' = todo
          BY <1>2, <1>3, <3>2 DEF Threads
        <4> QED BY <1>1, <4>1 DEF Control
      <3> QED BY <3>1, <3>2
    <2> QED BY <1>1, <2>1, <2>2, <2>3 DEF Control
  <1> QED BY <1>5, <1>6, <1>7, <1>8, <1>9 DEF ReorderInv

-----------------------------------------------------------------------------
\* The steps of the Peer's life

\* What such a step leaves alone.
LifeRest ==
  /\ UNCHANGED <<pc, todo, ready, back, cur, wake, out, lock, alarm, cursor, last>>
  /\ win' \in [Classes -> Windows] /\ waiting' \subseteq Threads \cup {Life}

\* A step that only changes the life of the Peer keeps the invariant if the queues are
\* still of a life that is going on, and no class has delivered in a life that begins.
LEMMA LifeStep ==
  ASSUME ReorderInv, LifeRest, q' = q, valid' \in BOOLEAN, epoch' \in 0..MaxEpoch, epoch <= epoch',
         life' \in {"idle", "reset", "unregister", "resume", "leave"},
         Parity', QueuesAged', epoch' % 2 = 0 => epoch < epoch'
  PROVE  ReorderInv'
  <1>1. /\ TypeOK /\ Control /\ TodoBegun /\ TodoOne /\ Carried /\ Delivered /\ QueuesOk
        /\ UNCHANGED <<pc, todo, ready, back, cur, wake, out, lock, alarm, cursor, last>>
        /\ win' \in [Classes -> Windows] /\ waiting' \subseteq Threads \cup {Life}
    BY DEF ReorderInv, LifeRest
  <1>2. TypeOK'
    BY <1>1 DEF TypeOK
  <1>3. QueuesOk' /\ Carried' /\ Control' /\ TodoBegun' /\ TodoOne'
    BY <1>1 DEF QueuesOk, QueueOk, Pos, Carried, Carry, Control, TodoBegun, TodoOne
  <1>4. ASSUME NEW c \in Classes
        PROVE  /\ last[c].e <= epoch'
               /\ ~q[c].init /\ epoch' % 2 = 0 => last[c].e # epoch'
               /\ q[c].init /\ last[c].e = q[c].epoch => last[c].n < Pos(q[c])
    <2>1. last[c].e \in Nat /\ last[c].e <= epoch /\ epoch \in Nat /\ epoch' \in Nat
      BY <1>1, Sizes DEF TypeOK, Delivered
    <2> QED BY <1>1, <2>1 DEF Delivered
  <1>5. Delivered'
    BY <1>1, <1>4 DEF Delivered, Active, Pos
  <1> QED BY <1>2, <1>3, <1>5 DEF ReorderInv

\* A Peer that begins or ends has new receive windows.
LEMMA EmptyWindows ==
  ASSUME NoWindows
  PROVE  win' \in [Classes -> Windows]
  <1>1. EmptyWindow \in Windows
    BY WindowAssumption, DistType DEF EmptyWindow, Windows
  <1> QED BY <1>1 DEF NoWindows

\* Registering, the beginnings of reset and unregister, and their ends.
LEMMA PeerSteps ==
  ASSUME ReorderInv,
         Register \/ Quiesce("reset") \/ Quiesce("unregister") \/ Resume \/ Unregistered
  PROVE  ReorderInv'
  <1>1. /\ TypeOK /\ Parity /\ QueuesAged
        /\ epoch \in Nat /\ MaxEpoch \in Nat /\ epoch <= MaxEpoch /\ valid \in BOOLEAN
        /\ \A c \in Classes : q[c].epoch \in Nat
    <2>1. TypeOK /\ Parity /\ QueuesAged
      BY DEF ReorderInv
    <2>2. epoch \in 0..MaxEpoch /\ valid \in BOOLEAN /\ q \in [Classes -> Queues]
      BY <2>1 DEF TypeOK
    <2>3. \A c \in Classes : q[c].epoch \in 0..MaxEpoch
      BY <2>2 DEF Queues
    <2> QED BY <2>1, <2>2, <2>3, Sizes
  <1>2. CASE Register
    <2>1. /\ life = "idle" /\ ~valid /\ epoch + 2 <= MaxEpoch /\ valid' = TRUE /\ life' = life /\ q' = q
          /\ epoch' = epoch + 2 - (epoch % 2) /\ (epoch = 0 \/ epoch % 2 = 1)
      BY <1>1, <1>2 DEF Register, Parity
    <2>2. epoch' \in 0..MaxEpoch /\ epoch < epoch' /\ epoch' % 2 = 0 /\ epoch' # 0
      BY <1>1, <2>1
    <2>3. Parity' /\ QueuesAged'
      BY <1>1, <2>1, <2>2 DEF Parity, QueuesAged, Aged
    <2>4. LifeRest
      BY <1>1, <1>2, EmptyWindows DEF LifeRest, Register, rxv, TypeOK
    <2> QED BY <1>1, <2>1, <2>2, <2>3, <2>4, LifeStep
  <1>3. ASSUME NEW kind \in {"reset", "unregister"}, Quiesce(kind) PROVE ReorderInv'
    <2>1. /\ life = "idle" /\ valid /\ epoch + 1 <= MaxEpoch /\ (kind = "reset" => epoch + 2 <= MaxEpoch)
          /\ valid' = valid /\ life' = kind /\ q' = q /\ epoch' = epoch + 1 /\ epoch % 2 = 0
      BY <1>1, <1>3 DEF Quiesce, Parity
    <2>2. epoch' \in 0..MaxEpoch /\ epoch < epoch' /\ epoch' % 2 = 1 /\ epoch' - 1 = epoch
      BY <1>1, <2>1
    <2>3. Parity'
      BY <1>1, <2>1, <2>2 DEF Parity
    <2>4. QueuesAged'
      BY <1>1, <2>1, <2>2 DEF QueuesAged, Aged
    <2>5. LifeRest
      BY <1>1, <1>3, EmptyWindows DEF LifeRest, Quiesce, rxv, TypeOK
    <2> QED BY <1>1, <2>1, <2>2, <2>3, <2>4, <2>5, LifeStep
  <1>4. CASE Resume
    <2>1. /\ life = "resume" /\ life' = "idle" /\ epoch' = epoch + 1 /\ valid' = valid /\ q' = q
          /\ epoch % 2 = 1 /\ valid /\ epoch + 1 <= MaxEpoch
      BY <1>1, <1>4 DEF Resume, Parity
    <2>2. epoch' \in 0..MaxEpoch /\ epoch < epoch' /\ epoch' % 2 = 0 /\ epoch' # 0
      BY <1>1, <2>1
    <2>3. Parity' /\ QueuesAged'
      BY <1>1, <2>1, <2>2 DEF Parity, QueuesAged, Aged
    <2>4. LifeRest
      BY <1>1, <1>4 DEF LifeRest, Resume, rxv, TypeOK
    <2> QED BY <1>1, <2>1, <2>2, <2>3, <2>4, LifeStep
  <1>5. CASE Unregistered
    <2>1. /\ life = "leave" /\ life' = "idle" /\ epoch' = epoch /\ valid' = FALSE /\ q' = q /\ epoch % 2 = 1
      BY <1>1, <1>5 DEF Unregistered, Parity
    <2>2. Parity' /\ QueuesAged'
      BY <1>1, <2>1 DEF Parity, QueuesAged, Aged
    <2>3. LifeRest
      BY <1>1, <1>5 DEF LifeRest, Unregistered, rxv, TypeOK
    <2>4. epoch' \in 0..MaxEpoch /\ epoch <= epoch'
      BY <1>1, <2>1
    <2>5. life' \in {"idle", "reset", "unregister", "resume", "leave"} /\ valid' \in BOOLEAN
      BY <2>1
    <2>6. epoch' % 2 = epoch % 2
      BY <2>1
    <2>7. epoch' % 2 = 0 => epoch < epoch'
      BY ONLY <2>1, <2>6
    <2> QED BY ONLY ReorderInv, <2>1, <2>2, <2>3, <2>4, <2>5, <2>7, LifeStep
  <1> QED BY <1>2, <1>3, <1>4, <1>5

\* Reset or unregister waits for a delivery.
LEMMA ResetWaitsStep ==
  ASSUME ReorderInv, ResetWaits
  PROVE  ReorderInv'
  <1>1. TypeOK /\ Control /\ TodoBegun /\ TodoOne
    BY DEF ReorderInv
  <1>2. /\ UNCHANGED <<epoch, valid, win, life, last, q, pc, out, todo, ready, back, cur, wake, lock, alarm, cursor>>
        /\ waiting' = waiting \cup {Life}
    BY DEF ResetWaits, peer, rxv
  <1>3. QueuesOk' /\ Carried' /\ Parity' /\ QueuesAged' /\ Delivered'
    BY <1>2, QuietIs
  <1>4. TypeOK'
    BY <1>1, <1>2 DEF TypeOK
  <1>5. Control' /\ TodoBegun' /\ TodoOne'
    BY <1>1, <1>2 DEF Control, TodoBegun, TodoOne
  <1> QED BY <1>3, <1>4, <1>5 DEF ReorderInv

\* The queues are cleared: nobody was delivering any of them.
LEMMA ResetClearsStep ==
  ASSUME ReorderInv, ResetClears
  PROVE  ReorderInv'
  <1>1. /\ TypeOK /\ Control /\ TodoBegun /\ TodoOne /\ Carried /\ Parity /\ QueuesAged /\ Delivered /\ QueuesOk
    BY DEF ReorderInv
  <1>2. /\ life \in {"reset", "unregister"} /\ ResetMayClear
        /\ q' = [c \in Classes |-> IF q[c].init THEN EmptyQueue ELSE q[c]]
        /\ waiting' = {} /\ life' = IF life = "reset" THEN "resume" ELSE "leave"
        /\ UNCHANGED <<epoch, valid, win, last, pc, out, todo, ready, back, cur, wake, lock, alarm, cursor>>
    BY DEF ResetClears, Broadcast, peer, rxv
  <1>3. \A u \in Threads : Carry(u) = {}
    <2> SUFFICES ASSUME NEW u \in Threads, NEW f \in Carry(u) PROVE FALSE
      OBVIOUS
    <2>1. f \in Frames /\ f.c \in Classes
      BY <1>1, FrameIs DEF Carry, TypeOK
    <2> QED BY <1>1, <1>2, <2>1 DEF Carried, ResetMayClear
  <1>4. \A c \in Classes : q'[c] = EmptyQueue
    BY <1>1, <1>2 DEF QueuesOk, QueueOk
  <1>5. EmptyQueue.init = FALSE /\ EmptyQueue.busy = FALSE
    BY DEF EmptyQueue
  <1>6. QueuesOk'
    <2> SUFFICES ASSUME NEW c \in Classes PROVE QueueOk(c, q'[c])
      BY DEF QueuesOk, QueueOk, Pos
    <2> QED BY <1>4, EmptyOk
  <1>7. Carried'
    <2>1. \A u \in Threads : Carry(u)' = {}
      BY <1>2, <1>3 DEF Carry
    <2>2. \A u \in Rx : out'[u] = {}
      BY <2>1 DEF Carry, Threads
    <2> QED BY <1>4, <1>5, <2>1, <2>2 DEF Carried
  <1>8. epoch % 2 = 1 /\ (life = "reset" => epoch + 1 <= MaxEpoch) /\ valid
    BY <1>1, <1>2 DEF Parity
  <1>9. Parity'
    BY <1>2, <1>8 DEF Parity
  <1>10. QueuesAged'
    BY <1>4, <1>5 DEF QueuesAged
  <1>11. Delivered'
    BY <1>1, <1>2, <1>4, <1>5, <1>8 DEF Delivered, Active
  <1>12. TypeOK'
    <2>1. q' \in [Classes -> Queues]
      <3>1. \A c \in Classes : EmptyQueue \in Queues
        BY EmptyOk DEF QueueOk
      <3> QED BY <1>1, <1>2, <3>1 DEF TypeOK
    <2> QED BY <1>1, <1>2, <2>1 DEF TypeOK
  <1>13. Control' /\ TodoBegun' /\ TodoOne'
    BY <1>1, <1>2 DEF Control, TodoBegun, TodoOne
  <1> QED BY <1>6, <1>7, <1>9, <1>10, <1>11, <1>12, <1>13 DEF ReorderInv

-----------------------------------------------------------------------------
\* Receiving

\* The receive window takes a frame or drops it.
LEMMA AcceptFrameIs ==
  ASSUME NEW b \in Seq(Frames), NEW f \in ToSet(b), NEW r,
         r.w \in [Classes -> Windows], r.s \in Seq(Frames), ToSet(r.s) \subseteq ToSet(b)
  PROVE  /\ AcceptFrame(r, f, b).w \in [Classes -> Windows]
         /\ AcceptFrame(r, f, b).s \in Seq(Frames)
         /\ ToSet(AcceptFrame(r, f, b).s) \subseteq ToSet(b)
  <1> DEFINE S == {Sq(g) : g \in Of(b, f.c)}
             v == Prepared(r.w[f.c], Sq(f), S, Window)
             a == WindowAccept(v, Sq(f))
  <1>1. ToSet(b) \in SUBSET Frames /\ Of(b, f.c) \in SUBSET Frames
    BY OfIs
  <1>2. f \in Frames /\ f.c \in Classes
    BY <1>1, FrameIs
  <1>3. ASSUME NEW g \in Frames PROVE Sq(g) \in 0..(SeqCount - 1)
    <2>1. SeqCount \in Nat \ {0} /\ Base + g.n \in Int
      BY FrameIs, Sizes
    <2> QED BY <2>1, ModExists DEF Sq
  <1>4. S \in SUBSET (0..(SeqCount - 1)) /\ Sq(f) \in 0..(SeqCount - 1)
    BY <1>1, <1>2, <1>3
  <1>5. r.w[f.c] \in Windows
    BY <1>2
  <1> HIDE DEF S
  <1>6. v \in Windows
    BY <1>4, <1>5, PreparedType, Sizes
  <1> HIDE DEF v
  <1>7. a.w \in Windows
    BY <1>4, <1>6, AcceptType
  <1>8. /\ AcceptFrame(r, f, b).w = [r.w EXCEPT ![f.c] = a.w]
        /\ AcceptFrame(r, f, b).s = IF a.ok THEN Append(r.s, f) ELSE r.s
    BY DEF AcceptFrame, a, v, S
  <1> HIDE DEF a
  <1>9. Append(r.s, f) \in Seq(Frames) /\ ToSet(Append(r.s, f)) = ToSet(r.s) \cup {f}
    <2>1. PICK s \in Seq(Frames) : s = r.s
      OBVIOUS
    <2> QED BY <1>2, <2>1, AppendFacts
  <1> QED BY <1>7, <1>8, <1>9

\* The recursive function behind Accept exists.
LEMMA AcceptRun ==
  ASSUME NEW b \in Seq(Frames), NEW w
  PROVE  \E g : /\ Accept(w, b) = g[Len(b)]
                /\ g[0] = [w |-> w, s |-> <<>>]
                /\ \A i \in 1..Len(b) : g[i] = AcceptFrame(g[i - 1], b[i], b)
  <1> DEFINE None == [w |-> w, s |-> <<>>]
             Step(r, i) == AcceptFrame(r, b[i], b)
             F(n, f) == [i \in 0..n |-> IF i = 0 THEN None ELSE Step(f[i - 1], i)]
             T == {n \in Nat : \E g : g = F(n, g)}
             run == CHOOSE f : f = F(Len(b), f)
  <1>1. Accept(w, b) = run[Len(b)]
    BY DEF Accept
  <1> HIDE DEF Step, None
  <1>2. 0 \in T
    <2> DEFINE g == [i \in 0..0 |-> None]
    <2>1. g = F(0, g)
      OBVIOUS
    <2> QED BY <2>1
  <1>3. \A n \in Nat : n \in T => n + 1 \in T
    <2> SUFFICES ASSUME NEW n \in Nat, n \in T
                 PROVE  \E g : g = F(n + 1, g)
      <3> HIDE DEF F
      <3> QED OBVIOUS
    <2>1. PICK g : g = F(n, g)
      <3> HIDE DEF F
      <3> QED OBVIOUS
    <2> DEFINE h == F(n + 1, g)
    <2>2. ASSUME NEW i \in 0..n PROVE h[i] = g[i]
      <3>1. h[i] = IF i = 0 THEN None ELSE Step(g[i - 1], i)
        OBVIOUS
      <3>2. F(n, g)[i] = IF i = 0 THEN None ELSE Step(g[i - 1], i)
        OBVIOUS
      <3> QED BY ONLY <2>1, <3>1, <3>2
    <2> HIDE DEF h
    <2>3. \A i \in 1..(n + 1) : h[i - 1] = g[i - 1]
      BY <2>2
    <2>4. F(n + 1, g) = F(n + 1, h)
      BY <2>3
    <2>5. h = F(n + 1, h)
      BY <2>4 DEF h
    <2> QED BY <2>5
  <1>4. Len(b) \in Nat
    OBVIOUS
  <1>5. Len(b) \in T
    <2> HIDE DEF T
    <2> QED BY <1>2, <1>3, <1>4, SetInduction
  <1>6. run = F(Len(b), run)
    <2> HIDE DEF F
    <2> QED BY <1>5
  <1> HIDE DEF run
  <1>7. run[0] = None
    BY <1>4, <1>6
  <1>8. ASSUME NEW i \in 1..Len(b) PROVE run[i] = Step(run[i - 1], i)
    <2>1. F(Len(b), run)[i] = Step(run[i - 1], i)
      BY <1>4
    <2> QED BY ONLY <1>6, <2>1
  <1> QED BY <1>1, <1>7, <1>8 DEF Step, None

\* What comes through the receive windows came with the call.
LEMMA AcceptIs ==
  ASSUME NEW b \in Seq(Frames), NEW w \in [Classes -> Windows]
  PROVE  /\ Accept(w, b).w \in [Classes -> Windows]
         /\ Accept(w, b).s \in Seq(Frames)
         /\ ToSet(Accept(w, b).s) \subseteq ToSet(b)
  <1> DEFINE Ok(r) == r.w \in [Classes -> Windows] /\ r.s \in Seq(Frames) /\ ToSet(r.s) \subseteq ToSet(b)
  <1>1. PICK g : /\ Accept(w, b) = g[Len(b)]
                 /\ g[0] = [w |-> w, s |-> <<>>]
                 /\ \A i \in 1..Len(b) : g[i] = AcceptFrame(g[i - 1], b[i], b)
    BY AcceptRun
  <1> DEFINE T == {n \in Nat : n <= Len(b) => Ok(g[n])}
  <1>2. 0 \in T
    <2>1. <<>> \in Seq(Frames) /\ ToSet(<<>>) = {}
      BY DEF ToSet
    <2>2. g[0].w = w /\ g[0].s = <<>>
      BY <1>1
    <2> QED BY <2>1, <2>2
  <1>3. \A n \in Nat : n \in T => n + 1 \in T
    <2> SUFFICES ASSUME NEW n \in Nat, n + 1 <= Len(b), Ok(g[n])
                 PROVE  Ok(g[n + 1])
      <3> HIDE DEF Ok
      <3> QED OBVIOUS
    <2>1. n + 1 \in 1..Len(b) /\ (n + 1) - 1 = n
      OBVIOUS
    <2>2. PICK f \in ToSet(b) : f = b[n + 1]
      BY <2>1 DEF ToSet
    <2>3. PICK r : r = g[n] /\ Ok(r)
      OBVIOUS
    <2>4. g[n + 1] = AcceptFrame(r, f, b)
      BY <1>1, <2>1, <2>2, <2>3
    <2> QED BY <2>3, <2>4, AcceptFrameIs
  <1>4. Len(b) \in T
    <2> HIDE DEF T
    <2>1. Len(b) \in Nat
      OBVIOUS
    <2> QED BY <1>2, <1>3, <2>1, SetInduction
  <1> QED BY <1>1, <1>4

\* An element of a sequence.
LEMMA ElementIs ==
  ASSUME NEW X, NEW s \in Seq(X), NEW i \in 1..Len(s)
  PROVE  s[i] \in X
  OBVIOUS

\* A link brings a chunk: its frames are of the life that is going on.
LEMMA ReceiveStep ==
  ASSUME ReorderInv, NEW t \in Rx, NEW chunk \in Chunks, Receive(t, chunk)
  PROVE  ReorderInv' /\ todo[t] = <<>>
  <1> DEFINE b == [i \in DOMAIN chunk |-> [c |-> chunk[i].c, n |-> chunk[i].n, e |-> epoch]]
             r == Accept(win, b)
  <1>1. TypeOK /\ Control /\ TodoBegun /\ TodoOne /\ Parity /\ t \in Threads
    BY DEF ReorderInv, Threads
  <1>2. /\ pc[t] = "idle" /\ valid /\ Active /\ win' = r.w
        /\ todo' = [todo EXCEPT ![t] = r.s] /\ pc' = [pc EXCEPT ![t] = "submit"]
        /\ UNCHANGED <<epoch, valid, q, out, ready, back, cur, wake, lock, waiting,
                       alarm, cursor, life, last>>
    BY DEF Receive
  <1>3. b \in Seq(Frames) /\ \A f \in ToSet(b) : f.e = epoch
    <2>1. chunk \in Seq([c: 0..(NC - 1), n: 1..MaxN])
      BY ReorderAssumption
    <2>2. DOMAIN chunk = 1..Len(chunk) /\ Len(chunk) \in Nat
      BY <2>1
    <2>3. \A i \in 1..Len(chunk) : chunk[i].c \in Classes /\ chunk[i].n \in 1..MaxN
      <3>1. PICK X : X = [c: 0..(NC - 1), n: 1..MaxN]
        OBVIOUS
      <3>2. ASSUME NEW i \in 1..Len(chunk) PROVE chunk[i] \in X
        <4>1. chunk \in Seq(X)
          BY <2>1, <3>1
        <4> QED BY ONLY <4>1, <3>2, ElementIs
      <3> QED BY ONLY <3>1, <3>2 DEF Classes
    <2>4. epoch \in 0..MaxEpoch
      BY <1>1 DEF TypeOK
    <2>5. \A i \in 1..Len(chunk) : b[i] \in Frames /\ b[i].e = epoch
      BY <2>2, <2>3, <2>4 DEF Frames
    <2>6. b \in [1..Len(chunk) -> Frames]
      BY <2>2, <2>5
    <2>7. DOMAIN b = 1..Len(chunk)
      BY <2>2
    <2> HIDE DEF b
    <2> QED BY <2>2, <2>5, <2>6, <2>7 DEF ToSet
  <1> HIDE DEF b
  <1>4. r.w \in [Classes -> Windows] /\ r.s \in Seq(Frames) /\ ToSet(r.s) \subseteq ToSet(b)
    BY <1>1, <1>3, AcceptIs DEF TypeOK
  <1> HIDE DEF r
  <1>5. epoch # 0
    BY <1>1, <1>2, Sizes DEF TypeOK, Parity, Active
  <1>6. /\ ready[t] = {} /\ out[t] = {} /\ todo[t] = <<>> /\ t # Worker
        /\ pc'[t] = "submit" /\ todo'[t] = r.s
        /\ \A u \in Threads \ {t} : pc'[u] = pc[u]
        /\ \A u \in Rx \ {t} : todo'[u] = todo[u]
    BY <1>1, <1>2 DEF TypeOK, Control
  <1>7. QueuesOk' /\ Carried' /\ Parity' /\ QueuesAged' /\ Delivered'
    <2>1. \A u \in Threads : pc'[u] = "emit" => pc[u] = "emit"
      BY <1>6
    <2> QED BY <1>2, <2>1, QuietIs
  <1>8. TodoBegun' /\ TodoOne'
    BY <1>1, <1>3, <1>4, <1>5, <1>6 DEF TodoBegun, TodoOne
  <1>9. TypeOK'
    BY <1>1, <1>2, <1>4 DEF TypeOK
  <1>10. Control'
    <2>1. ASSUME NEW u \in Threads PROVE out'[u] # {} <=> pc'[u] \in {"emit", "hand", "complete"}
      BY <1>1, <1>2, <1>6 DEF Control
    <2>2. pc'[Worker] = pc[Worker]
      BY <1>1, <1>6 DEF Threads
    <2>3. ASSUME NEW u \in Rx
          PROVE  /\ pc'[u] \notin {"scan", "wait"}
                 /\ pc'[u] \in {"idle", "submit"} => ready'[u] = {}
                 /\ pc'[u] \in {"emit", "hand", "complete"} =>
                      back'[u] \in {"groups", "press", "finish"} \/ (back'[u] = "idle" /\ ready'[u] = {})
                 /\ pc'[u] = "relock" => back'[u] \in {"groups", "press"}
                 /\ todo'[u] # <<>> => pc'[u] \in {"submit", "groups", "press", "relock"} \/ 
                      (pc'[u] \in {"emit", "hand", "complete"} /\ back'[u] \in {"groups", "press"})
      <3>1. CASE u = t
        BY <1>2, <1>6, <3>1
      <3>2. CASE u # t
        <4>1. pc'[u] = pc[u] /\ back'[u] = back[u] /\ ready'[u] = ready[u] /\ todo'[u] = todo[u]
          BY <1>2, <1>6, <3>2 DEF Threads
        <4> QED BY <1>1, <4>1 DEF Control
      <3> QED BY <3>1, <3>2
    <2> QED BY <1>1, <2>1, <2>2, <2>3 DEF Control
  <1> QED BY <1>6, <1>7, <1>8, <1>9, <1>10 DEF ReorderInv

-----------------------------------------------------------------------------
\* All steps

\* The invariant holds initially.
LEMMA InitOk == Init => ReorderInv
  <1> SUFFICES ASSUME Init PROVE ReorderInv
    OBVIOUS
  <1>1. /\ epoch = 0 /\ valid = FALSE /\ win = [c \in Classes |-> EmptyWindow]
        /\ q = [c \in Classes |-> EmptyQueue]
        /\ pc = [t \in Threads |-> IF t = Worker THEN "scan" ELSE "idle"]
        /\ todo = [t \in Rx |-> <<>>] /\ ready = [t \in Rx |-> {}]
        /\ out = [t \in Threads |-> {}] /\ back = [t \in Rx |-> "idle"]
        /\ cur = [t \in Rx |-> 0] /\ wake = [t \in Rx |-> FALSE]
        /\ lock = NoThread /\ waiting = {} /\ alarm = FALSE /\ cursor = 0
        /\ life = "idle" /\ last = [c \in Classes |-> [e |-> 0, n |-> 0]]
    BY DEF Init
  <1>2. EmptyWindow \in Windows
    BY WindowAssumption, DistType DEF EmptyWindow, Windows
  <1>3. 0 \in Classes /\ 0 \in 0..MaxEpoch /\ 0 \in 0..MaxN
    BY Sizes DEF Classes
  <1>4. Worker \notin Rx /\ Worker \in Threads
    BY ReorderAssumption DEF Threads
  <1>5. QueuesOk /\ \A c \in Classes : EmptyQueue \in Queues
    BY <1>1, EmptyOk DEF QueuesOk, QueueOk
  <1>6. EmptyQueue.init = FALSE /\ EmptyQueue.busy = FALSE
    BY DEF EmptyQueue
  <1>7. <<>> \in Seq(Frames) /\ ToSet(<<>>) = {}
    BY DEF ToSet
  <1>8. TypeOK
    BY <1>1, <1>2, <1>3, <1>5, <1>7 DEF TypeOK
  <1>9. \A t \in Threads : Carry(t) = {}
    BY <1>1 DEF Carry
  <1>10. Carried
    BY <1>1, <1>6, <1>9 DEF Carried, Threads
  <1>11. Parity /\ QueuesAged
    BY <1>1, <1>6 DEF Parity, QueuesAged
  <1>12. TodoBegun /\ TodoOne
    BY <1>1, <1>7 DEF TodoBegun, TodoOne
  <1>13. Delivered
    BY <1>1, <1>6 DEF Delivered, Threads
  <1>14. Control
    <2>1. \A t \in Threads : out[t] = {} /\ pc[t] \in {"scan", "idle"}
      BY <1>1
    <2>2. \A t \in Rx : pc[t] = "idle" /\ todo[t] = <<>> /\ ready[t] = {}
      BY <1>1, <1>4 DEF Threads
    <2>3. pc[Worker] = "scan"
      BY <1>1, <1>4
    <2> QED BY <2>1, <2>2, <2>3 DEF Control
  <1> QED BY <1>5, <1>8, <1>10, <1>11, <1>12, <1>13, <1>14 DEF ReorderInv

\* What FramesKept says of a step.
KeptNow ==
  \A t \in Rx : \A f \in ToSet(todo[t]) \ ToSet(todo'[t]) :
    NotLost(f, q[f.c], q'[f.c], out'[t] \cup ready'[t]) \/ SelfDelivering(t)

\* Frames only leave a thread's work in its own steps.
LEMMA KeptIf ==
  ASSUME NEW t \in Rx, \A u \in Rx \ {t} : todo'[u] = todo[u],
         \A f \in ToSet(todo[t]) \ ToSet(todo'[t]) :
           NotLost(f, q[f.c], q'[f.c], out'[t] \cup ready'[t]) \/ SelfDelivering(t)
  PROVE  KeptNow
  <1>1. ASSUME NEW u \in Rx, NEW f \in ToSet(todo[u]) \ ToSet(todo'[u])
        PROVE  NotLost(f, q[f.c], q'[f.c], out'[u] \cup ready'[u]) \/ SelfDelivering(u)
    <2>1. u = t
      BY <1>1
    <2> QED BY <1>1, <2>1
  <1> QED BY <1>1 DEF KeptNow

\* A step that leaves all work alone loses nothing.
LEMMA KeptSame ==
  ASSUME todo' = todo
  PROVE  KeptNow
  BY DEF KeptNow

\* A frame that is let go of is of a life that is over, or its thread must not wait.
LEMMA DropsKept ==
  ASSUME ReorderInv, NEW t \in Rx, PressStale(t) \/ PressGivesUp(t)
  PROVE  KeptNow
  <1> DEFINE f == Pressed(t)
  <1>1. /\ TypeOK /\ pc[t] = "press" /\ Of(todo[t], cur[t]) # {}
        /\ todo' = [todo EXCEPT ![t] = Without(todo[t], {f})]
        /\ PressStale(t) => f \notin Live(cur[t], {f})
        /\ PressGivesUp(t) => SelfDelivering(t)
    BY DEF ReorderInv, TypeOK, PressStale, PressGivesUp, Pressing, PressMayWait
  <1>2. f \in ToSet(todo[t]) /\ f.c = cur[t] /\ cur[t] \in Classes /\ f \in Frames
    <2>1. todo[t] \in Seq(Frames) /\ cur[t] \in Classes
      BY <1>1 DEF TypeOK
    <2>2. First(Of(todo[t], cur[t])) \in Of(todo[t], cur[t]) /\ Of(todo[t], cur[t]) \in SUBSET Frames
      BY <1>1, <2>1, OfIs, FirstIs
    <2>3. \A g \in Of(todo[t], cur[t]) : g.c = cur[t] /\ g \in ToSet(todo[t])
      BY DEF Of
    <2> QED BY <2>1, <2>2, <2>3 DEF Pressed
  <1> HIDE DEF f
  <1>3. /\ \A g \in ToSet(todo[t]) \ ToSet(todo'[t]) : g = f
        /\ \A u \in Rx \ {t} : todo'[u] = todo[u]
    <2>1. PICK s : s = Without(todo[t], {f})
      OBVIOUS
    <2>2. s \in Seq(Frames) /\ ToSet(s) = ToSet(todo[t]) \ {f}
      BY <1>1, <2>1, WithoutIs
    <2>3. todo' = [todo EXCEPT ![t] = s]
      BY <1>1, <2>1
    <2> QED BY <1>1, <2>2, <2>3 DEF TypeOK
  <1>4. ~Matches(f) \/ SelfDelivering(t)
    <2>1. CASE PressStale(t)
      <3>1. ~Matches(f) \/ (q[cur[t]].init /\ q[cur[t]].epoch # f.e)
        BY <1>1, <2>1 DEF Live
      <3>2. q[cur[t]].init /\ Active => q[cur[t]].epoch = epoch
        BY <1>2, OldLife DEF ReorderInv
      <3> QED BY <3>1, <3>2 DEF Matches
    <2>2. CASE PressGivesUp(t)
      BY <1>1, <2>2
    <2> QED BY <2>1, <2>2
  <1> QED BY <1>3, <1>4, KeptIf DEF NotLost

\* All steps of a receive thread.
LEMMA RxSteps ==
  ASSUME ReorderInv, NEW t \in Rx, RxStep(t)
  PROVE  ReorderInv' /\ KeptNow
  <1>1. todo \in [Rx -> Seq(Frames)]
    BY DEF ReorderInv, TypeOK
  <1>2. CASE SubmitPlain(t)
    <2>1. \A u \in Rx \ {t} : todo'[u] = todo[u]
      BY <1>1, <1>2 DEF SubmitPlain
    <2> QED BY <1>2, <2>1, SubmitPlainStep, KeptIf
  <1>3. CASE GroupPlain(t)
    <2>1. \A u \in Rx \ {t} : todo'[u] = todo[u]
      BY <1>1, <1>3 DEF GroupPlain
    <2> QED BY <1>3, <2>1, GroupPlainStep, KeptIf
  <1>4. CASE PressPartial(t)
    <2>1. \A u \in Rx \ {t} : todo'[u] = todo[u]
      BY <1>1, <1>4 DEF PressPartial
    <2> QED BY <1>4, <2>1, PressPartialStep, KeptIf
  <1>5. CASE PressTakes(t)
    BY <1>5, PressTakesStep, KeptSame
  <1>6. CASE PressStale(t) \/ PressGivesUp(t)
    BY <1>6, PressDrops, DropsKept
  <1>7. CASE SubmitPressure(t) \/ GroupPressure(t) \/ GroupsDone(t) \/ PressWaits(t) \/ PressDone(t) \/ Relock(t)
    <2>1. todo' = todo
      BY <1>7 DEF SubmitPressure, GroupPressure, GroupsDone, PressWaits, PressDone, Relock
    <2> QED BY <1>7, <2>1, PressureSteps, KeptSame
  <1>8. CASE Finish(t)
    <2>1. todo' = todo
      BY <1>8 DEF Finish
    <2> QED BY <1>8, <2>1, FinishStep, KeptSame
  <1> QED BY <1>2, <1>3, <1>4, <1>5, <1>6, <1>7, <1>8 DEF RxStep

\* Every step keeps the invariant, and loses no frame it must not lose.
LEMMA StepOk ==
  ASSUME ReorderInv, [Next]_vars
  PROVE  ReorderInv' /\ KeptNow
  <1>1. CASE UNCHANGED vars
    <2>1. /\ UNCHANGED <<epoch, valid, win, q, pc, todo, out, ready, back, cur, wake, lock, waiting, alarm,
                         cursor, life, last>>
      BY <1>1 DEF vars
    <2>2. QueuesOk' /\ Carried' /\ Parity' /\ QueuesAged' /\ Delivered'
      BY <2>1, QuietIs
    <2>3. TypeOK' /\ Control' /\ TodoBegun' /\ TodoOne'
      BY <2>1 DEF ReorderInv, TypeOK, Control, TodoBegun, TodoOne
    <2> QED BY <2>1, <2>2, <2>3, KeptSame DEF ReorderInv
  <1>2. CASE \E t \in Rx : RxStep(t)
    BY <1>2, RxSteps
  <1>3. ASSUME NEW t \in Rx, NEW b \in Chunks, Receive(t, b) PROVE ReorderInv' /\ KeptNow
    <2>1. ReorderInv' /\ todo[t] = <<>>
      BY <1>3, ReceiveStep
    <2>2. ToSet(<<>>) = {}
      BY DEF ToSet
    <2>3. \A u \in Rx \ {t} : todo'[u] = todo[u]
      BY <1>3 DEF ReorderInv, TypeOK, Receive
    <2> QED BY <2>1, <2>2, <2>3, KeptIf
  <1>4. ASSUME NEW t \in Threads, Delivery(t) PROVE ReorderInv' /\ KeptNow
    <2>1. todo' = todo
      BY <1>4 DEF Delivery, Hand, HandlerReturns, Complete, rxv
    <2>2. ReorderInv'
      BY <1>4, HandStep, HandlerReturnsStep, CompleteStep DEF Delivery
    <2> QED BY <2>1, <2>2, KeptSame
  <1>5. CASE WorkerStep
    <2>1. todo' = todo
      BY <1>5 DEF WorkerStep, Scan, ScanNothing, WorkerWakes, rxv
    <2>2. ReorderInv'
      BY <1>5, ScanStep, ScanNothingStep, WorkerQuiet DEF WorkerStep
    <2> QED BY <2>1, <2>2, KeptSame
  <1>6. CASE Clearing \/ Register \/ Quiesce("reset") \/ Quiesce("unregister")
    <2>1. todo' = todo
      BY <1>6 DEF Clearing, ResetWaits, ResetClears, Resume, Unregistered, Register, Quiesce, rxv
    <2>2. ReorderInv'
      BY <1>6, ResetWaitsStep, ResetClearsStep, PeerSteps DEF Clearing
    <2> QED BY <2>1, <2>2, KeptSame
  <1>7. CASE TimePasses
    <2>1. PICK c \in Classes, i \in 0..(Window - 1) : Expire(c, i)
      BY <1>7 DEF TimePasses
    <2>2. todo' = todo
      BY <2>1 DEF Expire, rxv
    <2> QED BY <2>1, <2>2, ExpireStep, KeptSame
  <1> QED BY <1>1, <1>2, <1>3, <1>4, <1>5, <1>6, <1>7 DEF Next

-----------------------------------------------------------------------------
\* The results

\* The queues, the threads and the Peer always fit together: the inductive invariant.
THEOREM ReorderInvariant == Spec => []ReorderInv
  <1>1. ReorderInv /\ [Next]_vars => ReorderInv'
    BY StepOk
  <1> QED BY <1>1, InitOk, PTL DEF Spec

\* In every state the types hold, and a slot of a queue holds a frame of the queue's life
\* that belongs in it and lies in the window (transport_reorder.c, slots[sequence & MASK]).
THEOREM SlotsAlwaysSound == Spec => []SlotsSound
  <1>1. ReorderInv => SlotsSound
    <2> SUFFICES ASSUME ReorderInv, NEW c \in Classes
                 PROVE  /\ ~q[c].init => Cached(q[c]) = {} /\ ~q[c].busy
                        /\ \A i \in 0..(Window - 1) :
                             LET f == q[c].slots[i]
                             IN f # NoFrame => /\ f.c = c /\ f.e = q[c].epoch
                                               /\ Sq(f) % Window = i /\ Fits(q[c], f)
      BY DEF SlotsSound, ReorderInv
    <2>1. PICK k : k = q[c] /\ QueueOk(c, k)
      BY DEF ReorderInv, QueuesOk
    <2>2. ASSUME ~k.init PROVE Cached(k) = {} /\ ~k.busy
      <3>1. k = EmptyQueue
        BY <2>1, <2>2 DEF QueueOk
      <3> QED BY <3>1 DEF Cached, EmptyQueue
    <2>3. ASSUME NEW i \in 0..(Window - 1), NEW f, f = k.slots[i], f # NoFrame
          PROVE  f.c = c /\ f.e = k.epoch /\ Sq(f) % Window = i /\ Fits(k, f)
      <3>1. k.init
        <4>1. EmptyQueue.slots[i] = NoFrame
          BY DEF EmptyQueue
        <4> QED BY <2>1, <2>3, <4>1 DEF QueueOk
      <3>2. /\ f.c = c /\ f.e = k.epoch /\ Sq(f) % Window = i /\ Pos(k) <= f.n /\ f.n < Pos(k) + Window
            /\ Pos(k) \in 1..(MaxN + 1) /\ k.exp \in 0..(SeqCount - 1) /\ f \in Frames
        BY <2>1, <2>3, <3>1 DEF QueueOk, Queues
      <3> QED BY <3>2, Places
    <2> QED BY <2>1, <2>2, <2>3
  <1> QED BY <1>1, ReorderInvariant, PTL

\* A queue is being delivered exactly while the thread in delivery_thread carries frames
\* of it (delivery_in_progress, _linkg_transport_reorder_complete_emit_locked).
THEOREM OneDelivererAlways == Spec => []OneDeliverer
  <1>1. ReorderInv => OneDeliverer
    <2> SUFFICES ASSUME ReorderInv, NEW c \in Classes, NEW t \in Threads
                 PROVE  Carries(t, c) # {} <=> q[c].busy /\ q[c].owner = t
      BY DEF OneDeliverer
    <2>1. Carried
      BY DEF ReorderInv
    <2>2. Carries(t, c) = {f \in Carry(t) : f.c = c}
      BY DEF Carries, Carry
    <2>3. ASSUME Carries(t, c) # {} PROVE q[c].busy /\ q[c].owner = t
      BY <2>1, <2>2, <2>3 DEF Carried
    <2>4. ASSUME q[c].busy, q[c].owner = t PROVE Carries(t, c) # {}
      BY <2>1, <2>2, <2>4 DEF Carried
    <2> QED BY <2>3, <2>4
  <1> QED BY <1>1, ReorderInvariant, PTL

\* No handler runs with a frame of a life whose queues reset or unregister has cleared
\* (linkg_transport_reorder_reset_peer waits for the deliveries).
THEOREM ResetIsAlwaysQuiet == Spec => []ResetIsQuiet
  <1>1. ReorderInv => ResetIsQuiet
    <2> SUFFICES ASSUME ReorderInv, NEW t \in Threads, pc[t] = "hand"
                 PROVE  \/ \A f \in out[t] : f.e = epoch
                        \/ life \in {"reset", "unregister"} /\ \A f \in out[t] : f.e >= epoch - 1
      BY DEF ResetIsQuiet
    <2>1. Carried /\ QueuesAged /\ TypeOK
      BY DEF ReorderInv
    <2>2. ASSUME NEW f \in out[t] PROVE Aged(f.e) /\ f.e \in Nat
      <3>1. f \in Frames /\ f.c \in Classes /\ f.e \in Nat
        BY <2>1, <2>2, FrameIs DEF TypeOK
      <3>2. q[f.c].init /\ f.e = q[f.c].epoch
        BY <2>1, <2>2 DEF Carried, Carry
      <3> QED BY <2>1, <3>1, <3>2 DEF QueuesAged
    <2> QED BY <2>2 DEF Aged
  <1> QED BY <1>1, ReorderInvariant, PTL

\* Within a life the handler gets the frames of a class in the order of sending and none
\* twice, whichever threads deliver them (_linkg_transport_rx_flush_delivery).
THEOREM DeliveredInOrderHolds == Spec => DeliveredInOrder
  <1>1. ReorderInv => (\A t \in Threads : pc[t] = "emit" /\ pc'[t] = "hand" =>
                         \A f \in out[t] : f.e = epoch /\ f.e = last[f.c].e => f.n > last[f.c].n)
    <2> SUFFICES ASSUME ReorderInv, NEW t \in Threads, pc[t] = "emit", NEW f \in out[t],
                        f.e = epoch, f.e = last[f.c].e
                 PROVE  f.n > last[f.c].n
      OBVIOUS
    <2>1. f \in Frames /\ f.n \in Nat /\ f.c \in Classes
      BY FrameIs DEF ReorderInv, TypeOK
    <2>2. last[f.c].n \in Nat
      BY <2>1, Sizes DEF ReorderInv, TypeOK
    <2>3. last[f.c].n < f.n
      BY DEF ReorderInv, Delivered
    <2> QED BY <2>1, <2>2, <2>3
  <1> QED BY <1>1, ReorderInvariant, PTL DEF DeliveredInOrder

\* A frame that passed the receive window is dropped only because it is late, because the
\* Peer was reset or because its thread must not wait, never because the window is full
\* (linkg_transport_reorder_submit_batch, take_pressure_locked).
THEOREM FramesKeptHolds == Spec => FramesKept
  <1>1. KeptNow => (\A t \in Rx : \A f \in ToSet(todo[t]) \ ToSet(todo'[t]) :
                      \/ f \in Cached(q'[f.c]) \cup out'[t] \cup ready'[t]
                      \/ ~Matches(f) \/ (q[f.c].init /\ Late(q[f.c], f)) \/ SelfDelivering(t))
    BY DEF KeptNow, NotLost
  <1>2. ReorderInv /\ [Next]_vars => KeptNow
    BY StepOk
  <1> QED BY <1>1, <1>2, ReorderInvariant, PTL DEF FramesKept, Spec
=============================================================================
