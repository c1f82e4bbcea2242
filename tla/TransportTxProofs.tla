-------------------------- MODULE TransportTxProofs --------------------------
(***************************************************************************)
(* Sequence numbers of the sending side, for any number of threads, Peers, *)
(* slots, classes and links.  The inductive invariant says who owns which  *)
(* lock and slot (Owners), and that every number a link has seen lies at   *)
(* or below the mark the next number is taken from (Marks), also while a   *)
(* chunk is between its first frame and its end (Chunk).  Holders says who *)
(* works under a lock that is taken.                                       *)
(***************************************************************************)
EXTENDS TransportTx, FiniteSetTheorems, TLAPS

PeerRec == [valid: BOOLEAN, node: Nodes \cup {None}, epoch: Nat]
TxRec == [pc: {"idle", "order", "encode", "submit"},
          node: Nodes \cup {None}, slot: Slots \cup {None},
          class: Classes, left: Seq(Items), ids: Seq(Nat), id: Nat,
          start: [Streams -> Nat], batch: SUBSET FrameSet,
          todo: SUBSET Targets, got: SUBSET FrameSet]
LifeRec == [pc: {"idle", "drain", "caches"}, node: Nodes \cup {None},
            slot: Slots \cup {None}, op: {"none", "reset", "unregister"}, held: 0..NC]

\* TypeOK without the holder of g_transport.lock.
Types ==
  /\ peer \in [Slots -> PeerRec]
  /\ seq \in [Slots -> [Streams -> Nat]]
  /\ saved \in [Nodes -> [Streams -> Nat]]
  /\ order \in [Slots \X Classes -> Threads \cup Admins \cup {None}]
  /\ tx \in [Threads -> TxRec]
  /\ life \in [Admins -> LifeRec]
  /\ wire \in SUBSET [to: Targets, frame: FrameSet]
  /\ packetId \in 1..(IdCount - 1)
  /\ sent \in Nat

\* A slot whose sequences are saved and not yet back.
Resetting(s) == \E a \in Admins : life[a].pc = "caches" /\ life[a].slot = s
Busy(t) == tx[t].pc \in {"encode", "submit"}

\* A node has one slot.
OneSlot == \A s, r \in Slots : peer[s].valid /\ peer[r].valid /\ peer[s].node = peer[r].node => s = r

\* A sender knows a valid slot of its node, and owns the lock it works under.
SenderOk(t) ==
  /\ tx[t].pc # "idle" =>
       /\ tx[t].slot \in Slots /\ tx[t].node \in Nodes
       /\ peer[tx[t].slot].valid /\ peer[tx[t].slot].node = tx[t].node
  /\ tx[t].pc = "order" =>
       lock = t /\ Active(tx[t].slot) /\ tx[t].batch = {} /\ tx[t].got = {}
  /\ Busy(t) => order[<<tx[t].slot, tx[t].class>>] = t
  /\ tx[t].pc = "encode" => Len(tx[t].ids) = Len(tx[t].left)
SenderOwns == \A t \in Threads : SenderOk(t)

\* So does a life-cycle thread, and its slot is closed to new senders.
AdminOk(a) ==
  /\ life[a].pc # "idle" =>
       /\ life[a].slot \in Slots /\ life[a].node \in Nodes
       /\ peer[life[a].slot].valid /\ peer[life[a].slot].node = life[a].node
       /\ ~Active(life[a].slot)
       /\ \A b \in Admins : life[b].pc # "idle" /\ life[b].slot = life[a].slot => b = a
  /\ life[a].pc = "drain" =>
       /\ lock = a
       /\ \A c \in Classes : c < life[a].held => order[<<life[a].slot, c>>] = a
  /\ life[a].pc = "caches" =>
       \A t \in Threads : tx[t].pc # "idle" => tx[t].slot # life[a].slot
AdminOwns == \A a \in Admins : AdminOk(a)

Owners == OneSlot /\ SenderOwns /\ AdminOwns

\* Every number seen is covered by the counter of the Peer's slot, or by the saved
\* one while no slot has it.
Marks ==
  \A w \in wire :
    /\ \A s \in Slots :
         peer[s].valid /\ peer[s].node = w.frame.node /\ ~Resetting(s)
           => w.frame.seq <= seq[s][w.frame.stream]
    /\ (\A s \in Slots : peer[s].valid /\ peer[s].node = w.frame.node => Resetting(s))
         => w.frame.seq <= saved[w.frame.node][w.frame.stream]

\* The frames of a chunk have distinct numbers above the chunk's start; what was seen
\* of its streams lies at or below the start, or is a frame of the chunk some earlier
\* link accepted.
ChunkOf(t) ==
  /\ \A k \in Streams : k[1] = tx[t].class => tx[t].start[k] <= seq[tx[t].slot][k]
  /\ \A f \in tx[t].batch :
       /\ f.node = tx[t].node /\ f.stream[1] = tx[t].class
       /\ tx[t].start[f.stream] < f.seq /\ f.seq <= seq[tx[t].slot][f.stream]
  /\ \A f, g \in tx[t].batch : f.stream = g.stream /\ f.seq = g.seq => f = g
  /\ tx[t].got \subseteq tx[t].batch
  /\ tx[t].pc = "encode" => tx[t].got = {}
  /\ \A w \in wire :
       w.frame.node = tx[t].node /\ w.frame.stream[1] = tx[t].class =>
         \/ w.frame.seq <= tx[t].start[w.frame.stream]
         \/ w.frame \in tx[t].got /\ w.to \notin tx[t].todo

Chunk == \A t \in Threads : Busy(t) => ChunkOf(t)

TxInv == Types /\ Owners /\ Marks /\ Chunk /\ NumberNamesOneFrame

-----------------------------------------------------------------------------
\* Class 0 exists, so the idle records are typed.
LEMMA IdleTyped == IdleTx \in TxRec /\ IdleLife \in LifeRec /\ Zero \in [Streams -> Nat]
BY TxAssumption DEF IdleTx, IdleLife, TxRec, LifeRec, Zero, Streams, Classes

\* The range of a remainder.
LEMMA ModRange == ASSUME NEW a \in Int, NEW m \in Int, m > 0 PROVE a % m \in 0..(m - 1)
OBVIOUS

\* The epoch after an active one is not active.
LEMMA Parity == ASSUME NEW e \in Nat, e % 2 = 0 PROVE (e + 1) % 2 # 0
OBVIOUS

\* Packet ids stay between 1 and IdCount - 1.
LEMMA AdvancedTyped ==
  ASSUME NEW id \in 1..(IdCount - 1), NEW k \in Nat
  PROVE  Advanced(id, k) \in 1..(IdCount - 1)
<1> DEFINE m == IdCount - 1
<1> DEFINE a == id - 1 + k
<1>1. m \in Int /\ m > 0 /\ a \in Int
  BY TxAssumption
<1>2. Advanced(id, k) = (a % m) + 1
  BY DEF Advanced
<1> HIDE DEF m, a
<1>3. a % m \in 0..(m - 1)
  BY <1>1, ModRange
<1>4. (a % m) + 1 \in 1..m
  BY <1>1, <1>3
<1> QED BY <1>2, <1>4 DEF m

\* Counting the fragmented packets of a chunk gives a number.
LEMMA FragmentedTyped ==
  ASSUME NEW chunk, NEW n \in Int
  PROVE  Fragmented(chunk, n) \in Nat
<1>1. IsFiniteSet(1..n)
  BY FS_Interval
<1>2. IsFiniteSet({i \in 1..n : chunk[i].parts = 2})
  BY <1>1, FS_Subset
<1> QED BY <1>2, FS_CardinalityType DEF Fragmented
\* The frames an Encode step adds are frames.
LEMMA FramesTyped ==
  ASSUME Types, SenderOwns, NEW t \in Threads, tx[t].pc = "encode", tx[t].left # << >>
  PROVE  /\ Head(tx[t].left) \in Items /\ Tail(tx[t].left) \in Seq(Items)
         /\ Tail(tx[t].ids) \in Seq(Nat)
         /\ <<tx[t].class, Head(tx[t].left).kind>> \in Streams
         /\ tx[t].slot \in Slots /\ tx[t].node \in Nodes
         /\ Frames(t) \subseteq FrameSet
<1>1. /\ tx[t].left \in Seq(Items) /\ tx[t].ids \in Seq(Nat) /\ tx[t].class \in Classes
      /\ tx[t].id \in Nat
  BY DEF Types, TxRec
<1>2. tx[t].slot \in Slots /\ tx[t].node \in Nodes
  BY DEF SenderOwns, SenderOk, Busy
<1>3. Head(tx[t].left) \in Items /\ Tail(tx[t].left) \in Seq(Items)
  BY <1>1
<1>0. tx[t].ids # << >>
  <2>1. Len(tx[t].ids) = Len(tx[t].left)
    BY DEF SenderOwns, SenderOk
  <2>2. Len(tx[t].left) # 0
    BY <1>1
  <2> QED BY <2>1, <2>2
<1>4. Head(tx[t].ids) \in Nat /\ Tail(tx[t].ids) \in Seq(Nat)
  BY <1>0, <1>1
<1>5. <<tx[t].class, Head(tx[t].left).kind>> \in Streams
  BY <1>1, <1>3 DEF Items, Streams
<1>6. seq[tx[t].slot][<<tx[t].class, Head(tx[t].left).kind>>] \in Nat
  BY <1>2, <1>5 DEF Types
<1>7. Len(tx[t].left) \in Nat
  BY <1>1
<1>8. Frames(t) \subseteq FrameSet
  <2> SUFFICES ASSUME NEW f \in Frames(t) PROVE f \in FrameSet
    OBVIOUS
  <2> DEFINE k == <<tx[t].class, Head(tx[t].left).kind>>
  <2>1. PICK part \in 1..Head(tx[t].left).parts :
          f = [node |-> tx[t].node, stream |-> k, seq |-> seq[tx[t].slot][k] + part,
               chunk |-> tx[t].id, item |-> Len(tx[t].left), part |-> part,
               packet |-> Head(tx[t].ids)]
    BY DEF Frames
  <2>2. part \in {1, 2}
    BY <1>3 DEF Items
  <2>3. k \in Streams /\ seq[tx[t].slot][k] \in Nat /\ seq[tx[t].slot][k] + part \in Nat
    BY <1>5, <1>6, <2>2
  <2> HIDE DEF k
  <2> QED BY <1>1, <1>2, <1>4, <1>7, <2>1, <2>2, <2>3 DEF FrameSet
<1> QED BY <1>2, <1>3, <1>4, <1>5, <1>8

\* Every step keeps the types.
LEMMA TypesStep == Types /\ SenderOwns /\ AdminOwns /\ Next => Types'
<1> SUFFICES ASSUME Types, SenderOwns, AdminOwns, Next PROVE Types'
  OBVIOUS
<1>1. ASSUME NEW t \in Threads, NEW n \in Nodes, NEW c \in Classes, NEW chunk \in Chunks,
             AcquireState(t, n, c, chunk)
      PROVE  Types'
  <2>1. PICK s \in PeerSlots(n) :
          tx' = [tx EXCEPT ![t] = [IdleTx EXCEPT !.pc = "order", !.node = n, !.slot = s,
                                     !.class = c, !.left = chunk, !.id = sent]]
    BY <1>1 DEF AcquireState
  <2>2. chunk \in Seq(Items) /\ s \in Slots
    BY TxAssumption DEF PeerSlots
  <2>3. [IdleTx EXCEPT !.pc = "order", !.node = n, !.slot = s,
                       !.class = c, !.left = chunk, !.id = sent] \in TxRec
    BY <2>2, IdleTyped DEF TxRec, Types
  <2>4. tx' \in [Threads -> TxRec]
    BY <2>1, <2>3 DEF Types
  <2> QED BY <1>1, <2>4 DEF AcquireState, Types
<1>2. ASSUME NEW t \in Threads, LockOrder(t) PROVE Types'
  <2> DEFINE chunk == tx[t].left
  <2> DEFINE ids == [i \in 1..Len(chunk) |->
                       IF chunk[i].parts = 2
                         THEN Advanced(packetId, Fragmented(chunk, i - 1)) ELSE 0]
  <2>0. tx[t].pc = "order" /\ packetId \in 1..(IdCount - 1)
    BY <1>2 DEF LockOrder, Types
  <2>1. /\ tx[t] \in TxRec /\ chunk \in Seq(Items) /\ Len(chunk) \in Nat
        /\ tx[t].slot \in Slots /\ tx[t].class \in Classes
    <3>1. tx[t] \in TxRec
      BY DEF Types
    <3>2. chunk \in Seq(Items) /\ tx[t].class \in Classes
      BY <3>1 DEF TxRec
    <3>3. tx[t].slot \in Slots
      BY <2>0 DEF SenderOwns, SenderOk
    <3> QED BY <3>1, <3>2, <3>3
  <2> HIDE DEF chunk
  <2>2. packetId' \in 1..(IdCount - 1)
    <3>1. Fragmented(chunk, Len(chunk)) \in Nat
      BY <2>1, FragmentedTyped
    <3>2. Advanced(packetId, Fragmented(chunk, Len(chunk))) \in 1..(IdCount - 1)
      BY <3>1, <2>0, AdvancedTyped
    <3> QED BY <1>2, <3>2 DEF LockOrder, chunk
  <2>3. ASSUME NEW i \in 1..Len(chunk) PROVE ids[i] \in Nat
    <3>1. Fragmented(chunk, i - 1) \in Nat
      BY <2>1, FragmentedTyped
    <3>2. Advanced(packetId, Fragmented(chunk, i - 1)) \in 1..(IdCount - 1)
      BY <3>1, <2>0, AdvancedTyped
    <3> QED BY <3>2
  <2>4. ids \in Seq(Nat)
    <3>1. ids \in [1..Len(chunk) -> Nat]
      BY <2>3
    <3> QED BY <2>1, <3>1
  <2> HIDE DEF ids
  <2>5. tx' = [tx EXCEPT ![t] = [tx[t] EXCEPT !.pc = "encode", !.start = seq[tx[t].slot],
                                              !.ids = ids]]
    BY <1>2 DEF LockOrder, ids, chunk, Types
  <2>6. seq[tx[t].slot] \in [Streams -> Nat]
    BY <2>1 DEF Types
  <2>7. [tx[t] EXCEPT !.pc = "encode", !.start = seq[tx[t].slot], !.ids = ids] \in TxRec
    BY <2>1, <2>4, <2>6 DEF TxRec
  <2>8. tx' \in [Threads -> TxRec]
    BY <2>5, <2>7 DEF Types
  <2>9. order' \in [Slots \X Classes -> Threads \cup Admins \cup {None}]
    BY <1>2, <2>1 DEF LockOrder, Types
  <2> QED BY <1>2, <2>2, <2>8, <2>9 DEF LockOrder, Types
<1>3. ASSUME NEW t \in Threads, Encode(t) PROVE Types'
  <2>1. tx[t].pc = "encode" /\ tx[t].left # << >> /\ tx[t] \in TxRec
    BY <1>3 DEF Encode, Types
  <2>2. /\ Head(tx[t].left) \in Items /\ Tail(tx[t].left) \in Seq(Items)
        /\ Tail(tx[t].ids) \in Seq(Nat) /\ tx[t].slot \in Slots
        /\ <<tx[t].class, Head(tx[t].left).kind>> \in Streams
        /\ Frames(t) \subseteq FrameSet
    BY <2>1, FramesTyped
  <2>3. tx' = [tx EXCEPT ![t] = [tx[t] EXCEPT !.left = Tail(tx[t].left),
                                              !.ids = Tail(tx[t].ids),
                                              !.batch = tx[t].batch \cup Frames(t)]]
    BY <1>3 DEF Encode, Types
  <2>4. [tx[t] EXCEPT !.left = Tail(tx[t].left), !.ids = Tail(tx[t].ids),
                      !.batch = tx[t].batch \cup Frames(t)] \in TxRec
    BY <2>1, <2>2 DEF TxRec
  <2>5. tx' \in [Threads -> TxRec]
    BY <2>3, <2>4 DEF Types
  <2>6. Head(tx[t].left).parts \in Nat
    BY <2>2 DEF Items
  <2>7. seq' \in [Slots -> [Streams -> Nat]]
    <3> DEFINE k == <<tx[t].class, Head(tx[t].left).kind>>
    <3> DEFINE parts == Head(tx[t].left).parts
    <3>1. seq' = [seq EXCEPT ![tx[t].slot] =
                    [seq[tx[t].slot] EXCEPT ![k] = seq[tx[t].slot][k] + parts]]
      BY <1>3 DEF Encode, Types
    <3>2. seq[tx[t].slot] \in [Streams -> Nat] /\ k \in Streams /\ parts \in Nat
      BY <2>2, <2>6 DEF Types
    <3> HIDE DEF k, parts
    <3>3. [seq[tx[t].slot] EXCEPT ![k] = seq[tx[t].slot][k] + parts] \in [Streams -> Nat]
      BY <3>2
    <3> QED BY <3>1, <3>3 DEF Types
  <2> QED BY <1>3, <2>5, <2>7 DEF Encode, Types
<1>4. ASSUME NEW t \in Threads, tx[t].pc # "idle", seq' = TakenBack(t) \/ UNCHANGED seq,
             order' = Released(t), tx' = [tx EXCEPT ![t] = IdleTx],
             UNCHANGED <<peer, saved, packetId, life, sent, wire>>
      PROVE  Types'
  <2>1. tx[t] \in TxRec /\ tx[t].slot \in Slots
    BY <1>4 DEF Types, SenderOwns, SenderOk
  <2>2. tx[t].class \in Classes /\ tx[t].start \in [Streams -> Nat]
    BY <2>1 DEF TxRec
  <2>3. seq' \in [Slots -> [Streams -> Nat]]
    <3> DEFINE back == [k \in Streams |-> IF k[1] = tx[t].class THEN tx[t].start[k]
                                          ELSE seq[tx[t].slot][k]]
    <3>1. seq[tx[t].slot] \in [Streams -> Nat]
      BY <2>1 DEF Types
    <3>2. back \in [Streams -> Nat]
      BY <2>2, <3>1
    <3>3. TakenBack(t) = [seq EXCEPT ![tx[t].slot] = back]
      BY <2>1 DEF TakenBack, Types
    <3> HIDE DEF back
    <3> QED BY <1>4, <3>2, <3>3, ZenonT(40) DEF Types
  <2>4. order' \in [Slots \X Classes -> Threads \cup Admins \cup {None}]
    BY <1>4, <2>1, <2>2 DEF Released, Types
  <2>5. tx' \in [Threads -> TxRec]
    BY <1>4, IdleTyped DEF Types
  <2> QED BY <1>4, <2>3, <2>4, <2>5 DEF Types
<1>5. ASSUME NEW t \in Threads, EncodeFails(t) \/ FinishSend(t) PROVE Types'
  BY <1>4, <1>5 DEF EncodeFails, FinishSend
<1>6. ASSUME NEW t \in Threads, BeginSubmit(t) PROVE Types'
  <2>1. tx[t] \in TxRec
    BY DEF Types
  <2>2. [tx[t] EXCEPT !.pc = "submit", !.todo = Targets] \in TxRec
    BY <2>1 DEF TxRec
  <2>3. tx' = [tx EXCEPT ![t] = [tx[t] EXCEPT !.pc = "submit", !.todo = Targets]]
    BY <1>6 DEF BeginSubmit, Types
  <2>4. tx' \in [Threads -> TxRec]
    BY <2>2, <2>3 DEF Types
  <2> QED BY <1>6, <2>4 DEF BeginSubmit, Types
<1>7. ASSUME NEW t \in Threads, NEW g \in Targets, NEW F \in SUBSET tx[t].batch,
             Submit(t, g, F)
      PROVE  Types'
  <2>1. tx[t] \in TxRec
    BY DEF Types
  <2>2. F \subseteq FrameSet
    BY <2>1 DEF TxRec
  <2>3. [tx[t] EXCEPT !.todo = tx[t].todo \ {g}, !.got = tx[t].got \cup F] \in TxRec
    BY <2>1, <2>2 DEF TxRec
  <2>4. tx' = [tx EXCEPT ![t] = [tx[t] EXCEPT !.todo = tx[t].todo \ {g},
                                              !.got = tx[t].got \cup F]]
    BY <1>7 DEF Submit, Types
  <2>5. tx' \in [Threads -> TxRec]
    BY <2>3, <2>4 DEF Types
  <2>6. wire' \in SUBSET [to: Targets, frame: FrameSet]
    BY <1>7, <2>2 DEF Submit, Types
  <2> QED BY <1>7, <2>5, <2>6 DEF Submit, Types
<1>8. ASSUME NEW a \in Admins, NEW n \in Nodes, Register(a, n) PROVE Types'
  BY <1>8 DEF Register, Types, NextActive, Restored, PeerRec
<1>9. ASSUME NEW a \in Admins, NEW n \in Nodes, NEW op \in {"reset", "unregister"},
             Quiesce(a, n, op)
      PROVE  Types'
  <2>1. PICK s \in PeerSlots(n) :
          /\ peer' = [peer EXCEPT ![s].epoch = @ + 1]
          /\ life' = [life EXCEPT ![a] = [pc |-> "drain", node |-> n, slot |-> s,
                                          op |-> op, held |-> 0]]
    BY <1>9 DEF Quiesce
  <2>2. s \in Slots
    BY DEF PeerSlots
  <2>3. [pc |-> "drain", node |-> n, slot |-> s, op |-> op, held |-> 0] \in LifeRec
    BY <2>2, TxAssumption DEF LifeRec
  <2>4. life' \in [Admins -> LifeRec]
    BY <2>1, <2>3 DEF Types
  <2>5. peer' \in [Slots -> PeerRec]
    <3>1. peer[s] \in PeerRec
      BY <2>2 DEF Types
    <3>2. [peer[s] EXCEPT !.epoch = peer[s].epoch + 1] \in PeerRec
      BY <3>1 DEF PeerRec
    <3> QED BY <2>1, <3>2 DEF Types
  <2> QED BY <1>9, <2>4, <2>5 DEF Quiesce, Types
<1>10. ASSUME NEW a \in Admins, DrainClass(a) PROVE Types'
  <2>1. life[a] \in LifeRec /\ life[a].slot \in Slots
    BY <1>10 DEF DrainClass, Types, AdminOwns, AdminOk
  <2>2. life[a].held \in Classes /\ life[a].held + 1 \in 0..NC
    BY <1>10, <2>1, TxAssumption DEF DrainClass, LifeRec, Classes
  <2>3. [life[a] EXCEPT !.held = life[a].held + 1] \in LifeRec
    BY <2>1, <2>2 DEF LifeRec
  <2>4. life' = [life EXCEPT ![a] = [life[a] EXCEPT !.held = life[a].held + 1]]
    BY <1>10 DEF DrainClass, Types
  <2>5. life' \in [Admins -> LifeRec]
    BY <2>3, <2>4 DEF Types
  <2>6. order' \in [Slots \X Classes -> Threads \cup Admins \cup {None}]
    BY <1>10, <2>1, <2>2 DEF DrainClass, Types
  <2> QED BY <1>10, <2>5, <2>6 DEF DrainClass, Types
<1>11. ASSUME NEW a \in Admins, SaveAndReset(a) PROVE Types'
  <2>1. life[a] \in LifeRec /\ life[a].slot \in Slots /\ life[a].node \in Nodes
    BY <1>11 DEF SaveAndReset, Types, AdminOwns, AdminOk
  <2>2. [life[a] EXCEPT !.pc = "caches", !.held = 0] \in LifeRec
    <3>1. 0 \in 0..NC
      BY TxAssumption
    <3> QED BY <2>1, <3>1 DEF LifeRec
  <2>3. life' = [life EXCEPT ![a] = [life[a] EXCEPT !.pc = "caches", !.held = 0]]
    BY <1>11 DEF SaveAndReset, Types
  <2>4. life' \in [Admins -> LifeRec]
    BY <2>2, <2>3 DEF Types
  <2>5. saved' \in [Nodes -> [Streams -> Nat]] /\ seq' \in [Slots -> [Streams -> Nat]]
    BY <1>11, <2>1, IdleTyped DEF SaveAndReset, Types
  <2>6. order' \in [Slots \X Classes -> Threads \cup Admins \cup {None}]
    BY <1>11 DEF SaveAndReset, Types
  <2> QED BY <1>11, <2>4, <2>5, <2>6 DEF SaveAndReset, Types
<1>12. ASSUME NEW a \in Admins, Reactivate(a) PROVE Types'
  <2>1. life[a].slot \in Slots /\ life[a].node \in Nodes
    BY <1>12 DEF Reactivate, AdminOwns, AdminOk
  <2>2. life' \in [Admins -> LifeRec]
    BY <1>12, IdleTyped DEF Reactivate, Types
  <2>3. peer[life[a].slot] \in PeerRec
    BY <2>1 DEF Types
  <2>4. CASE life[a].op = "reset"
    <3>1. /\ seq' = [seq EXCEPT ![life[a].slot] = saved[life[a].node]]
          /\ peer' = [peer EXCEPT ![life[a].slot] =
                        [peer[life[a].slot] EXCEPT !.epoch = peer[life[a].slot].epoch + 1]]
      BY <1>12, <2>4 DEF Reactivate, Restored, Types
    <3>2. saved[life[a].node] \in [Streams -> Nat]
      BY <2>1 DEF Types
    <3>3. seq' \in [Slots -> [Streams -> Nat]]
      BY <3>1, <3>2 DEF Types
    <3>4. [peer[life[a].slot] EXCEPT !.epoch = peer[life[a].slot].epoch + 1] \in PeerRec
      BY <2>3 DEF PeerRec
    <3>5. peer' \in [Slots -> PeerRec]
      BY <3>1, <3>4 DEF Types
    <3> QED BY <1>12, <2>2, <3>3, <3>5 DEF Reactivate, Types
  <2>5. CASE life[a].op # "reset"
    <3>1. [peer[life[a].slot] EXCEPT !.valid = FALSE, !.node = None] \in PeerRec
      BY <2>3 DEF PeerRec
    <3>2. peer' = [peer EXCEPT ![life[a].slot] =
                     [peer[life[a].slot] EXCEPT !.valid = FALSE, !.node = None]]
      BY <1>12, <2>5 DEF Reactivate, Types
    <3>3. peer' \in [Slots -> PeerRec]
      BY <3>1, <3>2 DEF Types
    <3>4. UNCHANGED seq
      BY <1>12, <2>5 DEF Reactivate
    <3> QED BY <1>12, <2>2, <3>3, <3>4 DEF Reactivate, Types
  <2> QED BY <2>4, <2>5
<1> QED
  BY <1>1, <1>2, <1>3, <1>5, <1>6, <1>7, <1>8, <1>9, <1>10, <1>11, <1>12
  DEF Next, SendStep, LifeStep
-----------------------------------------------------------------------------
\* Who owns what: no step takes a lock or a slot away from its owner.
LEMMA OwnersStep == Types /\ Owners /\ Next => Owners'
<1> SUFFICES ASSUME Types, Owners, Next PROVE Owners'
  OBVIOUS
<1>o. OneSlot /\ SenderOwns /\ AdminOwns
  BY DEF Owners
<1>n. Threads \cap Admins = {} /\ None \notin Threads /\ None \notin Admins
  BY TxAssumption
<1>1. ASSUME NEW t \in Threads, NEW n \in Nodes, NEW c \in Classes, NEW chunk \in Chunks,
             AcquireState(t, n, c, chunk)
      PROVE  Owners'
  <2>1. PICK s \in PeerSlots(n) :
          /\ MaySend(s)
          /\ tx' = [tx EXCEPT ![t] = [IdleTx EXCEPT !.pc = "order", !.node = n, !.slot = s,
                                        !.class = c, !.left = chunk, !.id = sent]]
    BY <1>1 DEF AcquireState
  <2>2. s \in Slots /\ peer[s].valid /\ peer[s].node = n /\ Active(s)
    BY <2>1 DEF PeerSlots, MaySend
  <2>3. /\ tx'[t].pc = "order" /\ tx'[t].slot = s /\ tx'[t].node = n
        /\ tx'[t].batch = {} /\ tx'[t].got = {}
        /\ \A u \in Threads : u # t => tx'[u] = tx[u]
    BY <2>1 DEF Types, IdleTx
  <2>4. UNCHANGED <<peer, life, order>> /\ lock = None /\ lock' = t
    BY <1>1 DEF AcquireState
  <2>5. OneSlot'
    BY <1>o, <2>4 DEF OneSlot
  <2>6. SenderOwns'
    BY <1>o, <1>n, <2>2, <2>3, <2>4 DEF SenderOwns, SenderOk, Busy, Active
  <2>7. AdminOwns'
    BY <1>o, <1>n, <2>2, <2>3, <2>4 DEF AdminOwns, AdminOk, Active
  <2> QED BY <2>5, <2>6, <2>7 DEF Owners
<1>2. ASSUME NEW t \in Threads, LockOrder(t) PROVE Owners'
  <2> DEFINE k == <<tx[t].slot, tx[t].class>>
  <2>1. /\ tx[t].pc = "order" /\ tx'[t].pc = "encode" /\ tx'[t].slot = tx[t].slot
        /\ tx'[t].node = tx[t].node /\ tx'[t].class = tx[t].class
        /\ Len(tx'[t].ids) = Len(tx'[t].left)
        /\ \A u \in Threads : u # t => tx'[u] = tx[u]
    <3>1. tx[t] \in TxRec /\ tx[t].left \in Seq(Items)
      BY DEF Types, TxRec
    <3>2. /\ tx[t].pc = "order" /\ tx'[t].pc = "encode" /\ tx'[t].slot = tx[t].slot
          /\ tx'[t].node = tx[t].node /\ tx'[t].class = tx[t].class
          /\ tx'[t].left = tx[t].left
          /\ tx'[t].ids = [i \in 1..Len(tx[t].left) |->
                             IF tx[t].left[i].parts = 2
                               THEN Advanced(packetId, Fragmented(tx[t].left, i - 1)) ELSE 0]
          /\ \A u \in Threads : u # t => tx'[u] = tx[u]
      BY <1>2, <3>1 DEF LockOrder, Types, TxRec
    <3>3. Len(tx'[t].ids) = Len(tx[t].left)
      BY <3>1, <3>2
    <3> QED BY <3>2, <3>3
  <2>2. UNCHANGED <<peer, life>> /\ lock' = None /\ order[k] = None
    BY <1>2 DEF LockOrder
  <2>3. tx[t].slot \in Slots /\ tx[t].class \in Classes /\ lock = t
    BY <1>o, <2>1 DEF SenderOwns, SenderOk, Types, TxRec
  <2>4. order'[k] = t /\ \A x \in Slots \X Classes : x # k => order'[x] = order[x]
    BY <1>2, <2>3 DEF LockOrder, Types
  <2>5. OneSlot'
    BY <1>o, <2>2 DEF OneSlot
  <2>6. SenderOwns'
    <3> SUFFICES ASSUME NEW u \in Threads PROVE SenderOk(u)'
      BY DEF SenderOwns
    <3>1. CASE u = t
      BY <1>o, <2>1, <2>2, <2>4, <3>1 DEF SenderOwns, SenderOk, Busy, Active
    <3>2. CASE u # t
      <4>1. tx'[u] = tx[u] /\ tx[u] \in TxRec
        BY <2>1, <3>2 DEF Types
      <4>2. tx[u].pc # "order"
        BY <1>o, <2>3, <3>2 DEF SenderOwns, SenderOk
      <4>3. Busy(u) => /\ order[<<tx[u].slot, tx[u].class>>] = u
                       /\ <<tx[u].slot, tx[u].class>> \in Slots \X Classes
        BY <1>o, <4>1 DEF SenderOwns, SenderOk, Busy, TxRec
      <4>4. Busy(u) => <<tx[u].slot, tx[u].class>> # k
        BY <1>n, <2>2, <4>3
      <4>5. Busy(u)' => order'[<<tx'[u].slot, tx'[u].class>>] = u
        BY <2>4, <4>1, <4>3, <4>4 DEF Busy
      <4> QED BY <1>o, <2>2, <4>1, <4>2, <4>5 DEF SenderOwns, SenderOk, Busy, Active
    <3> QED BY <3>1, <3>2
  <2>7. AdminOwns'
    <3>1. \A a \in Admins : life[a].pc # "drain"
      BY <1>o, <1>n, <2>3 DEF AdminOwns, AdminOk
    <3>2. \A u \in Threads : tx'[u].pc # "idle" => tx[u].pc # "idle" /\ tx'[u].slot = tx[u].slot
      BY <2>1
    <3> QED BY <1>o, <2>2, <3>1, <3>2 DEF AdminOwns, AdminOk, Active
  <2> QED BY <2>5, <2>6, <2>7 DEF Owners
<1>3. ASSUME NEW t \in Threads, UNCHANGED <<peer, life, lock, order>>, Busy(t), Busy(t)',
             tx'[t].slot = tx[t].slot, tx'[t].node = tx[t].node, tx'[t].class = tx[t].class,
             tx'[t].pc = "encode" => Len(tx'[t].ids) = Len(tx'[t].left),
             \A u \in Threads : u # t => tx'[u] = tx[u]
      PROVE  Owners'
  <2>1. OneSlot'
    BY <1>o, <1>3 DEF OneSlot
  <2>2. ASSUME NEW u \in Threads PROVE SenderOk(u)'
    <3>1. CASE u = t
      BY <1>o, <1>3, <3>1 DEF SenderOwns, SenderOk, Busy, Active
    <3>2. CASE u # t
      BY <1>o, <1>3, <3>2 DEF SenderOwns, SenderOk, Busy, Active
    <3> QED BY <3>1, <3>2
  <2>3. \A u \in Threads : tx'[u].pc # "idle" => tx[u].pc # "idle" /\ tx'[u].slot = tx[u].slot
    BY <1>3 DEF Busy
  <2>4. AdminOwns'
    BY <1>o, <1>3, <2>3 DEF AdminOwns, AdminOk, Active
  <2> QED BY <2>1, <2>2, <2>4 DEF Owners, SenderOwns
<1>4. ASSUME NEW t \in Threads, Encode(t) PROVE Owners'
  <2>1. tx[t].pc = "encode" /\ tx[t].left # << >> /\ tx[t] \in TxRec
    BY <1>4 DEF Encode, Types
  <2>2. Len(tx[t].ids) = Len(tx[t].left)
    BY <1>o, <2>1 DEF SenderOwns, SenderOk
  <2>3. Len(Tail(tx[t].ids)) = Len(Tail(tx[t].left))
    <3>1. tx[t].ids \in Seq(Nat) /\ tx[t].left \in Seq(Items)
      BY <2>1 DEF TxRec
    <3>2. tx[t].ids # << >>
      BY <2>1, <2>2, <3>1
    <3> QED BY <2>1, <2>2, <3>1, <3>2
  <2>4. /\ tx'[t].pc = tx[t].pc /\ tx'[t].slot = tx[t].slot /\ tx'[t].node = tx[t].node
        /\ tx'[t].class = tx[t].class
        /\ tx'[t].ids = Tail(tx[t].ids) /\ tx'[t].left = Tail(tx[t].left)
        /\ \A u \in Threads : u # t => tx'[u] = tx[u]
    BY <1>4, <2>1 DEF Encode, Types, TxRec
  <2> QED BY <1>3, <1>4, <2>1, <2>3, <2>4 DEF Encode, Busy
<1>5. ASSUME NEW t \in Threads, BeginSubmit(t) PROVE Owners'
  <2>1. tx[t].pc = "encode" /\ tx[t] \in TxRec
    BY <1>5 DEF BeginSubmit, Types
  <2>2. /\ tx'[t].pc = "submit" /\ tx'[t].slot = tx[t].slot /\ tx'[t].node = tx[t].node
        /\ tx'[t].class = tx[t].class
        /\ \A u \in Threads : u # t => tx'[u] = tx[u]
    BY <1>5, <2>1 DEF BeginSubmit, Types, TxRec
  <2> QED BY <1>3, <1>5, <2>1, <2>2 DEF BeginSubmit, Busy
<1>6. ASSUME NEW t \in Threads, NEW g \in Targets, NEW F \in SUBSET tx[t].batch,
             Submit(t, g, F)
      PROVE  Owners'
  <2>1. tx[t].pc = "submit" /\ tx[t] \in TxRec
    BY <1>6 DEF Submit, Types
  <2>2. /\ tx'[t].pc = "submit" /\ tx'[t].slot = tx[t].slot /\ tx'[t].node = tx[t].node
        /\ tx'[t].class = tx[t].class
        /\ \A u \in Threads : u # t => tx'[u] = tx[u]
    BY <1>6, <2>1 DEF Submit, Types, TxRec
  <2> QED BY <1>3, <1>6, <2>1, <2>2 DEF Submit, Busy
<1>7. ASSUME NEW t \in Threads, EncodeFails(t) \/ FinishSend(t) PROVE Owners'
  <2> DEFINE k == <<tx[t].slot, tx[t].class>>
  <2>1. /\ Busy(t) /\ UNCHANGED <<peer, life, lock>> /\ order' = Released(t)
        /\ tx' = [tx EXCEPT ![t] = IdleTx]
    BY <1>7 DEF EncodeFails, FinishSend, Busy
  <2>2. tx'[t].pc = "idle" /\ \A u \in Threads : u # t => tx'[u] = tx[u]
    BY <2>1 DEF Types, IdleTx
  <2>3. tx[t].slot \in Slots /\ tx[t].class \in Classes /\ order[k] = t
    BY <1>o, <2>1 DEF SenderOwns, SenderOk, Busy, Types, TxRec
  <2>4. \A x \in Slots \X Classes : order[x] # t => order'[x] = order[x]
    BY <2>1, <2>3 DEF Released, Types
  <2>5. OneSlot'
    BY <1>o, <2>1 DEF OneSlot
  <2>6. ASSUME NEW u \in Threads PROVE SenderOk(u)'
    <3>1. CASE u = t
      BY <2>2, <3>1 DEF SenderOk, Busy
    <3>2. CASE u # t
      <4>1. tx'[u] = tx[u] /\ tx[u].class \in Classes
        BY <2>2, <3>2 DEF Types, TxRec
      <4>2. Busy(u) => order'[<<tx[u].slot, tx[u].class>>] = u
        BY <1>o, <2>4, <3>2, <4>1 DEF SenderOwns, SenderOk, Busy
      <4> QED BY <1>o, <2>1, <4>1, <4>2 DEF SenderOwns, SenderOk, Busy, Active
    <3> QED BY <3>1, <3>2
  <2>7. ASSUME NEW a \in Admins PROVE AdminOk(a)'
    <3>1. life[a].pc = "drain" =>
            \A c \in Classes : c < life[a].held => order'[<<life[a].slot, c>>] = a
      BY <1>o, <1>n, <2>4 DEF AdminOwns, AdminOk
    <3>2. \A u \in Threads : tx'[u].pc # "idle" => tx[u].pc # "idle" /\ tx'[u].slot = tx[u].slot
      BY <2>2
    <3> QED BY <1>o, <2>1, <3>1, <3>2 DEF AdminOwns, AdminOk, Active
  <2> QED BY <2>5, <2>6, <2>7 DEF Owners, SenderOwns, AdminOwns
<1>8. ASSUME NEW a \in Admins, NEW n \in Nodes, Register(a, n) PROVE Owners'
  <2>1. PICK s \in Slots :
          /\ ~peer[s].valid
          /\ peer' = [peer EXCEPT ![s] = [valid |-> TRUE, node |-> n,
                                          epoch |-> NextActive(peer[s].epoch)]]
    BY <1>8 DEF Register
  <2>2. UNCHANGED <<life, lock, order, tx>> /\ PeerSlots(n) = {}
    BY <1>8 DEF Register
  <2>3. /\ peer'[s].valid /\ peer'[s].node = n
        /\ \A r \in Slots : r # s => peer'[r] = peer[r]
    BY <2>1 DEF Types
  <2>4. OneSlot'
    BY <1>o, <2>2, <2>3 DEF OneSlot, PeerSlots
  <2>5. SenderOwns'
    BY <1>o, <2>1, <2>2, <2>3 DEF SenderOwns, SenderOk, Busy, Active
  <2>6. AdminOwns'
    BY <1>o, <2>1, <2>2, <2>3 DEF AdminOwns, AdminOk, Active
  <2> QED BY <2>4, <2>5, <2>6 DEF Owners
<1>9. ASSUME NEW a \in Admins, NEW n \in Nodes, NEW op \in {"reset", "unregister"},
             Quiesce(a, n, op)
      PROVE  Owners'
  <2>1. PICK s \in PeerSlots(n) :
          /\ Active(s)
          /\ peer' = [peer EXCEPT ![s].epoch = @ + 1]
          /\ life' = [life EXCEPT ![a] = [pc |-> "drain", node |-> n, slot |-> s,
                                          op |-> op, held |-> 0]]
    BY <1>9 DEF Quiesce
  <2>2. s \in Slots /\ peer[s].valid /\ peer[s].node = n
    BY DEF PeerSlots
  <2>3. /\ peer'[s].valid /\ peer'[s].node = n /\ peer'[s].epoch = peer[s].epoch + 1
        /\ \A r \in Slots : r # s => peer'[r] = peer[r]
    BY <2>1, <2>2 DEF Types, PeerRec
  <2>4. /\ life'[a].pc = "drain" /\ life'[a].slot = s /\ life'[a].node = n /\ life'[a].held = 0
        /\ \A b \in Admins : b # a => life'[b] = life[b]
    BY <2>1 DEF Types
  <2>5. UNCHANGED <<order, tx>> /\ lock = None /\ lock' = a /\ life[a].pc = "idle"
    BY <1>9 DEF Quiesce
  <2>6. ~Active(s)'
    <3>1. peer[s].epoch \in Nat /\ peer[s].epoch % 2 = 0
      BY <2>1, <2>2 DEF Active, Types, PeerRec
    <3> QED BY <2>3, <3>1, Parity DEF Active
  <2>7. OneSlot'
    BY <1>o, <2>2, <2>3 DEF OneSlot
  <2>8. SenderOwns'
    BY <1>o, <1>n, <2>2, <2>3, <2>5 DEF SenderOwns, SenderOk, Busy
  <2>9. ASSUME NEW b \in Admins PROVE AdminOk(b)'
    <3>1. CASE b = a
      BY <1>o, <2>1, <2>2, <2>3, <2>4, <2>5, <2>6, <3>1, TxAssumption
      DEF AdminOwns, AdminOk, Classes
    <3>2. CASE b # a
      <4>1. life'[b] = life[b] /\ life[b].pc # "drain"
        BY <1>o, <1>n, <2>4, <2>5, <3>2 DEF AdminOwns, AdminOk
      <4>2. life[b].pc # "idle" => life[b].slot # s
        BY <1>o, <2>1 DEF AdminOwns, AdminOk
      <4> QED BY <1>o, <2>3, <2>4, <2>5, <3>2, <4>1, <4>2 DEF AdminOwns, AdminOk, Active
    <3> QED BY <3>1, <3>2
  <2> QED BY <2>7, <2>8, <2>9 DEF Owners, AdminOwns
<1>10. ASSUME NEW a \in Admins, DrainClass(a) PROVE Owners'
  <2> DEFINE k == <<life[a].slot, life[a].held>>
  <2>1. /\ life[a].pc = "drain" /\ life[a].held < NC /\ order[k] = None
        /\ UNCHANGED <<peer, tx, lock>>
    BY <1>10 DEF DrainClass
  <2>2. life[a] \in LifeRec /\ life[a].held \in 0..NC /\ life[a].slot \in Slots
    BY <1>o, <2>1 DEF AdminOwns, AdminOk, Types, LifeRec
  <2>3. k \in Slots \X Classes
    BY <2>1, <2>2, TxAssumption DEF Classes
  <2>4. order'[k] = a /\ \A x \in Slots \X Classes : x # k => order'[x] = order[x]
    BY <1>10, <2>3 DEF DrainClass, Types
  <2>5. /\ life'[a].pc = "drain" /\ life'[a].slot = life[a].slot
        /\ life'[a].node = life[a].node /\ life'[a].held = life[a].held + 1
        /\ \A b \in Admins : b # a => life'[b] = life[b]
    BY <1>10, <2>2 DEF DrainClass, Types, LifeRec
  <2>6. OneSlot'
    BY <1>o, <2>1 DEF OneSlot
  <2>7. ASSUME NEW u \in Threads PROVE SenderOk(u)'
    <3>1. Busy(u) => /\ order[<<tx[u].slot, tx[u].class>>] = u
                     /\ <<tx[u].slot, tx[u].class>> \in Slots \X Classes
      BY <1>o DEF SenderOwns, SenderOk, Busy, Types, TxRec
    <3>2. Busy(u) => order'[<<tx[u].slot, tx[u].class>>] = u
      BY <1>n, <2>1, <2>4, <3>1
    <3> QED BY <1>o, <2>1, <3>2 DEF SenderOwns, SenderOk, Busy, Active
  <2>8. ASSUME NEW b \in Admins PROVE AdminOk(b)'
    <3>1. CASE b = a
      <4>1. \A c \in Classes : c < life'[a].held => order'[<<life'[a].slot, c>>] = a
        <5> SUFFICES ASSUME NEW c \in Classes, c < life'[a].held
                     PROVE  order'[<<life'[a].slot, c>>] = a
          OBVIOUS
        <5>1. CASE c = life[a].held
          BY <2>4, <2>5, <5>1
        <5>2. CASE c # life[a].held
          <6>1. c < life[a].held
            BY <2>2, <2>5, <5>2, TxAssumption DEF Classes
          <6>2. order[<<life[a].slot, c>>] = a
            BY <1>o, <2>1, <6>1 DEF AdminOwns, AdminOk
          <6> QED BY <2>2, <2>4, <2>5, <5>2, <6>2
        <5> QED BY <5>1, <5>2
      <4> QED BY <1>o, <2>1, <2>5, <3>1, <4>1 DEF AdminOwns, AdminOk, Active
    <3>2. CASE b # a
      <4>1. life'[b] = life[b] /\ life[b].pc # "drain"
        BY <1>o, <2>1, <2>5, <3>2 DEF AdminOwns, AdminOk
      <4> QED BY <1>o, <2>1, <2>5, <3>2, <4>1 DEF AdminOwns, AdminOk, Active
    <3> QED BY <3>1, <3>2
  <2> QED BY <2>6, <2>7, <2>8 DEF Owners, SenderOwns, AdminOwns
<1>11. ASSUME NEW a \in Admins, SaveAndReset(a) PROVE Owners'
  <2>1. /\ life[a].pc = "drain" /\ life[a].held = NC /\ lock' = None
        /\ UNCHANGED <<peer, tx>>
    BY <1>11 DEF SaveAndReset, MaySave
  <2>2. life[a] \in LifeRec /\ lock = a
    BY <1>o, <2>1 DEF AdminOwns, AdminOk, Types
  <2>3. \A x \in Slots \X Classes : order[x] # a => order'[x] = order[x]
    BY <1>11 DEF SaveAndReset, Types
  <2>4. /\ life'[a].pc = "caches" /\ life'[a].slot = life[a].slot
        /\ life'[a].node = life[a].node
        /\ \A b \in Admins : b # a => life'[b] = life[b]
    BY <1>11, <2>2 DEF SaveAndReset, Types, LifeRec
  <2>5. OneSlot'
    BY <1>o, <2>1 DEF OneSlot
  <2>6. ASSUME NEW u \in Threads PROVE tx[u].pc # "order" /\ SenderOk(u)'
    <3>1. tx[u].pc # "order"
      BY <1>o, <1>n, <2>2 DEF SenderOwns, SenderOk
    <3>2. Busy(u) => /\ order[<<tx[u].slot, tx[u].class>>] = u
                     /\ <<tx[u].slot, tx[u].class>> \in Slots \X Classes
      BY <1>o DEF SenderOwns, SenderOk, Busy, Types, TxRec
    <3>3. Busy(u) => order'[<<tx[u].slot, tx[u].class>>] = u
      BY <1>n, <2>3, <3>2
    <3> QED BY <1>o, <2>1, <3>1, <3>3 DEF SenderOwns, SenderOk, Busy, Active
  <2>7. ASSUME NEW u \in Threads, tx[u].pc # "idle" PROVE tx[u].slot # life[a].slot
    <3> SUFFICES ASSUME tx[u].slot = life[a].slot PROVE FALSE
      OBVIOUS
    <3>1. tx[u].class \in Classes /\ tx[u].pc \in {"idle", "order", "encode", "submit"}
      BY DEF Types, TxRec
    <3>2. order[<<tx[u].slot, tx[u].class>>] = u
      BY <1>o, <2>6, <2>7, <3>1 DEF SenderOwns, SenderOk, Busy
    <3>3. tx[u].class < life[a].held
      BY <2>1, <3>1, TxAssumption DEF Classes
    <3>4. order[<<life[a].slot, tx[u].class>>] = a
      BY <1>o, <2>1, <3>1, <3>3 DEF AdminOwns, AdminOk
    <3> QED BY <1>n, <3>2, <3>4
  <2>8. ASSUME NEW b \in Admins PROVE AdminOk(b)'
    <3>1. CASE b = a
      BY <1>o, <2>1, <2>4, <2>7, <3>1 DEF AdminOwns, AdminOk, Active
    <3>2. CASE b # a
      <4>1. life'[b] = life[b] /\ life[b].pc # "drain"
        BY <1>o, <2>2, <2>4, <3>2 DEF AdminOwns, AdminOk
      <4> QED BY <1>o, <2>1, <2>4, <3>2, <4>1 DEF AdminOwns, AdminOk, Active
    <3> QED BY <3>1, <3>2
  <2> QED BY <2>5, <2>6, <2>8 DEF Owners, SenderOwns, AdminOwns
<1>12. ASSUME NEW a \in Admins, Reactivate(a) PROVE Owners'
  <2> DEFINE s == life[a].slot
  <2>1. life[a].pc = "caches" /\ lock = None /\ UNCHANGED <<tx, lock, order>>
    BY <1>12 DEF Reactivate
  <2>2. /\ life'[a].pc = "idle" /\ \A b \in Admins : b # a => life'[b] = life[b]
    BY <1>12 DEF Reactivate, IdleLife, Types
  <2>3. s \in Slots /\ \A u \in Threads : tx[u].pc # "idle" => tx[u].slot # s
    BY <1>o, <2>1 DEF AdminOwns, AdminOk
  <2>4. /\ \A r \in Slots : r # s => peer'[r] = peer[r]
        /\ peer'[s].valid => peer[s].valid /\ peer'[s].node = peer[s].node
    <3>1. peer[s] \in PeerRec
      BY <2>3 DEF Types
    <3>2. CASE life[a].op = "reset"
      <4>1. peer' = [peer EXCEPT ![s] = [peer[s] EXCEPT !.epoch = peer[s].epoch + 1]]
        BY <1>12, <2>3, <3>2 DEF Reactivate, Types
      <4>2. /\ [peer[s] EXCEPT !.epoch = peer[s].epoch + 1].valid = peer[s].valid
            /\ [peer[s] EXCEPT !.epoch = peer[s].epoch + 1].node = peer[s].node
        BY <3>1 DEF PeerRec
      <4> QED BY <2>3, <4>1, <4>2 DEF Types
    <3>3. CASE life[a].op # "reset"
      BY <1>12, <2>3, <3>1, <3>3 DEF Reactivate, Types, PeerRec
    <3> QED BY <3>2, <3>3
  <2>5. OneSlot'
    BY <1>o, <2>3, <2>4 DEF OneSlot
  <2>6. SenderOwns'
    BY <1>o, <1>n, <2>1, <2>3, <2>4 DEF SenderOwns, SenderOk, Busy
  <2>7. ASSUME NEW b \in Admins PROVE AdminOk(b)'
    <3>1. CASE b = a
      BY <2>2, <3>1 DEF AdminOk
    <3>2. CASE b # a
      <4>1. life'[b] = life[b] /\ (life[b].pc # "idle" => life[b].slot # s)
        BY <1>o, <2>1, <2>2, <3>2 DEF AdminOwns, AdminOk
      <4>2. life[b].pc # "drain"
        BY <1>o, <1>n, <2>1 DEF AdminOwns, AdminOk
      <4> QED BY <1>o, <2>1, <2>2, <2>4, <3>2, <4>1, <4>2 DEF AdminOwns, AdminOk, Active
    <3> QED BY <3>1, <3>2
  <2> QED BY <2>5, <2>6, <2>7 DEF Owners, AdminOwns
<1> QED
  BY <1>1, <1>2, <1>4, <1>5, <1>6, <1>7, <1>8, <1>9, <1>10, <1>11, <1>12
  DEF Next, SendStep, LifeStep
-----------------------------------------------------------------------------
\* A slot between saving and restoring is resetting; no other step changes that.
LEMMA ResettingKept ==
  ASSUME Types, Owners, UNCHANGED life
  PROVE  \A s \in Slots : Resetting(s)' <=> Resetting(s)
BY DEF Resetting

\* A busy sender's slot is not being reset.
LEMMA BusyNotResetting ==
  ASSUME Types, Owners, NEW t \in Threads, tx[t].pc # "idle"
  PROVE  ~Resetting(tx[t].slot)
BY DEF Resetting, Owners, AdminOwns, AdminOk

\* Steps that leave the wire, the counters, the Peers and the life cycle alone.
LEMMA MarksKept ==
  ASSUME Types, Owners, Marks, UNCHANGED <<wire, peer, seq, saved, life>>
  PROVE  Marks'
BY ResettingKept DEF Marks

\* Two busy senders never share a class of a node.
LEMMA SendersApart ==
  ASSUME Types, Owners, NEW t \in Threads, NEW u \in Threads, t # u, Busy(t), Busy(u),
         tx[t].node = tx[u].node
  PROVE  tx[t].class # tx[u].class /\ tx[t].slot = tx[u].slot
<1>1. /\ tx[t].slot \in Slots /\ peer[tx[t].slot].valid /\ peer[tx[t].slot].node = tx[t].node
      /\ tx[u].slot \in Slots /\ peer[tx[u].slot].valid /\ peer[tx[u].slot].node = tx[u].node
  BY DEF Owners, SenderOwns, SenderOk, Busy
<1>2. tx[t].slot = tx[u].slot
  BY <1>1 DEF Owners, OneSlot
<1>3. order[<<tx[t].slot, tx[t].class>>] = t /\ order[<<tx[u].slot, tx[u].class>>] = u
  BY DEF Owners, SenderOwns, SenderOk
<1> QED BY <1>2, <1>3

\* The chunk of a thread is untouched by a step that leaves the thread and the wire
\* alone and the counters of the thread's class and slot as they are.
LEMMA ChunkKept ==
  ASSUME Types, Owners, NEW t \in Threads, Busy(t) => ChunkOf(t), UNCHANGED wire,
         tx'[t] = tx[t],
         Busy(t) => \A k \in Streams : k[1] = tx[t].class =>
                      seq'[tx[t].slot][k] = seq[tx[t].slot][k]
  PROVE  Busy(t)' => ChunkOf(t)'
<1> SUFFICES ASSUME Busy(t) PROVE ChunkOf(t)'
  BY DEF Busy
<1>1. \A f \in tx[t].batch : f \in FrameSet /\ f.stream \in Streams
  BY DEF Types, TxRec, FrameSet
<1> QED BY <1>1 DEF ChunkOf
\* What a step of one thread may do to the numbers of another's class.
LEMMA ChunkOthers ==
  ASSUME Types, Owners, Chunk, NEW t \in Threads, NEW u \in Threads, t # u, Busy(t),
         UNCHANGED wire, tx'[u] = tx[u],
         \A s \in Slots, k \in Streams :
           s # tx[t].slot \/ k[1] # tx[t].class => seq'[s][k] = seq[s][k]
  PROVE  Busy(u)' => ChunkOf(u)'
<1> SUFFICES ASSUME Busy(u)
             PROVE  \A k \in Streams : k[1] = tx[u].class => seq'[tx[u].slot][k] = seq[tx[u].slot][k]
  BY ChunkKept DEF Chunk
<1>1. tx[u].slot \in Slots
  BY DEF Owners, SenderOwns, SenderOk, Busy
<1>2. tx[u].slot = tx[t].slot => tx[u].class # tx[t].class
  <2>1. peer[tx[t].slot].node = tx[t].node /\ peer[tx[u].slot].node = tx[u].node
    BY DEF Owners, SenderOwns, SenderOk, Busy
  <2>2. tx[u].node = tx[t].node => tx[u].class # tx[t].class
    BY SendersApart
  <2> QED BY <2>1, <2>2
<1> QED BY <1>1, <1>2

\* The marks stay above every number seen.
LEMMA MarksStep == Types /\ Owners /\ Marks /\ Chunk /\ Types' /\ Next => Marks'
<1> SUFFICES ASSUME Types, Owners, Marks, Chunk, Types', Next PROVE Marks'
  OBVIOUS
<1>w. \A w \in wire : w.frame \in FrameSet /\ w.frame.stream \in Streams /\ w.frame.node \in Nodes
                      /\ w.frame.seq \in Nat
  BY DEF Types, FrameSet
<1>1. ASSUME NEW t \in Threads, NEW n \in Nodes, NEW c \in Classes, NEW chunk \in Chunks,
             AcquireState(t, n, c, chunk)
      PROVE  Marks'
  BY <1>1, MarksKept DEF AcquireState
<1>2. ASSUME NEW t \in Threads, LockOrder(t) \/ BeginSubmit(t) PROVE Marks'
  BY <1>2, MarksKept DEF LockOrder, BeginSubmit
<1>3. ASSUME NEW t \in Threads, Encode(t) PROVE Marks'
  <2>1. UNCHANGED <<wire, peer, saved, life>>
    BY <1>3 DEF Encode
  <2>2. \A s \in Slots, k \in Streams : seq[s][k] <= seq'[s][k]
    <3>1. /\ Head(tx[t].left) \in Items /\ tx[t].slot \in Slots
          /\ <<tx[t].class, Head(tx[t].left).kind>> \in Streams
      BY <1>3, FramesTyped DEF Encode, Owners
    <3> DEFINE k == <<tx[t].class, Head(tx[t].left).kind>>
    <3> DEFINE p == Head(tx[t].left).parts
    <3> DEFINE r == tx[t].slot
    <3>2. p \in Nat /\ k \in Streams /\ r \in Slots
      BY <3>1 DEF Items
    <3>3. seq' = [seq EXCEPT ![r] = [seq[r] EXCEPT ![k] = seq[r][k] + p]]
      BY <1>3, <3>1 DEF Encode, Types
    <3> HIDE DEF k, p, r
    <3> QED BY <3>2, <3>3 DEF Types
  <2>3. \A s \in Slots, k \in Streams : seq[s][k] \in Nat /\ seq'[s][k] \in Nat
    BY DEF Types
  <2> QED BY <1>w, <2>1, <2>2, <2>3, ResettingKept DEF Marks
<1>4. ASSUME NEW t \in Threads, EncodeFails(t) \/ FinishSend(t) PROVE Marks'
  <2>1. Busy(t) /\ UNCHANGED <<wire, peer, saved, life>>
    BY <1>4 DEF EncodeFails, FinishSend, Busy
  <2>2. CASE UNCHANGED seq
    BY <2>1, <2>2, MarksKept
  <2>3. CASE seq' = TakenBack(t) /\ tx[t].got = {}
    <3>1. tx[t].slot \in Slots /\ peer[tx[t].slot].node = tx[t].node
      BY <2>1 DEF Owners, SenderOwns, SenderOk, Busy
    <3>2. \A k \in Streams : seq'[tx[t].slot][k] =
            IF k[1] = tx[t].class THEN tx[t].start[k] ELSE seq[tx[t].slot][k]
      BY <2>3, <3>1 DEF TakenBack, Types
    <3>3. \A s \in Slots : s # tx[t].slot => seq'[s] = seq[s]
      BY <2>3, <3>1 DEF TakenBack, Types
    <3>4. ASSUME NEW w \in wire, w.frame.node = tx[t].node, w.frame.stream[1] = tx[t].class
          PROVE  w.frame.seq <= tx[t].start[w.frame.stream]
      BY <2>1, <2>3, <3>4 DEF Chunk, ChunkOf
    <3> QED BY <1>w, <2>1, <3>1, <3>2, <3>3, <3>4, ResettingKept DEF Marks
  <2>4. UNCHANGED seq \/ (seq' = TakenBack(t) /\ tx[t].got = {})
    BY <1>4, <2>1 DEF EncodeFails, FinishSend, Unseen, Chunk, ChunkOf
  <2> QED BY <2>2, <2>3, <2>4
<1>5. ASSUME NEW t \in Threads, NEW g \in Targets, NEW F \in SUBSET tx[t].batch,
             Submit(t, g, F)
      PROVE  Marks'
  <2>1. Busy(t) /\ UNCHANGED <<peer, seq, saved, life>>
    BY <1>5 DEF Submit, Busy
  <2>2. wire' = wire \cup {[to |-> g, frame |-> f] : f \in F}
    BY <1>5 DEF Submit
  <2>3. /\ tx[t].slot \in Slots /\ peer[tx[t].slot].valid
        /\ peer[tx[t].slot].node = tx[t].node /\ ~Resetting(tx[t].slot)
    BY <2>1, BusyNotResetting DEF Owners, SenderOwns, SenderOk, Busy
  <2>4. ASSUME NEW f \in F
        PROVE  f.node = tx[t].node /\ f.seq <= seq[tx[t].slot][f.stream]
    BY <2>1 DEF Chunk, ChunkOf
  <2>5. ASSUME NEW s \in Slots, peer[s].valid, peer[s].node = tx[t].node
        PROVE  s = tx[t].slot
    BY <2>3, <2>5 DEF Owners, OneSlot
  <2>6. ASSUME NEW w \in wire'
        PROVE  /\ \A s \in Slots : peer[s].valid /\ peer[s].node = w.frame.node /\ ~Resetting(s)
                     => w.frame.seq <= seq[s][w.frame.stream]
               /\ (\A s \in Slots : peer[s].valid /\ peer[s].node = w.frame.node => Resetting(s))
                     => w.frame.seq <= saved[w.frame.node][w.frame.stream]
    <3>1. CASE w \in wire
      BY <3>1 DEF Marks
    <3>2. CASE w \notin wire
      <4>1. w.frame \in F
        BY <2>2, <3>2
      <4> QED BY <2>3, <2>4, <2>5, <4>1
    <3> QED BY <3>1, <3>2
  <2> QED BY <2>1, <2>6, ResettingKept DEF Marks
<1>6. ASSUME NEW a \in Admins, NEW n \in Nodes, Register(a, n) PROVE Marks'
  <2>1. UNCHANGED <<wire, saved, life>> /\ PeerSlots(n) = {}
    BY <1>6 DEF Register
  <2>2. PICK s \in Slots :
          /\ ~peer[s].valid
          /\ peer' = [peer EXCEPT ![s] = [valid |-> TRUE, node |-> n,
                                          epoch |-> NextActive(peer[s].epoch)]]
          /\ seq' = [seq EXCEPT ![s] = saved[n]]
    BY <1>6 DEF Register, Restored
  <2>3. /\ peer'[s].valid /\ peer'[s].node = n /\ seq'[s] = saved[n]
        /\ \A r \in Slots : r # s => peer'[r] = peer[r] /\ seq'[r] = seq[r]
    BY <2>2 DEF Types
  <2>4. ~Resetting(s)
    BY <2>2 DEF Resetting, Owners, AdminOwns, AdminOk
  <2>5. \A r \in Slots : peer[r].valid => peer[r].node # n
    BY <2>1 DEF PeerSlots
  <2>6. ASSUME NEW w \in wire
        PROVE  /\ \A r \in Slots : peer'[r].valid /\ peer'[r].node = w.frame.node /\ ~Resetting(r)
                     => w.frame.seq <= seq'[r][w.frame.stream]
               /\ (\A r \in Slots : peer'[r].valid /\ peer'[r].node = w.frame.node => Resetting(r))
                     => w.frame.seq <= saved[w.frame.node][w.frame.stream]
    <3>1. CASE w.frame.node = n
      <4>1. w.frame.seq <= saved[n][w.frame.stream]
        BY <2>5, <3>1 DEF Marks
      <4> QED BY <2>3, <2>5, <3>1, <4>1
    <3>2. CASE w.frame.node # n
      <4>1. \A r \in Slots : peer'[r].valid /\ peer'[r].node = w.frame.node
                               <=> peer[r].valid /\ peer[r].node = w.frame.node
        BY <2>2, <2>3, <3>2
      <4>2. \A r \in Slots : peer'[r].valid /\ peer'[r].node = w.frame.node => seq'[r] = seq[r]
        BY <2>3, <3>2
      <4> QED BY <4>1, <4>2 DEF Marks
    <3> QED BY <3>1, <3>2
  <2> QED BY <2>1, <2>6, ResettingKept DEF Marks
<1>7. ASSUME NEW a \in Admins, NEW n \in Nodes, NEW op \in {"reset", "unregister"},
             Quiesce(a, n, op)
      PROVE  Marks'
  <2>1. UNCHANGED <<wire, seq, saved>> /\ life[a].pc = "idle"
    BY <1>7 DEF Quiesce
  <2>2. \A s \in Slots : Resetting(s)' <=> Resetting(s)
    <3>1. life'[a].pc = "drain" /\ \A b \in Admins : b # a => life'[b] = life[b]
      BY <1>7 DEF Quiesce, Types
    <3> QED BY <2>1, <3>1 DEF Resetting
  <2>3. \A s \in Slots : peer'[s].valid = peer[s].valid /\ peer'[s].node = peer[s].node
    <3>1. PICK s \in Slots : peer' = [peer EXCEPT ![s] = [peer[s] EXCEPT !.epoch = peer[s].epoch + 1]]
      BY <1>7 DEF Quiesce, Types, PeerSlots
    <3>2. peer[s] \in PeerRec
      BY DEF Types
    <3> QED BY <3>1, <3>2 DEF Types, PeerRec
  <2> QED BY <2>1, <2>2, <2>3 DEF Marks
<1>8. ASSUME NEW a \in Admins, DrainClass(a) PROVE Marks'
  <2>1. UNCHANGED <<wire, seq, saved, peer>> /\ life[a].pc = "drain"
    BY <1>8 DEF DrainClass
  <2>2. \A s \in Slots : Resetting(s)' <=> Resetting(s)
    <3>1. life'[a].pc = "drain" /\ \A b \in Admins : b # a => life'[b] = life[b]
      BY <1>8 DEF DrainClass, Types, LifeRec
    <3> QED BY <2>1, <3>1 DEF Resetting
  <2> QED BY <2>1, <2>2 DEF Marks
<1>9. ASSUME NEW a \in Admins, SaveAndReset(a) PROVE Marks'
  <2> DEFINE s == life[a].slot
  <2>1. UNCHANGED <<wire, peer>> /\ life[a].pc = "drain"
    BY <1>9 DEF SaveAndReset
  <2>2. /\ s \in Slots /\ life[a].node \in Nodes /\ peer[s].valid /\ peer[s].node = life[a].node
        /\ ~Resetting(s)
    BY <2>1 DEF Resetting, Owners, AdminOwns, AdminOk
  <2>3. /\ saved'[peer[s].node] = seq[s]
        /\ \A n \in Nodes : n # peer[s].node => saved'[n] = saved[n]
        /\ \A r \in Slots : r # s => seq'[r] = seq[r]
    BY <1>9, <2>2 DEF SaveAndReset, Types
  <2>4. \A r \in Slots : Resetting(r)' <=> Resetting(r) \/ r = s
    <3>1. /\ life'[a].pc = "caches" /\ life'[a].slot = s
          /\ \A b \in Admins : b # a => life'[b] = life[b]
      BY <1>9 DEF SaveAndReset, Types, LifeRec
    <3> QED BY <2>1, <3>1 DEF Resetting
  <2>5. \A r \in Slots : peer[r].valid /\ peer[r].node = peer[s].node => r = s
    BY <2>2 DEF Owners, OneSlot
  <2> HIDE DEF s
  <2>6. ASSUME NEW w \in wire
        PROVE  /\ \A r \in Slots : peer[r].valid /\ peer[r].node = w.frame.node /\ ~Resetting(r)'
                     => w.frame.seq <= seq'[r][w.frame.stream]
               /\ (\A r \in Slots : peer[r].valid /\ peer[r].node = w.frame.node => Resetting(r)')
                     => w.frame.seq <= saved'[w.frame.node][w.frame.stream]
    <3>1. \A r \in Slots : peer[r].valid /\ peer[r].node = w.frame.node /\ ~Resetting(r)'
            => w.frame.seq <= seq'[r][w.frame.stream]
      BY <2>3, <2>4 DEF Marks
    <3>2. CASE w.frame.node = peer[s].node
      BY <2>2, <2>3, <3>1, <3>2 DEF Marks
    <3>3. CASE w.frame.node # peer[s].node
      BY <1>w, <2>3, <2>4, <3>1, <3>3 DEF Marks
    <3> QED BY <3>2, <3>3
  <2> QED BY <2>1, <2>6 DEF Marks
<1>10. ASSUME NEW a \in Admins, Reactivate(a) PROVE Marks'
  <2> DEFINE s == life[a].slot
  <2>1. UNCHANGED <<wire, saved>> /\ life[a].pc = "caches"
    BY <1>10 DEF Reactivate
  <2>2. /\ s \in Slots /\ peer[s].valid /\ peer[s].node = life[a].node /\ Resetting(s)
    BY <2>1 DEF Resetting, Owners, AdminOwns, AdminOk
  <2>3. \A r \in Slots : Resetting(r)' <=> Resetting(r) /\ r # s
    <3>1. life'[a].pc = "idle" /\ \A b \in Admins : b # a => life'[b] = life[b]
      BY <1>10 DEF Reactivate, IdleLife, Types
    <3>2. \A b \in Admins : life[b].pc # "idle" /\ life[b].slot = s => b = a
      BY <2>1 DEF Owners, AdminOwns, AdminOk
    <3> QED BY <2>1, <3>1, <3>2 DEF Resetting
  <2>4. /\ \A r \in Slots : r # s => peer'[r] = peer[r] /\ seq'[r] = seq[r]
        /\ peer'[s].valid => peer'[s].node = peer[s].node /\ seq'[s] = saved[peer[s].node]
    <3>1. peer[s] \in PeerRec
      BY <2>2 DEF Types
    <3>2. CASE life[a].op = "reset"
      <4>1. peer' = [peer EXCEPT ![s] = [peer[s] EXCEPT !.epoch = peer[s].epoch + 1]]
        BY <1>10, <2>2, <3>2 DEF Reactivate, Types
      <4>2. [peer[s] EXCEPT !.epoch = peer[s].epoch + 1].node = peer[s].node
        BY <3>1 DEF PeerRec
      <4>3. seq' = [seq EXCEPT ![s] = saved[peer[s].node]]
        BY <1>10, <2>2, <3>2 DEF Reactivate, Restored
      <4> QED BY <2>2, <4>1, <4>2, <4>3 DEF Types
    <3>3. CASE life[a].op # "reset"
      BY <1>10, <2>2, <3>1, <3>3 DEF Reactivate, Types, PeerRec
    <3> QED BY <3>2, <3>3
  <2>5. \A r \in Slots : peer[r].valid /\ peer[r].node = peer[s].node => r = s
    BY <2>2 DEF Owners, OneSlot
  <2> HIDE DEF s
  <2>6. ASSUME NEW w \in wire
        PROVE  /\ \A r \in Slots : peer'[r].valid /\ peer'[r].node = w.frame.node /\ ~Resetting(r)'
                     => w.frame.seq <= seq'[r][w.frame.stream]
               /\ (\A r \in Slots : peer'[r].valid /\ peer'[r].node = w.frame.node => Resetting(r)')
                     => w.frame.seq <= saved[w.frame.node][w.frame.stream]
    <3>1. CASE w.frame.node = peer[s].node
      <4>1. w.frame.seq <= saved[w.frame.node][w.frame.stream]
        BY <2>2, <2>5, <3>1 DEF Marks
      <4> QED BY <2>4, <2>5, <3>1, <4>1
    <3>2. CASE w.frame.node # peer[s].node
      BY <2>2, <2>3, <2>4, <3>2 DEF Marks
    <3> QED BY <3>1, <3>2
  <2> QED BY <2>1, <2>6 DEF Marks
<1> QED
  BY <1>1, <1>2, <1>3, <1>4, <1>5, <1>6, <1>7, <1>8, <1>9, <1>10 DEF Next, SendStep, LifeStep
-----------------------------------------------------------------------------
\* Frames of chunks stay apart.
LEMMA ChunkStep == Types /\ Owners /\ Marks /\ Chunk /\ Types' /\ Next => Chunk'
<1> SUFFICES ASSUME Types, Owners, Marks, Chunk, Types', Next PROVE Chunk'
  OBVIOUS
<1>w. \A w \in wire : w.frame \in FrameSet /\ w.frame.stream \in Streams /\ w.frame.node \in Nodes
                      /\ w.frame.seq \in Nat
  BY DEF Types, FrameSet
<1>1. ASSUME NEW t \in Threads, NEW n \in Nodes, NEW c \in Classes, NEW chunk \in Chunks,
             AcquireState(t, n, c, chunk)
      PROVE  Chunk'
  <2>1. /\ UNCHANGED <<wire, seq>> /\ tx'[t].pc = "order"
        /\ \A u \in Threads : u # t => tx'[u] = tx[u]
    BY <1>1 DEF AcquireState, IdleTx, Types
  <2>2. ~Busy(t)'
    BY <2>1 DEF Busy
  <2>3. ASSUME NEW u \in Threads, u # t PROVE Busy(u)' => ChunkOf(u)'
    BY <2>1, <2>3, ChunkKept DEF Chunk
  <2> QED BY <2>2, <2>3 DEF Chunk
<1>2. ASSUME NEW t \in Threads, LockOrder(t) PROVE Chunk'
  <2>1. /\ UNCHANGED <<wire, seq, peer, life>> /\ tx[t].pc = "order"
        /\ \A u \in Threads : u # t => tx'[u] = tx[u]
    BY <1>2 DEF LockOrder, Types
  <2>2. tx[t] \in TxRec
    BY DEF Types
  <2>3. /\ tx'[t].pc = "encode" /\ tx'[t].start = seq[tx[t].slot] /\ tx'[t].slot = tx[t].slot
        /\ tx'[t].class = tx[t].class /\ tx'[t].node = tx[t].node
        /\ tx'[t].batch = tx[t].batch /\ tx'[t].got = tx[t].got
    BY <1>2, <2>2 DEF LockOrder, Types, TxRec
  <2>4. /\ tx[t].batch = {} /\ tx[t].got = {} /\ tx[t].slot \in Slots
        /\ peer[tx[t].slot].valid /\ peer[tx[t].slot].node = tx[t].node
    BY <2>1 DEF Owners, SenderOwns, SenderOk
  <2>5. ~Resetting(tx[t].slot)
    BY <2>1, BusyNotResetting
  <2>6. \A w \in wire : w.frame.node = tx[t].node => w.frame.seq <= seq[tx[t].slot][w.frame.stream]
    BY <2>4, <2>5 DEF Marks
  <2>7. \A k \in Streams : seq[tx[t].slot][k] \in Nat
    BY <2>4 DEF Types
  <2>8. ChunkOf(t)'
    BY <2>1, <2>3, <2>4, <2>6, <2>7 DEF ChunkOf
  <2>9. ASSUME NEW u \in Threads, u # t PROVE Busy(u)' => ChunkOf(u)'
    BY <2>1, <2>9, ChunkKept DEF Chunk
  <2> QED BY <2>8, <2>9 DEF Chunk
<1>3. ASSUME NEW t \in Threads, Encode(t) PROVE Chunk'
  <2> DEFINE k == <<tx[t].class, Head(tx[t].left).kind>>
  <2> DEFINE p == Head(tx[t].left).parts
  <2> DEFINE r == tx[t].slot
  <2>1. /\ UNCHANGED wire /\ tx[t].pc = "encode" /\ tx[t].left # << >> /\ Busy(t)
        /\ \A u \in Threads : u # t => tx'[u] = tx[u]
    BY <1>3 DEF Encode, Types, Busy
  <2>2. k \in Streams /\ r \in Slots /\ p \in {1, 2} /\ k[1] = tx[t].class
    BY <2>1, FramesTyped DEF Owners, Items
  <2>3. seq' = [seq EXCEPT ![r] = [seq[r] EXCEPT ![k] = seq[r][k] + p]]
    BY <1>3, <2>2 DEF Encode, Types
  <2>4. /\ seq'[r][k] = seq[r][k] + p /\ seq[r][k] \in Nat
        /\ \A x \in Slots, j \in Streams : x # r \/ j # k => seq'[x][j] = seq[x][j]
        /\ \A j \in Streams : seq[r][j] \in Nat /\ seq'[r][j] \in Nat /\ seq[r][j] <= seq'[r][j]
    <3> HIDE DEF k, p, r
    <3> QED BY <2>2, <2>3 DEF Types
  <2>5. tx[t] \in TxRec
    BY DEF Types
  <2>6. /\ tx'[t].pc = "encode" /\ tx'[t].start = tx[t].start /\ tx'[t].slot = r
        /\ tx'[t].class = tx[t].class /\ tx'[t].node = tx[t].node
        /\ tx'[t].got = tx[t].got /\ tx'[t].todo = tx[t].todo
        /\ tx'[t].batch = tx[t].batch \cup Frames(t)
    BY <1>3, <2>1, <2>5 DEF Encode, Types, TxRec
  <2>7. \A f \in Frames(t) : /\ f.node = tx[t].node /\ f.stream = k
                              /\ f.seq = seq[r][k] + f.part /\ f.part \in 1..p
                              /\ f = [node |-> tx[t].node, stream |-> k, seq |-> seq[r][k] + f.part,
                                       chunk |-> tx[t].id, item |-> Len(tx[t].left),
                                       part |-> f.part, packet |-> Head(tx[t].ids)]
    BY DEF Frames
  <2>8. ChunkOf(t)
    BY <2>1 DEF Chunk
  <2>9. \A f \in tx[t].batch : f.stream \in Streams /\ f.seq \in Nat
    BY <2>5 DEF TxRec, FrameSet
  <2>10. \A j \in Streams : tx[t].start[j] \in Nat
    BY <2>5 DEF TxRec
  <2> HIDE DEF k, p, r
  <2>11. \A j \in Streams : j[1] = tx'[t].class => tx'[t].start[j] <= seq'[tx'[t].slot][j]
    BY <2>4, <2>6, <2>8, <2>10 DEF ChunkOf, r
  <2>12. ASSUME NEW f \in tx'[t].batch
         PROVE  /\ f.node = tx'[t].node /\ f.stream[1] = tx'[t].class
                /\ tx'[t].start[f.stream] < f.seq /\ f.seq <= seq'[tx'[t].slot][f.stream]
    <3>1. CASE f \in tx[t].batch
      BY <2>4, <2>6, <2>8, <2>9, <2>10, <3>1 DEF ChunkOf, r
    <3>2. CASE f \in Frames(t)
      <4>1. tx[t].start[k] <= seq[r][k]
        BY <2>2, <2>8 DEF ChunkOf, r
      <4> QED BY <2>2, <2>4, <2>6, <2>7, <2>10, <3>2, <4>1
    <3> QED BY <2>6, <3>1, <3>2
  <2>13. ASSUME NEW f \in tx'[t].batch, NEW g \in tx'[t].batch, f.stream = g.stream, f.seq = g.seq
         PROVE  f = g
    <3>1. ASSUME NEW x \in tx[t].batch, NEW y \in Frames(t), x.stream = y.stream PROVE x.seq # y.seq
      BY <2>2, <2>4, <2>7, <2>8, <2>9, <3>1 DEF ChunkOf, r
    <3>2. CASE f \in tx[t].batch /\ g \in tx[t].batch
      BY <2>8, <2>13, <3>2 DEF ChunkOf
    <3>3. CASE f \in Frames(t) /\ g \in Frames(t)
      <4>1. f.part = g.part
        BY <2>4, <2>7, <2>2, <2>13, <3>3
      <4> QED BY <2>7, <3>3, <4>1
    <3> QED BY <2>6, <2>13, <3>1, <3>2, <3>3
  <2>14. ChunkOf(t)'
    BY <2>1, <2>6, <2>8, <2>11, <2>12, <2>13 DEF ChunkOf
  <2>15. ASSUME NEW u \in Threads, u # t PROVE Busy(u)' => ChunkOf(u)'
    <3>1. \A x \in Slots, j \in Streams : x # tx[t].slot \/ j[1] # tx[t].class => seq'[x][j] = seq[x][j]
      BY <2>2, <2>4 DEF r
    <3> QED BY <2>1, <2>15, <3>1, ChunkOthers
  <2> QED BY <2>14, <2>15 DEF Chunk
<1>4. ASSUME NEW t \in Threads, EncodeFails(t) \/ FinishSend(t) PROVE Chunk'
  <2>1. /\ UNCHANGED wire /\ Busy(t) /\ tx'[t].pc = "idle"
        /\ \A u \in Threads : u # t => tx'[u] = tx[u]
    BY <1>4 DEF EncodeFails, FinishSend, Busy, Types, IdleTx
  <2>2. tx[t].slot \in Slots
    BY <2>1 DEF Owners, SenderOwns, SenderOk, Busy
  <2>3. \A x \in Slots, j \in Streams : x # tx[t].slot \/ j[1] # tx[t].class => seq'[x][j] = seq[x][j]
    <3>1. CASE UNCHANGED seq
      BY <3>1
    <3>2. CASE seq' = TakenBack(t)
      BY <2>2, <3>2 DEF TakenBack, Types
    <3> QED BY <1>4, <3>1, <3>2 DEF EncodeFails, FinishSend
  <2>4. ASSUME NEW u \in Threads, u # t PROVE Busy(u)' => ChunkOf(u)'
    BY <2>1, <2>3, <2>4, ChunkOthers
  <2>5. ~Busy(t)'
    BY <2>1 DEF Busy
  <2> QED BY <2>4, <2>5 DEF Chunk
<1>5. ASSUME NEW t \in Threads, BeginSubmit(t) PROVE Chunk'
  <2>1. /\ UNCHANGED <<wire, seq>> /\ Busy(t) /\ tx[t].pc = "encode"
        /\ \A u \in Threads : u # t => tx'[u] = tx[u]
    BY <1>5 DEF BeginSubmit, Busy, Types
  <2>2. tx[t] \in TxRec
    BY DEF Types
  <2>3. /\ tx'[t].pc = "submit" /\ tx'[t].start = tx[t].start /\ tx'[t].slot = tx[t].slot
        /\ tx'[t].class = tx[t].class /\ tx'[t].node = tx[t].node
        /\ tx'[t].got = tx[t].got /\ tx'[t].batch = tx[t].batch
    BY <1>5, <2>2 DEF BeginSubmit, Types, TxRec
  <2>4. ChunkOf(t)'
    BY <2>1, <2>3 DEF Chunk, ChunkOf
  <2>5. ASSUME NEW u \in Threads, u # t PROVE Busy(u)' => ChunkOf(u)'
    BY <2>1, <2>5, ChunkKept DEF Chunk
  <2> QED BY <2>4, <2>5 DEF Chunk
<1>6. ASSUME NEW t \in Threads, NEW g \in Targets, NEW F \in SUBSET tx[t].batch,
             Submit(t, g, F)
      PROVE  Chunk'
  <2>1. /\ UNCHANGED seq /\ Busy(t) /\ tx[t].pc = "submit" /\ g \in tx[t].todo
        /\ \A u \in Threads : u # t => tx'[u] = tx[u]
    BY <1>6 DEF Submit, Busy, Types
  <2>2. wire' = wire \cup {[to |-> g, frame |-> f] : f \in F}
    BY <1>6 DEF Submit
  <2>3. tx[t] \in TxRec
    BY DEF Types
  <2>4. /\ tx'[t].pc = "submit" /\ tx'[t].start = tx[t].start /\ tx'[t].slot = tx[t].slot
        /\ tx'[t].class = tx[t].class /\ tx'[t].node = tx[t].node
        /\ tx'[t].got = tx[t].got \cup F /\ tx'[t].batch = tx[t].batch
        /\ tx'[t].todo = tx[t].todo \ {g}
    BY <1>6, <2>3 DEF Submit, Types, TxRec
  <2>5. ChunkOf(t)
    BY <2>1 DEF Chunk
  <2>6. ASSUME NEW w \in wire', w.frame.node = tx[t].node, w.frame.stream[1] = tx[t].class
        PROVE  \/ w.frame.seq <= tx[t].start[w.frame.stream]
               \/ w.frame \in tx'[t].got /\ w.to \notin tx'[t].todo
    <3>1. CASE w \in wire
      BY <2>4, <2>5, <2>6, <3>1 DEF ChunkOf
    <3>2. CASE w \notin wire
      BY <2>2, <2>4, <3>2
    <3> QED BY <3>1, <3>2
  <2>7. ChunkOf(t)'
    BY <2>1, <2>4, <2>5, <2>6 DEF ChunkOf
  <2>8. ASSUME NEW u \in Threads, u # t PROVE Busy(u)' => ChunkOf(u)'
    <3> SUFFICES ASSUME Busy(u) PROVE ChunkOf(u)'
      BY <2>1, <2>8 DEF Busy
    <3>1. ChunkOf(u) /\ tx'[u] = tx[u]
      BY <2>1, <2>8 DEF Chunk
    <3>2. tx[u].node = tx[t].node => tx[u].class # tx[t].class
      BY <2>1, <2>8, SendersApart
    <3>3. \A f \in F : f.node = tx[t].node /\ f.stream[1] = tx[t].class
      BY <2>5 DEF ChunkOf
    <3>4. ASSUME NEW w \in wire', w.frame.node = tx[u].node, w.frame.stream[1] = tx[u].class
          PROVE  w \in wire
      BY <2>2, <3>2, <3>3, <3>4
    <3> QED BY <2>1, <3>1, <3>4 DEF ChunkOf
  <2> QED BY <2>7, <2>8 DEF Chunk
<1>7. ASSUME NEW s \in Slots, UNCHANGED <<wire, tx>>,
             \A u \in Threads : Busy(u) => tx[u].slot # s,
             \A r \in Slots : r # s => seq'[r] = seq[r]
      PROVE  Chunk'
  <2>1. ASSUME NEW u \in Threads PROVE Busy(u)' => ChunkOf(u)'
    <3>1. Busy(u) => tx[u].slot \in Slots /\ tx[u].slot # s
      BY <1>7 DEF Owners, SenderOwns, SenderOk, Busy
    <3> QED BY <1>7, <3>1, ChunkKept DEF Chunk
  <2> QED BY <2>1 DEF Chunk
<1>8. ASSUME NEW a \in Admins, NEW n \in Nodes, Register(a, n) PROVE Chunk'
  <2>1. PICK s \in Slots : ~peer[s].valid /\ seq' = [seq EXCEPT ![s] = saved[n]]
    BY <1>8 DEF Register, Restored
  <2>2. \A u \in Threads : Busy(u) => tx[u].slot # s
    BY <2>1 DEF Owners, SenderOwns, SenderOk, Busy
  <2>3. \A r \in Slots : r # s => seq'[r] = seq[r]
    BY <2>1 DEF Types
  <2>4. UNCHANGED <<wire, tx>>
    BY <1>8 DEF Register
  <2> QED BY <1>7, <2>2, <2>3, <2>4
<1>9. ASSUME NEW a \in Admins, NEW n \in Nodes, NEW op \in {"reset", "unregister"},
             Quiesce(a, n, op)
      PROVE  Chunk'
  <2>1. UNCHANGED <<wire, tx, seq>>
    BY <1>9 DEF Quiesce
  <2> QED BY <2>1, ChunkKept DEF Chunk
<1>10. ASSUME NEW a \in Admins, DrainClass(a) PROVE Chunk'
  <2>1. UNCHANGED <<wire, tx, seq>>
    BY <1>10 DEF DrainClass
  <2> QED BY <2>1, ChunkKept DEF Chunk
<1>11. ASSUME NEW a \in Admins, SaveAndReset(a) PROVE Chunk'
  <2> DEFINE s == life[a].slot
  <2>1. /\ UNCHANGED <<wire, tx>> /\ life[a].pc = "drain" /\ life[a].held = NC
        /\ seq' = [seq EXCEPT ![s] = Zero]
    BY <1>11 DEF SaveAndReset, MaySave
  <2>2. s \in Slots /\ \A c \in Classes : order[<<s, c>>] = a
    BY <2>1, TxAssumption DEF Owners, AdminOwns, AdminOk, Classes
  <2>3. ASSUME NEW u \in Threads, Busy(u) PROVE tx[u].slot # s
    <3>1. order[<<tx[u].slot, tx[u].class>>] = u /\ tx[u].class \in Classes
      BY <2>3 DEF Owners, SenderOwns, SenderOk, Types, TxRec
    <3> QED BY <2>2, <3>1, TxAssumption
  <2>4. \A r \in Slots : r # s => seq'[r] = seq[r]
    BY <2>1 DEF Types
  <2> HIDE DEF s
  <2> QED BY <1>7, <2>1, <2>2, <2>3, <2>4
<1>12. ASSUME NEW a \in Admins, Reactivate(a) PROVE Chunk'
  <2> DEFINE s == life[a].slot
  <2>1. UNCHANGED <<wire, tx>> /\ life[a].pc = "caches"
    BY <1>12 DEF Reactivate
  <2>2. s \in Slots /\ \A u \in Threads : Busy(u) => tx[u].slot # s
    BY <2>1 DEF Owners, AdminOwns, AdminOk, Busy
  <2>3. \A r \in Slots : r # s => seq'[r] = seq[r]
    BY <1>12, <2>2 DEF Reactivate, Types
  <2> HIDE DEF s
  <2> QED BY <1>7, <2>1, <2>2, <2>3
<1> QED
  BY <1>1, <1>2, <1>3, <1>4, <1>5, <1>6, <1>8, <1>9, <1>10, <1>11, <1>12
  DEF Next, SendStep, LifeStep

\* A number a chunk brings to a link is new, or names the same frame.
LEMMA NumbersStep ==
  Types /\ Owners /\ Chunk /\ NumberNamesOneFrame /\ Next => NumberNamesOneFrame'
<1> SUFFICES ASSUME Types, Owners, Chunk, NumberNamesOneFrame, Next
             PROVE  NumberNamesOneFrame'
  OBVIOUS
<1>1. CASE UNCHANGED wire
  BY <1>1 DEF NumberNamesOneFrame, Seen
<1>2. ASSUME NEW t \in Threads, NEW g \in Targets, NEW F \in SUBSET tx[t].batch,
             Submit(t, g, F)
      PROVE  NumberNamesOneFrame'
  <2>1. /\ ChunkOf(t) /\ tx[t] \in TxRec
        /\ wire' = wire \cup {[to |-> g, frame |-> f] : f \in F}
    BY <1>2 DEF Submit, Busy, Chunk, Types
  <2>2. Seen' = Seen \cup F
    <3>1. \A f \in F : [to |-> g, frame |-> f] \in wire' /\ [to |-> g, frame |-> f].frame = f
      BY <2>1
    <3>2. F \subseteq Seen' /\ Seen \subseteq Seen'
      BY <2>1, <3>1 DEF Seen
    <3>3. Seen' \subseteq Seen \cup F
      BY <2>1 DEF Seen
    <3> QED BY <3>2, <3>3
  <2>3. ASSUME NEW f \in F, NEW h \in Seen, f.node = h.node, f.stream = h.stream, f.seq = h.seq
        PROVE  f = h
    <3>1. PICK w \in wire : w.frame = h
      BY DEF Seen
    <3>2. f \in tx[t].batch /\ f.seq \in Nat /\ f.stream \in Streams
      BY <2>1 DEF TxRec, FrameSet
    <3>3. /\ f.node = tx[t].node /\ f.stream[1] = tx[t].class
          /\ tx[t].start[f.stream] < f.seq /\ tx[t].start[f.stream] \in Nat
      BY <2>1, <3>2 DEF ChunkOf, TxRec
    <3>4. h \in tx[t].got
      <4>1. w.frame.node = tx[t].node /\ w.frame.stream[1] = tx[t].class
        BY <2>3, <3>1, <3>3
      <4>2. w.frame.seq <= tx[t].start[w.frame.stream] \/ w.frame \in tx[t].got
        BY <2>1, <4>1 DEF ChunkOf
      <4> QED BY <2>3, <3>1, <3>2, <3>3, <4>2
    <3> QED BY <2>1, <2>3, <3>2, <3>4 DEF ChunkOf
  <2>4. \A f, h \in F : f.stream = h.stream /\ f.seq = h.seq => f = h
    BY <2>1 DEF ChunkOf
  <2> QED BY <2>2, <2>3, <2>4 DEF NumberNamesOneFrame
<1> QED
  BY <1>1, <1>2, Zenon
  DEF Next, SendStep, LifeStep, AcquireState, LockOrder, Encode, EncodeFails, BeginSubmit,
      FinishSend, Register, Quiesce, DrainClass, SaveAndReset, Reactivate
-----------------------------------------------------------------------------
\* The invariant holds before any Peer is registered.
LEMMA TxInvInit == Init => TxInv
<1> SUFFICES ASSUME Init PROVE TxInv
  OBVIOUS
<1>1. Types
  <2>1. 1 \in 1..(IdCount - 1)
    BY TxAssumption
  <2>2. [valid |-> FALSE, node |-> None, epoch |-> 0] \in PeerRec
    BY DEF PeerRec
  <2> QED BY <2>1, <2>2, IdleTyped DEF Init, Types
<1>2. \A t \in Threads : tx[t].pc = "idle"
  BY DEF Init, IdleTx
<1>3. \A a \in Admins : life[a].pc = "idle"
  BY DEF Init, IdleLife
<1>4. Owners
  BY <1>2, <1>3 DEF Init, Owners, OneSlot, SenderOwns, SenderOk, AdminOwns, AdminOk, Busy
<1>5. Marks /\ Chunk /\ NumberNamesOneFrame
  BY <1>2 DEF Init, Marks, Chunk, Busy, NumberNamesOneFrame, Seen
<1> QED BY <1>1, <1>4, <1>5 DEF TxInv

\* The invariant speaks of the variables only.
LEMMA TxInvStutter == TxInv /\ UNCHANGED vars => TxInv'
<1> SUFFICES ASSUME TxInv, UNCHANGED vars PROVE TxInv'
  OBVIOUS
<1>1. Types'
  BY DEF TxInv, Types, vars
<1>2. Owners'
  BY DEF TxInv, Owners, OneSlot, SenderOwns, SenderOk, AdminOwns, AdminOk, Busy, Active, vars
<1>3. Marks'
  BY DEF TxInv, Marks, Resetting, vars
<1>4. Chunk'
  BY DEF TxInv, Chunk, ChunkOf, Busy, vars
<1>5. NumberNamesOneFrame'
  BY DEF TxInv, NumberNamesOneFrame, Seen, vars
<1> QED BY <1>1, <1>2, <1>3, <1>4, <1>5 DEF TxInv

\* The inductive invariant of the sending side: ownership of slots and class locks, and
\* the marks the numbers are taken from.
THEOREM TxInvariant == Spec => []TxInv
<1>1. TxInv /\ [Next]_vars => TxInv'
  <2> SUFFICES ASSUME TxInv, Next PROVE TxInv'
    BY TxInvStutter
  <2>1. Types' /\ Owners'
    BY TypesStep, OwnersStep DEF TxInv, Owners
  <2>2. Marks' /\ Chunk' /\ NumberNamesOneFrame'
    BY <2>1, MarksStep, ChunkStep, NumbersStep DEF TxInv
  <2> QED BY <2>1, <2>2 DEF TxInv
<1> QED BY <1>1, TxInvInit, PTL DEF Spec

\* TypeOK: every packet id handed out is valid (never 0), and counters, locks and
\* threads keep their ranges, with any number of threads, Peers and classes.
THEOREM TxTypes == Spec => []TypeOK
<1> DEFINE LockTyped == lock \in Threads \cup Admins \cup {None}
<1>1. Init => LockTyped
  BY DEF Init
<1>2. TxInv /\ LockTyped /\ [Next]_vars => LockTyped'
  BY ZenonT(40) DEF Next, SendStep, LifeStep, AcquireState, LockOrder, Encode, EncodeFails,
                    BeginSubmit,
         Submit, FinishSend, Register, Quiesce, DrainClass, SaveAndReset, Reactivate, vars
<1>3. TxInv /\ LockTyped => TypeOK
  BY DEF TxInv, Types, TypeOK, PeerRec, TxRec, LifeRec
<1> QED BY <1>1, <1>2, <1>3, TxInvariant, PTL DEF Spec

\* NumberNamesOneFrame: whatever links refuse and however Peers come and go, a sequence
\* number of a stream never reaches a Peer with two different frames.
THEOREM OneFramePerNumber == Spec => []NumberNamesOneFrame
BY TxInvariant, PTL DEF TxInv

\* LinksSeeOrder: a link is given the frames of a stream chunk after chunk with rising
\* numbers.
THEOREM LinksInOrder == Spec => LinksSeeOrder
<1>1. TxInv /\ [Next]_vars =>
        [\A v \in wire' \ wire : \A w \in wire :
           v.to = w.to /\ v.frame.node = w.frame.node /\ v.frame.stream = w.frame.stream
             => w.frame.seq < v.frame.seq]_vars
  <2> SUFFICES ASSUME TxInv, Next, NEW v \in wire' \ wire, NEW w \in wire,
                      v.to = w.to, v.frame.node = w.frame.node, v.frame.stream = w.frame.stream
               PROVE  w.frame.seq < v.frame.seq
    OBVIOUS
  <2>a. PICK t \in Threads : \E g \in Targets, F \in SUBSET tx[t].batch : Submit(t, g, F)
    BY Zenon DEF Next, SendStep, LifeStep, AcquireState, LockOrder, Encode, EncodeFails,
                 BeginSubmit,
           FinishSend, Register, Quiesce, DrainClass, SaveAndReset, Reactivate
  <2>1. PICK g \in Targets, F \in SUBSET tx[t].batch : Submit(t, g, F)
    BY <2>a
  <2>2. v.to = g /\ v.frame \in tx[t].batch /\ g \in tx[t].todo
    BY <2>1 DEF Submit
  <2>3. ChunkOf(t) /\ tx[t] \in TxRec /\ w.frame \in FrameSet
    BY <2>1 DEF Submit, Busy, TxInv, Chunk, Types
  <2>4. v.frame \in FrameSet
    BY <2>2, <2>3 DEF TxRec
  <2>5. /\ v.frame.node = tx[t].node /\ v.frame.stream[1] = tx[t].class
        /\ tx[t].start[v.frame.stream] < v.frame.seq
    BY <2>2, <2>3 DEF ChunkOf
  <2>6. w.frame.seq <= tx[t].start[w.frame.stream]
    BY <2>2, <2>3, <2>5 DEF ChunkOf
  <2>7. tx[t].start[v.frame.stream] \in Nat /\ v.frame.seq \in Nat /\ w.frame.seq \in Nat
    BY <2>3, <2>4 DEF TxRec, FrameSet
  <2> QED BY <2>5, <2>6, <2>7
<1> QED BY <1>1, TxInvariant, PTL DEF Spec, LinksSeeOrder

\* QuietWhileReset: between the drain of a Peer and its return (or the end of its slot)
\* no link is given a frame for it.
THEOREM ResetIsQuiet == Spec => QuietWhileReset
<1>1. TxInv /\ [Next]_vars =>
        [\A a \in Admins : life[a].pc = "caches" =>
           \A w \in wire' \ wire : w.frame.node # life[a].node]_vars
  <2> SUFFICES ASSUME TxInv, Next, NEW a \in Admins, life[a].pc = "caches",
                      NEW w \in wire' \ wire, w.frame.node = life[a].node
               PROVE  FALSE
    OBVIOUS
  <2>a. PICK t \in Threads : \E g \in Targets, F \in SUBSET tx[t].batch : Submit(t, g, F)
    BY Zenon DEF Next, SendStep, LifeStep, AcquireState, LockOrder, Encode, EncodeFails,
                 BeginSubmit,
           FinishSend, Register, Quiesce, DrainClass, SaveAndReset, Reactivate
  <2>1. PICK g \in Targets, F \in SUBSET tx[t].batch : Submit(t, g, F)
    BY <2>a
  <2>2. w.frame \in tx[t].batch /\ Busy(t) /\ tx[t].pc # "idle"
    BY <2>1 DEF Submit, Busy
  <2>3. w.frame.node = tx[t].node
    BY <2>2 DEF TxInv, Chunk, ChunkOf
  <2>4. tx[t].slot \in Slots /\ peer[tx[t].slot].valid /\ peer[tx[t].slot].node = tx[t].node
    BY <2>2 DEF TxInv, Owners, SenderOwns, SenderOk
  <2>5. /\ life[a].slot \in Slots /\ peer[life[a].slot].valid
        /\ peer[life[a].slot].node = life[a].node /\ tx[t].slot # life[a].slot
    BY <2>2 DEF TxInv, Owners, AdminOwns, AdminOk
  <2> QED BY <2>3, <2>4, <2>5 DEF TxInv, Owners, OneSlot
<1> QED BY <1>1, TxInvariant, PTL DEF Spec, QuietWhileReset


-----------------------------------------------------------------------------
\* Locks

\* A class lock is one of its sender's, or of a life-cycle thread that drains its slot.
ClassHeld(k) ==
  \/ \E t \in Threads : order[k] = t /\ Busy(t) /\ k = <<tx[t].slot, tx[t].class>>
  \/ \E a \in Admins : /\ order[k] = a /\ life[a].pc = "drain"
                        /\ k[1] = life[a].slot /\ k[2] < life[a].held

\* No lock is left behind: g_transport.lock is held by a sender on its way to its class
\* lock or by a drain, and every class lock by someone who still works under it.
Holders ==
  /\ \/ lock = None
     \/ \E t \in Threads : lock = t /\ tx[t].pc = "order"
     \/ \E a \in Admins : lock = a /\ life[a].pc = "drain"
  /\ \A k \in Slots \X Classes : order[k] # None => ClassHeld(k)

\* Every step leaves the locks with their users.
LEMMA HoldersStep == Types /\ Owners /\ Holders /\ [Next]_vars => Holders'
<1> SUFFICES ASSUME Types, Owners, Holders, [Next]_vars PROVE Holders'
  OBVIOUS
<1>n. Threads \cap Admins = {} /\ None \notin Threads /\ None \notin Admins
  BY TxAssumption
<1>t. /\ tx \in [Threads -> TxRec] /\ life \in [Admins -> LifeRec]
      /\ order \in [Slots \X Classes -> Threads \cup Admins \cup {None}]
      /\ \A t \in Threads : tx[t] \in TxRec
  BY DEF Types
<1>1. CASE \E t \in Threads, n \in Nodes, c \in Classes, chunk \in Chunks : AcquireState(t, n, c, chunk)
  <2>1. PICK t \in Threads, n \in Nodes, c \in Classes, chunk \in Chunks : AcquireState(t, n, c, chunk)
    BY <1>1
  <2>2. /\ tx[t].pc = "idle" /\ lock = None /\ lock' = t /\ UNCHANGED <<order, life>>
        /\ tx'[t].pc = "order" /\ \A u \in Threads : u # t => tx'[u] = tx[u]
    BY <1>t, <2>1 DEF AcquireState, IdleTx
  <2> QED BY <2>2 DEF Holders, ClassHeld, Busy
<1>2. CASE \E t \in Threads : LockOrder(t)
  <2>1. PICK t \in Threads : LockOrder(t)
    BY <1>2
  <2> DEFINE k == <<tx[t].slot, tx[t].class>>
  <2>2. tx[t].pc = "order" /\ lock' = None /\ order' = [order EXCEPT ![k] = t] /\ UNCHANGED life
    BY <2>1 DEF LockOrder
  <2>3. /\ tx'[t].pc = "encode" /\ tx'[t].slot = tx[t].slot /\ tx'[t].class = tx[t].class
        /\ \A u \in Threads : u # t => tx'[u] = tx[u]
    BY <1>t, <2>1 DEF LockOrder, TxRec
  <2>4. \A j \in Slots \X Classes : order'[j] = IF j = k THEN t ELSE order[j]
    BY <1>t, <2>2
  <2> QED BY <2>2, <2>3, <2>4 DEF Holders, ClassHeld, Busy
<1>3. CASE \E t \in Threads : Encode(t) \/ BeginSubmit(t) \/ \E g \in Targets, F \in SUBSET tx[t].batch : Submit(t, g, F)
  <2>1. PICK t \in Threads : Encode(t) \/ BeginSubmit(t) \/ \E g \in Targets, F \in SUBSET tx[t].batch : Submit(t, g, F)
    BY <1>3
  <2>2. UNCHANGED <<lock, order, life>> /\ Busy(t)
    BY <2>1 DEF Encode, BeginSubmit, Submit, Busy
  <2>3. /\ tx'[t].pc \in {"encode", "submit"} /\ tx'[t].slot = tx[t].slot /\ tx'[t].class = tx[t].class
        /\ \A u \in Threads : u # t => tx'[u] = tx[u]
    <3>t. tx[t] \in TxRec /\ tx \in [Threads -> TxRec]
      BY <1>t
    <3>1. CASE Encode(t)
      BY <3>t, <3>1 DEF Encode, TxRec
    <3>2. CASE BeginSubmit(t)
      BY <3>t, <3>2 DEF BeginSubmit, TxRec
    <3>3. CASE \E g \in Targets, F \in SUBSET tx[t].batch : Submit(t, g, F)
      <4>1. PICK g \in Targets, F \in SUBSET tx[t].batch : Submit(t, g, F)
        BY <3>3
      <4>2. /\ tx[t].pc = "submit"
            /\ tx' = [tx EXCEPT ![t].todo = @ \ {g}, ![t].got = @ \cup F]
        BY <4>1 DEF Submit
      <4> QED BY <3>t, <4>2 DEF TxRec
    <3> QED BY <2>1, <3>1, <3>2, <3>3
  <2> QED BY <2>2, <2>3 DEF Holders, ClassHeld, Busy
<1>4. CASE \E t \in Threads : EncodeFails(t) \/ FinishSend(t)
  <2>1. PICK t \in Threads : EncodeFails(t) \/ FinishSend(t)
    BY <1>4
  <2> DEFINE k == <<tx[t].slot, tx[t].class>>
  <2>2. /\ UNCHANGED <<lock, life>> /\ tx[t].pc # "order" /\ order' = [order EXCEPT ![k] = None]
        /\ tx' = [tx EXCEPT ![t] = IdleTx]
    BY <2>1 DEF EncodeFails, FinishSend, Released
  <2>3. \A u \in Threads : u # t => tx'[u] = tx[u]
    BY <1>t, <2>2
  <2>4. \A j \in Slots \X Classes : order'[j] = IF j = k THEN None ELSE order[j]
    BY <1>t, <2>2
  <2> QED BY <2>2, <2>3, <2>4 DEF Holders, ClassHeld, Busy
<1>5. CASE \E a \in Admins, n \in Nodes :
             Register(a, n) \/ Quiesce(a, n, "reset") \/ Quiesce(a, n, "unregister")
  <2>1. PICK a \in Admins, n \in Nodes :
               Register(a, n) \/ Quiesce(a, n, "reset") \/ Quiesce(a, n, "unregister")
    BY <1>5
  <2>2. CASE Register(a, n)
    BY <2>2 DEF Register, Holders, ClassHeld, Busy
  <2>3. CASE Quiesce(a, n, "reset") \/ Quiesce(a, n, "unregister")
    <3>1. /\ lock' = a /\ UNCHANGED <<order, tx>> /\ life[a].pc = "idle" /\ life'[a].pc = "drain"
          /\ \A b \in Admins : b # a => life'[b] = life[b]
      BY <1>t, <2>3 DEF Quiesce
    <3> QED BY <3>1 DEF Holders, ClassHeld, Busy
  <2> QED BY <2>1, <2>2, <2>3
<1>6. CASE \E a \in Admins : LifeStep(a)
  <2>1. PICK a \in Admins : LifeStep(a)
    BY <1>6
  <2>2. CASE DrainClass(a)
    <3> DEFINE k == <<life[a].slot, life[a].held>>
    <3>1. /\ order' = [order EXCEPT ![k] = a] /\ UNCHANGED <<lock, tx>>
          /\ life[a].pc = "drain" /\ life'[a].pc = "drain" /\ life'[a].slot = life[a].slot
          /\ life'[a].held = life[a].held + 1 /\ life[a].held \in Int
          /\ \A b \in Admins : b # a => life'[b] = life[b]
      BY <1>t, <2>2 DEF DrainClass, LifeRec
    <3>2. \A j \in Slots \X Classes : order'[j] = IF j = k THEN a ELSE order[j]
      BY <1>t, <3>1
    <3>3. \A j \in Slots \X Classes : j[2] \in Int /\ (j[2] < life[a].held => j[2] < life'[a].held)
      BY <3>1, TxAssumption DEF Classes
    <3> QED BY <3>1, <3>2, <3>3 DEF Holders, ClassHeld, Busy
  <2>3. CASE SaveAndReset(a)
    <3>1. /\ lock' = None /\ UNCHANGED tx /\ \A b \in Admins : b # a => life'[b] = life[b]
          /\ \A j \in Slots \X Classes : order'[j] = IF order[j] = a THEN None ELSE order[j]
      BY <1>t, <2>3 DEF SaveAndReset
    <3> QED BY <3>1 DEF Holders, ClassHeld, Busy
  <2>4. CASE Reactivate(a)
    <3>1. /\ UNCHANGED <<lock, order, tx>> /\ life[a].pc = "caches"
          /\ \A b \in Admins : b # a => life'[b] = life[b]
      BY <1>t, <2>4 DEF Reactivate
    <3> QED BY <3>1 DEF Holders, ClassHeld, Busy
  <2> QED BY <2>1, <2>2, <2>3, <2>4 DEF LifeStep
<1>7. CASE UNCHANGED vars
  BY <1>7 DEF vars, Holders, ClassHeld, Busy
<1> QED BY <1>1, <1>2, <1>3, <1>4, <1>5, <1>6, <1>7 DEF Next, SendStep

\* What the guards of SendStep and LifeStep ask of a thread and of the locks: a sender past
\* its class lock can always go on (Encode, BeginSubmit, Submit or FinishSend).
SendReady(t) == Busy(t) \/ (tx[t].pc = "order" /\ order[<<tx[t].slot, tx[t].class>>] = None)
LifeReady(a) ==
  \/ life[a].pc = "drain" /\ (MaySave(a) \/ order[<<life[a].slot, life[a].held>>] = None)
  \/ life[a].pc = "caches" /\ lock = None
SomebodyReady ==
  (\E t \in Threads : tx[t].pc # "idle") \/ (\E a \in Admins : life[a].pc # "idle") =>
    (\E t \in Threads : SendReady(t)) \/ (\E a \in Admins : LifeReady(a))

\* What NobodyStuck asks of the locks, for any number of threads, Peers and classes: while a
\* send or a reset is under way, some thread waits for no lock.  g_transport.lock and the
\* class locks are taken in one order, and whoever holds one comes to its end.
THEOREM LocksNeverCycle == Spec => []SomebodyReady
<1>1. Init => Holders
  BY DEF Init, Holders
<1>2. TxInv /\ Holders /\ [Next]_vars => Holders'
  BY HoldersStep DEF TxInv
<1>3. TxInv /\ Holders => SomebodyReady
  <2> SUFFICES ASSUME TxInv, Holders, \A t \in Threads : ~SendReady(t), \A a \in Admins : ~LifeReady(a)
               PROVE  (\A t \in Threads : tx[t].pc = "idle") /\ (\A a \in Admins : life[a].pc = "idle")
    BY DEF SomebodyReady
  <2>1. /\ \A t \in Threads : tx[t] \in TxRec /\ SenderOk(t)
        /\ \A a \in Admins : life[a] \in LifeRec /\ AdminOk(a)
    BY DEF TxInv, Types, Owners, SenderOwns, AdminOwns
  <2>2. \A t \in Threads : tx[t].pc \in {"idle", "order"} /\ ~Busy(t)
    BY <2>1 DEF SendReady, Busy, TxRec
  \* A drain has its next class to itself.
  <2>3. ASSUME NEW a \in Admins PROVE life[a].pc # "drain"
    <3> SUFFICES ASSUME life[a].pc = "drain" PROVE FALSE
      OBVIOUS
    <3> DEFINE k == <<life[a].slot, life[a].held>>
    <3>1. lock = a /\ life[a].slot \in Slots /\ \A b \in Admins : life[b].pc = "drain" => b = a
      BY <2>1 DEF AdminOk
    <3>2. life[a].held \in Classes /\ order[k] # None
      <4>1. life[a].held \in 0..NC /\ life[a].held # NC /\ order[k] # None
        BY <2>1 DEF LifeReady, MaySave, LifeRec
      <4> QED BY <4>1, TxAssumption DEF Classes
    <3>3. k \in Slots \X Classes /\ k[1] = life[a].slot /\ k[2] = life[a].held /\ ~(life[a].held < life[a].held)
      BY <3>1, <3>2, TxAssumption DEF Classes
    <3> HIDE DEF k
    <3> QED BY <2>2, <3>1, <3>2, <3>3 DEF Holders, ClassHeld
  <2>4. \A k \in Slots \X Classes : order[k] = None
    BY <2>2, <2>3 DEF Holders, ClassHeld
  <2>5. \A t \in Threads : tx[t].pc = "idle"
    <3>1. \A t \in Threads : tx[t].pc = "order" => <<tx[t].slot, tx[t].class>> \in Slots \X Classes
      BY <2>1 DEF SenderOk, TxRec
    <3> QED BY <2>2, <2>4, <3>1 DEF SendReady
  <2>6. lock = None
    BY <2>3, <2>5 DEF Holders
  <2>7. \A a \in Admins : life[a].pc = "idle"
    BY <2>1, <2>3, <2>6 DEF LifeReady, LifeRec
  <2> QED BY <2>5, <2>7
<1> QED BY <1>1, <1>2, <1>3, TxInvariant, PTL DEF Spec
=============================================================================
