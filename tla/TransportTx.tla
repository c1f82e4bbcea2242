----------------------------- MODULE TransportTx -----------------------------
(***************************************************************************)
(* The sending side of the transport: transport_tx.c and the Peer life     *)
(* cycle of linkg_transport.c.  Threads send chunks of packets to a Peer   *)
(* and replicate every frame to several links; the receiver tells frames   *)
(* apart by their sequence number alone, so a number must never name two   *)
(* frames.  Numbers are handed out under the tx_order_lock of the class,   *)
(* taken back when no link accepted anything, and kept in                  *)
(* g_transport_tx_sequences while a Peer is reset or unregistered.         *)
(***************************************************************************)
EXTENDS Integers, Sequences, FiniteSets

CONSTANTS
  Threads,   \* threads that send or forward
  Admins,    \* threads that register, reset and unregister Peers (Discovery)
  Nodes,     \* node ids of direct Peers
  Slots,     \* g_transport.peers[]
  NC,        \* LINKG_TRANSPORT_CLASS_COUNT
  Targets,   \* links a chunk is replicated to
  Chunks,    \* chunks the callers send
  IdCount,   \* how many packet ids there are, 0 (invalid) included
  MaxChunk,  \* bound: chunks sent
  MaxEpoch,  \* bound: life-cycle epoch of a Peer
  None

Classes == 0..(NC - 1)
Kinds == {"user", "control"}
\* A packet of one frame, or of two (FIRST and TAIL) when it is too long for one.
Items == [kind: Kinds, parts: {1, 2}]

ASSUME TxAssumption ==
  /\ NC \in Nat \ {0} /\ IdCount \in Nat /\ IdCount > 1  \* 2^32
  /\ Chunks \subseteq Seq(Items) /\ << >> \notin Chunks
  /\ MaxChunk \in Nat /\ MaxEpoch \in Nat
  /\ None \notin Threads \cup Admins \cup Nodes \cup Slots
  /\ Threads \cap Admins = {}

VARIABLES
  peer,      \* [Slots -> valid, peer_node_id, lifecycle_epoch]
  seq,       \* tx_user_sequence and tx_control_sequence of every class
  saved,     \* g_transport_tx_sequences
  packetId,  \* g_transport.next_packet_id
  lock,      \* holder of g_transport.lock
  order,     \* holder of each tx_order_lock
  tx,        \* where each sending thread is
  life,      \* where each life-cycle thread is
  sent,      \* history: chunks that reached the encoder, to tell frames apart
  wire       \* history: frames a link accepted, with the link

vars == <<peer, seq, saved, packetId, lock, order, tx, life, sent, wire>>

Streams == Classes \X Kinds
Zero == [s \in Streams |-> 0]

IdleTx == [pc |-> "idle", node |-> None, slot |-> None, class |-> 0, left |-> << >>,
           ids |-> << >>, id |-> 0, start |-> Zero, batch |-> {}, todo |-> {}, got |-> {}]
IdleLife == [pc |-> "idle", node |-> None, slot |-> None, op |-> "none", held |-> 0]

Init ==
  /\ peer = [s \in Slots |-> [valid |-> FALSE, node |-> None, epoch |-> 0]]
  /\ seq = [s \in Slots |-> Zero]
  /\ saved = [n \in Nodes |-> Zero]
  /\ packetId = 1
  /\ lock = None
  /\ order = [k \in Slots \X Classes |-> None]
  /\ tx = [t \in Threads |-> IdleTx]
  /\ life = [a \in Admins |-> IdleLife]
  /\ sent = 0
  /\ wire = {}

\* linkg_transport_find_peer_locked
PeerSlots(n) == {s \in Slots : peer[s].valid /\ peer[s].node = n}
\* linkg_transport_peer_epoch_read_active
Active(s) == peer[s].epoch % 2 = 0

-----------------------------------------------------------------------------
\* linkg_transport_send_batch, linkg_transport_forward_batch

\* A Peer that is being reset or unregistered refuses new chunks with -EAGAIN.
MaySend(s) == Active(s)

\* A chunk is prepared (tail packets are allocated) and _linkg_transport_tx_acquire_state
\* takes g_transport.lock.  -ENOENT and -EAGAIN leave no trace.
AcquireState(t, n, c, chunk) ==
  /\ tx[t].pc = "idle" /\ lock = None /\ sent < MaxChunk
  /\ \E s \in PeerSlots(n) :
       /\ MaySend(s)
       /\ tx' = [tx EXCEPT ![t] = [IdleTx EXCEPT !.pc = "order", !.node = n, !.slot = s,
                                                 !.class = c, !.left = chunk, !.id = sent]]
  /\ lock' = t
  /\ sent' = sent + 1
  /\ UNCHANGED <<peer, seq, saved, packetId, order, life, wire>>

\* _linkg_transport_tx_next_packet_id_locked, k times: 0 is not an id.
Advanced(id, k) == ((id - 1 + k) % (IdCount - 1)) + 1

\* How many of the first n packets of a chunk need an id.
Fragmented(chunk, n) == Cardinality({i \in 1..n : chunk[i].parts = 2})

\* Still under g_transport.lock: the class's tx_order_lock, which gives the right to
\* number frames, and a packet id for every packet of two frames.
LockOrder(t) ==
  LET k == <<tx[t].slot, tx[t].class>>
      chunk == tx[t].left
  IN /\ tx[t].pc = "order" /\ order[k] = None
     /\ order' = [order EXCEPT ![k] = t]
     /\ lock' = None
     /\ packetId' = Advanced(packetId, Fragmented(chunk, Len(chunk)))
     /\ tx' = [tx EXCEPT ![t].pc = "encode", ![t].start = seq[tx[t].slot],
                         ![t].ids = [i \in 1..Len(chunk) |->
                                       IF chunk[i].parts = 2
                                         THEN Advanced(packetId, Fragmented(chunk, i - 1))
                                         ELSE 0]]
     /\ UNCHANGED <<peer, seq, saved, life, sent, wire>>

\* _linkg_transport_tx_encode_normal, _linkg_transport_tx_encode_fragmented: the
\* frames of the next packet, numbered on from the class's counter.
Frames(t) ==
  LET item == Head(tx[t].left)
      k == <<tx[t].class, item.kind>>
  IN {[node |-> tx[t].node, stream |-> k, seq |-> seq[tx[t].slot][k] + part,
       chunk |-> tx[t].id, item |-> Len(tx[t].left), part |-> part,
       packet |-> Head(tx[t].ids)] : part \in 1..item.parts}

\* One packet of _linkg_transport_tx_encode_batch.
Encode(t) ==
  LET item == Head(tx[t].left)
      k == <<tx[t].class, item.kind>>
  IN /\ tx[t].pc = "encode" /\ tx[t].left # << >>
     /\ seq' = [seq EXCEPT ![tx[t].slot][k] = @ + item.parts]
     /\ tx' = [tx EXCEPT ![t].left = Tail(@), ![t].ids = Tail(@),
                         ![t].batch = @ \cup Frames(t)]
     /\ UNCHANGED <<peer, saved, packetId, lock, order, life, sent, wire>>

\* The counters of the chunk's class go back to where the chunk found them.
TakenBack(t) ==
  [seq EXCEPT ![tx[t].slot] =
     [k \in Streams |-> IF k[1] = tx[t].class THEN tx[t].start[k] ELSE @[k]]]

\* Mutant of Released: the lock is kept.
ReleasedNever(t) == order

Released(t) == [order EXCEPT ![<<tx[t].slot, tx[t].class>>] = None]

\* A packet cannot be encoded: the chunk fails before any link sees it.
EncodeFails(t) ==
  /\ tx[t].pc = "encode" /\ tx[t].left # << >>
  /\ seq' = TakenBack(t)
  /\ order' = Released(t)
  /\ tx' = [tx EXCEPT ![t] = IdleTx]
  /\ UNCHANGED <<peer, saved, packetId, lock, life, sent, wire>>

BeginSubmit(t) ==
  /\ tx[t].pc = "encode" /\ tx[t].left = << >>
  /\ tx' = [tx EXCEPT ![t].pc = "submit", ![t].todo = Targets]
  /\ UNCHANGED <<peer, seq, saved, packetId, lock, order, life, sent, wire>>

\* linkg_link_submit_batch for one target of _linkg_transport_tx_submit_wire_batch:
\* the link accepts any of the frames, or none.
Submit(t, g, F) ==
  /\ tx[t].pc = "submit" /\ g \in tx[t].todo /\ F \subseteq tx[t].batch
  /\ wire' = wire \cup {[to |-> g, frame |-> f] : f \in F}
  /\ tx' = [tx EXCEPT ![t].todo = @ \ {g}, ![t].got = @ \cup F]
  /\ UNCHANGED <<peer, seq, saved, packetId, lock, order, life, sent>>

\* Mutant of Unseen: one refused frame takes the numbers of the chunk back.
UnseenIfPartial(t) == tx[t].got # tx[t].batch

\* Nobody took any frame of the chunk: its numbers may be used again.
Unseen(t) == tx[t].got = {}

\* The rest of _linkg_transport_tx_send_chunk: numbers taken back, statistics, the
\* lock released, tail packets freed.
FinishSend(t) ==
  /\ tx[t].pc = "submit" /\ tx[t].todo = {}
  /\ seq' = IF Unseen(t) THEN TakenBack(t) ELSE seq
  /\ order' = Released(t)
  /\ tx' = [tx EXCEPT ![t] = IdleTx]
  /\ UNCHANGED <<peer, saved, packetId, lock, life, sent, wire>>

-----------------------------------------------------------------------------
\* Peer life cycle

\* _linkg_transport_peer_next_active_epoch
NextActive(e) == IF (e + 1) % 2 = 0 THEN e + 1 ELSE e + 2

\* Mutant of Restored: a Peer that comes back starts from zero.
RestoredNever(n) == Zero

\* _linkg_transport_restore_peer_tx_sequences: a reset keeps the sending numbers,
\* though 05-M05 (lines 346 and 749) has it set them to zero.
Restored(n) == saved[n]

\* linkg_transport_register_peer, in one critical section.  A known node, and a full
\* table, change nothing.
Register(a, n) ==
  /\ life[a].pc = "idle" /\ lock = None /\ PeerSlots(n) = {}
  /\ \E s \in Slots :
       /\ ~peer[s].valid /\ NextActive(peer[s].epoch) <= MaxEpoch
       /\ peer' = [peer EXCEPT ![s] = [valid |-> TRUE, node |-> n,
                                       epoch |-> NextActive(peer[s].epoch)]]
       /\ seq' = [seq EXCEPT ![s] = Restored(n)]
  /\ UNCHANGED <<saved, packetId, lock, order, tx, life, sent, wire>>

\* linkg_transport_reset_peer and linkg_transport_unregister_peer up to
\* _linkg_transport_peer_quiesce_locked: the epoch turns odd.  A Peer that is already
\* being reset answers -EBUSY.
Quiesce(a, n, op) ==
  /\ life[a].pc = "idle" /\ lock = None
  /\ \E s \in PeerSlots(n) :
       /\ Active(s) /\ peer[s].epoch + 2 <= MaxEpoch
       /\ peer' = [peer EXCEPT ![s].epoch = @ + 1]
       /\ life' = [life EXCEPT ![a] = [pc |-> "drain", node |-> n, slot |-> s,
                                       op |-> op, held |-> 0]]
  /\ lock' = a
  /\ UNCHANGED <<seq, saved, packetId, order, tx, sent, wire>>

\* _linkg_transport_peer_tx_order_lock_all: one class after the other, each behind
\* the chunk that is being sent.
DrainClass(a) ==
  LET k == <<life[a].slot, life[a].held>>
  IN /\ life[a].pc = "drain" /\ life[a].held < NC /\ order[k] = None
     /\ order' = [order EXCEPT ![k] = a]
     /\ life' = [life EXCEPT ![a].held = @ + 1]
     /\ UNCHANGED <<peer, seq, saved, packetId, lock, tx, sent, wire>>

\* Mutant of MaySave: the sequences are saved before the senders are drained.
MaySaveEarly(a) == TRUE

MaySave(a) == life[a].held = NC

\* _linkg_transport_save_peer_tx_sequences, _linkg_transport_reset_peer_classes, all
\* locks released.  The caches are cleared outside the locks.
SaveAndReset(a) ==
  LET s == life[a].slot
  IN /\ life[a].pc = "drain" /\ MaySave(a)
     /\ saved' = [saved EXCEPT ![life[a].node] = seq[s]]
     /\ seq' = [seq EXCEPT ![s] = Zero]
     /\ order' = [k \in Slots \X Classes |-> IF order[k] = a THEN None ELSE order[k]]
     /\ lock' = None
     /\ life' = [life EXCEPT ![a].pc = "caches", ![a].held = 0]
     /\ UNCHANGED <<peer, packetId, tx, sent, wire>>

\* The end of both calls: the Peer is active again, or its slot is free.
Reactivate(a) ==
  LET s == life[a].slot
  IN /\ life[a].pc = "caches" /\ lock = None
     /\ IF life[a].op = "reset"
          THEN /\ seq' = [seq EXCEPT ![s] = Restored(life[a].node)]
               /\ peer' = [peer EXCEPT ![s].epoch = @ + 1]
          ELSE /\ peer' = [peer EXCEPT ![s].valid = FALSE, ![s].node = None]
               /\ UNCHANGED seq
     /\ life' = [life EXCEPT ![a] = IdleLife]
     /\ UNCHANGED <<saved, packetId, lock, order, tx, sent, wire>>

-----------------------------------------------------------------------------
SendStep(t) ==
  \/ LockOrder(t) \/ Encode(t) \/ EncodeFails(t) \/ BeginSubmit(t) \/ FinishSend(t)
  \/ \E g \in Targets, F \in SUBSET tx[t].batch : Submit(t, g, F)
LifeStep(a) == DrainClass(a) \/ SaveAndReset(a) \/ Reactivate(a)

Next ==
  \/ \E t \in Threads, n \in Nodes, c \in Classes, chunk \in Chunks :
       AcquireState(t, n, c, chunk)
  \/ \E t \in Threads : SendStep(t)
  \/ \E a \in Admins, n \in Nodes :
       Register(a, n) \/ Quiesce(a, n, "reset") \/ Quiesce(a, n, "unregister")
  \/ \E a \in Admins : LifeStep(a)

Spec == Init /\ [][Next]_vars

-----------------------------------------------------------------------------
FrameSet == [node: Nodes, stream: Streams, seq: Nat, chunk: Nat, item: Nat,
             part: {1, 2}, packet: Nat]

TypeOK ==
  /\ peer \in [Slots -> [valid: BOOLEAN, node: Nodes \cup {None}, epoch: Nat]]
  /\ seq \in [Slots -> [Streams -> Nat]]
  /\ saved \in [Nodes -> [Streams -> Nat]]
  /\ packetId \in 1..(IdCount - 1)
  /\ lock \in Threads \cup Admins \cup {None}
  /\ order \in [Slots \X Classes -> Threads \cup Admins \cup {None}]
  /\ tx \in [Threads -> [pc: {"idle", "order", "encode", "submit"},
                         node: Nodes \cup {None}, slot: Slots \cup {None},
                         class: Classes, left: Seq(Items), ids: Seq(Nat), id: Nat,
                         start: [Streams -> Nat], batch: SUBSET FrameSet,
                         todo: SUBSET Targets, got: SUBSET FrameSet]]
  /\ life \in [Admins -> [pc: {"idle", "drain", "caches"}, node: Nodes \cup {None},
                          slot: Slots \cup {None},
                          op: {"none", "reset", "unregister"}, held: 0..NC]]
  /\ sent \in Nat
  /\ wire \in SUBSET [to: Targets, frame: FrameSet]

Seen == {w.frame : w \in wire}

\* A sequence number names one frame for as long as the process lives: whatever is
\* refused, taken back, saved, reset, unregistered or registered in another slot
\* meanwhile, no two different frames of a stream reach the Peer with one number (it
\* would drop the second as a duplicate).  Numbers that survive a reset are what the
\* code promises (linkg_transport.c:22); 05-M05 would let them begin again.
NumberNamesOneFrame ==
  \A f, g \in Seen :
    f.node = g.node /\ f.stream = g.stream /\ f.seq = g.seq => f = g

\* Each link is given the frames of a stream in the order of their numbers, chunk by
\* chunk: what the tx_order_lock is for.  A reset that zeroed the numbers, as 05-M05
\* has it, would break this.
LinksSeeOrder ==
  [][\A v \in wire' \ wire : \A w \in wire :
       v.to = w.to /\ v.frame.node = w.frame.node /\ v.frame.stream = w.frame.stream
         => w.frame.seq < v.frame.seq]_vars

\* While the caches of a Peer are cleared and until it is active again, no link
\* is given a frame for it: reset and unregister wait for the chunk in progress.
QuietWhileReset ==
  [][\A a \in Admins : life[a].pc = "caches" =>
       \A w \in wire' \ wire : w.frame.node # life[a].node]_vars

\* A send and a reset both come to an end: as long as one is under way some thread
\* has a step to take, so g_transport.lock, the class locks and the sender's wait for
\* a class lock inside g_transport.lock never hold each other up.
NobodyStuck ==
  (\E t \in Threads : tx[t].pc # "idle") \/ (\E a \in Admins : life[a].pc # "idle") =>
    (\E t \in Threads : ENABLED SendStep(t)) \/ (\E a \in Admins : ENABLED LifeStep(a))
=============================================================================
