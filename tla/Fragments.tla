------------------------------ MODULE Fragments ------------------------------
(***************************************************************************)
(* How control frames of one Peer get from the links to the local handlers *)
(* and to the relay scheduler: transport_rx.c with the receive window, the *)
(* reassembly and the fragment pairs, while the Peer is reset,             *)
(* unregistered and registered.  Every link has a receive thread.  Frames  *)
(* may be lost, overtake each other and arrive once on every link; the     *)
(* buffers they arrive in are shared by reference count.  USER_DATA takes  *)
(* the way through the reorder queues, in Reorder.                         *)
(***************************************************************************)
EXTENDS FragmentCache, RxWindow, SequencesExt

CONSTANTS
  Links,       \* links, each with its receive thread
  Packets,     \* packets the Peer sends: [first, parts, local]
  Batches,     \* bound: what a link may bring at once, sequences of frames
  Base,        \* sequence number before the first frame
  Window,      \* LINKG_TRANSPORT_REORDER_WINDOW_SIZE
  MaxArrivals, \* bound: frames that arrive
  MaxTime,     \* bound: clock readings
  MaxEpoch     \* bound: lifecycle epochs

Frame(p, i) == [p |-> p, i |-> i]
Frames == UNION {{Frame(p, i) : i \in 1..p.parts} : p \in Packets}
Buffers == [l: Links, f: Frames]
Buf(l, f) == [l |-> l, f |-> f]
Number(f) == f.p.first + f.i - 1
Sq(f) == (Base + Number(f)) % SeqCount
Fragment(f) == f.p.parts = 2

ASSUME FragmentsAssumption ==
  /\ Packets \subseteq [first: 1..(SeqCount \div 2 - 2), parts: {1, 2}, local: BOOLEAN]
  /\ \A p, q \in Packets : p # q => p.first + p.parts <= q.first \/ q.first + q.parts <= p.first
  /\ Batches \subseteq Seq(Frames)
  /\ \A batch \in Batches : \A i, j \in 1..Len(batch) : batch[i] = batch[j] => i = j
  /\ Base \in Nat /\ Window \in 1..WinBits
  /\ MaxArrivals \in Nat /\ MaxTime \in Nat \ {0} /\ MaxEpoch \in Nat

Caches == {"local", "relay"}

VARIABLES
  epoch,     \* lifecycle_epoch of the Peer
  life,      \* where the Discovery thread is with the Peer
  window,    \* rx_control_window
  lost,      \* rx_lost_packets
  passed,    \* history: numbers of the frames the window let pass in this life
  clock,     \* linkg_time_elapsed_us
  cache,     \* the two caches
  lastGc,    \* last_gc_us of each
  owner,     \* who holds reassembly.lock and forward_pairs.lock
  refs,      \* reference count of every packet buffer
  arrived,   \* buffers that were used
  rx,        \* where each receive thread is
  got        \* history: what passed the last epoch check on its way to a handler

vars == <<epoch, life, window, lost, passed, clock, cache, lastGc, owner, refs, arrived, rx, got>>
peer == <<epoch, life, window, lost, passed>>

NoQueue == [deliver |-> << >>, forward |-> << >>]
IdleRx == [pc |-> "idle", e |-> 0, now |-> 0, base |-> {}, todo |-> << >>, line |-> << >>,
           full |-> {}, out |-> NoQueue, kept |-> {}]

Init ==
  /\ epoch = 0 /\ life = "none"
  /\ window = EmptyWindow /\ lost = 0 /\ passed = {}
  /\ clock = 1
  /\ cache = [c \in Caches |-> EmptyCache] /\ lastGc = [c \in Caches |-> 0]
  /\ owner = [c \in Caches |-> None]
  /\ refs = [b \in Buffers |-> 0] /\ arrived = {}
  /\ rx = [l \in Links |-> IdleRx]
  /\ got = {}

\* linkg_transport_peer_epoch_matches
Matches(e) == e % 2 = 0 /\ e = epoch

\* linkg_packet_retain for the buffers in plus, linkg_packet_release for those in minus.
Counted(plus, minus) ==
  [b \in Buffers |-> refs[b] + (IF b \in plus THEN 1 ELSE 0) - (IF b \in minus THEN 1 ELSE 0)]

\* Which stage of linkg_transport_receive_batch a call is in: fragments to reassemble,
\* frames to dispatch, a batch to deliver, a batch to forward, or nothing left.
Staged(r) ==
  [r EXCEPT !.pc = IF r.todo # << >> THEN "reassemble"
                   ELSE IF r.line # << >> THEN "dispatch"
                   ELSE IF r.out["deliver"] # << >> THEN "deliver"
                   ELSE IF r.out["forward"] # << >> THEN "forward" ELSE "return"]

\* The fragments of packets for this node.
LocalHalves == {f \in Frames : f.p.local /\ Fragment(f)}

-----------------------------------------------------------------------------
\* Arrival

\* One frame of a batch whose frames are S: the window, the loss, the frames that passed.
AcceptFrame(r, f, S) ==
  LET a == WindowAccept(Prepared(r.w, Sq(f), {Sq(g) : g \in S}, Window), Sq(f))
  IN [w |-> a.w, lost |-> r.lost + a.lost, ok |-> IF a.ok THEN Append(r.ok, f) ELSE r.ok]

\* _linkg_transport_rx_accept_batch
Accepted(w, batch) ==
  LET run[n \in 0..Len(batch)] ==
        IF n = 0 THEN [w |-> w, lost |-> 0, ok |-> << >>]
        ELSE AcceptFrame(run[n - 1], batch[n], ToSet(batch))
  IN run[Len(batch)]

\* A link's thread enters linkg_transport_receive_batch with frames in fresh buffers.
\* While the Peer is not active, and when every frame is a duplicate, all are dropped.
Receive(l, batch) ==
  LET B == {Buf(l, f) : f \in ToSet(batch)}
      r == Accepted(window, batch)
  IN /\ rx[l].pc = "idle" /\ B \cap arrived = {}
     /\ Cardinality(arrived \cup B) <= MaxArrivals
     /\ life = "idle" /\ Matches(epoch)
     /\ arrived' = arrived \cup B
     /\ window' = r.w /\ lost' = lost + r.lost
     /\ passed' = passed \cup {Number(f) : f \in ToSet(r.ok)}
     /\ IF r.ok = << >> THEN UNCHANGED <<refs, rx>>
        ELSE /\ refs' = Counted(B, {})
             /\ rx' = [rx EXCEPT ![l] = Staged([IdleRx EXCEPT
                  !.e = epoch, !.base = B, !.line = r.ok,
                  !.todo = Selected(r.ok, LocalHalves)])]
     /\ UNCHANGED <<epoch, life, clock, cache, lastGc, owner, got>>

-----------------------------------------------------------------------------
\* Local fragments: _linkg_transport_rx_reassemble_batch and
\* linkg_transport_reassembly_submit_batch

\* The clock is read before the lock is asked for.
ReadClock(l) ==
  /\ rx[l].pc = "reassemble"
  /\ rx' = [rx EXCEPT ![l].pc = "lock", ![l].now = clock]
  /\ UNCHANGED <<peer, clock, cache, lastGc, owner, refs, arrived, got>>

\* Sweep(c, now): the collection that a call starts with, for cache c.
Sweep(c, now) ==
  /\ cache' = [cache EXCEPT ![c] = Collected(@, lastGc[c], now)]
  /\ lastGc' = [lastGc EXCEPT ![c] = IF GcDue(@, now) THEN now ELSE @]
  /\ refs' = Counted({}, Held(cache[c]) \ Held(Collected(cache[c], lastGc[c], now)))

EnterReassembly(l) ==
  /\ rx[l].pc = "lock" /\ owner["local"] = None
  /\ owner' = [owner EXCEPT !["local"] = l]
  /\ Sweep("local", rx[l].now)
  /\ rx' = [rx EXCEPT ![l].pc = "check"]
  /\ UNCHANGED <<peer, clock, arrived, got>>

\* After the last fragment: the lock is released, and what is still half drops out of
\* the line.
Reassembled(r, full) ==
  LET rest == Tail(r.todo)
      kept == Selected(r.line, (Frames \ LocalHalves) \cup {w.f : w \in full})
  IN IF rest # << >>
       THEN [r EXCEPT !.todo = rest, !.pc = "check", !.full = full]
       ELSE Staged([r EXCEPT !.todo = rest, !.full = full, !.line = kept])

Unlocked(c, l) == IF Len(rx[l].todo) = 1 THEN [owner EXCEPT ![c] = None] ELSE owner

\* The epoch is read under the lock; a Peer reset meanwhile makes the fragment stale.
StillCurrent(e) == Matches(e)

CheckFragment(l) ==
  /\ rx[l].pc = "check"
  /\ IF StillCurrent(rx[l].e)
       THEN rx' = [rx EXCEPT ![l].pc = "store"] /\ UNCHANGED owner
       ELSE rx' = [rx EXCEPT ![l] = Reassembled(@, @.full)] /\ owner' = Unlocked("local", l)
  /\ UNCHANGED <<peer, clock, cache, lastGc, refs, arrived, got>>

\* Mutant of TailReleased: the buffer of a cached tail is forgotten.
TailReleasedNever(C, whole) == {}

\* The cached tail is copied behind the first fragment and released.
TailReleased(C, whole) == {b \in whole \cap Held(C) : b.f.i = 2}

\* _linkg_transport_reassembly_submit_locked: a new entry retains the buffer; of a whole
\* packet only the first buffer goes on, with one reference.
StoreFragment(l) ==
  LET f == Head(rx[l].todo)
      b == Buf(l, f)
      C == cache["local"]
      r == Submitted(C, [p |-> f.p, e |-> rx[l].e], b, rx[l].now)
      first == {c \in r.whole : c.f.i = 1}
  IN /\ rx[l].pc = "store"
     /\ cache' = [cache EXCEPT !["local"] = r.cache]
     /\ refs' = Counted((Held(r.cache) \cup first) \ Held(C),
                        (Held(C) \ (Held(r.cache) \cup r.whole)) \cup TailReleased(C, r.whole))
     /\ rx' = [rx EXCEPT ![l] = Reassembled(@,
                 IF r.whole = {} THEN @.full
                 ELSE @.full \cup {[f |-> f, bufs |-> r.whole, own |-> first]})]
     /\ owner' = Unlocked("local", l)
     /\ UNCHANGED <<peer, clock, lastGc, arrived, got>>

-----------------------------------------------------------------------------
\* _linkg_transport_rx_dispatch_batch

OwnedBy(r, f) == UNION {w.own : w \in {v \in r.full : v.f = f}}

\* The frame belongs to a life that is over.
DispatchStale(l) ==
  LET f == Head(rx[l].line)
  IN /\ rx[l].pc = "dispatch" /\ ~Matches(rx[l].e)
     /\ refs' = Counted({}, OwnedBy(rx[l], f))
     /\ rx' = [rx EXCEPT ![l] = Staged([rx[l] EXCEPT !.line = Tail(@),
                                                     !.full = {w \in @ : w.f # f}])]
     /\ UNCHANGED <<peer, clock, cache, lastGc, owner, arrived, got>>

\* Whole frames are lent to the batch, reassembled packets given to it.
DispatchFrame(l) ==
  LET f == Head(rx[l].line)
      q == IF f.p.local THEN "deliver" ELSE "forward"
      item == IF Fragment(f) THEN CHOOSE w \in rx[l].full : w.f = f
              ELSE [f |-> f, bufs |-> {Buf(l, f)}, own |-> {}]
  IN /\ rx[l].pc = "dispatch" /\ Matches(rx[l].e)
     /\ f.p.local \/ ~Fragment(f)
     /\ rx' = [rx EXCEPT ![l] = Staged([rx[l] EXCEPT !.line = Tail(@),
                                                     !.out[q] = Append(@, item),
                                                     !.full = {w \in @ : w.f # f}])]
     /\ UNCHANGED <<peer, clock, cache, lastGc, owner, refs, arrived, got>>

\* linkg_transport_forward_pair_submit for a fragment to relay, up to the lock.
DispatchPair(l) ==
  LET f == Head(rx[l].line)
  IN /\ rx[l].pc = "dispatch" /\ Matches(rx[l].e)
     /\ ~f.p.local /\ Fragment(f)
     /\ rx' = [rx EXCEPT ![l].pc = "pair"]
     /\ UNCHANGED <<peer, clock, cache, lastGc, owner, refs, arrived, got>>

PairClock(l) ==
  /\ rx[l].pc = "pair"
  /\ rx' = [rx EXCEPT ![l].pc = "pairlock", ![l].now = clock]
  /\ UNCHANGED <<peer, clock, cache, lastGc, owner, refs, arrived, got>>

\* Under the lock: -ESTALE, or the sweep and then the fragment.
EnterPairs(l) ==
  /\ rx[l].pc = "pairlock" /\ owner["relay"] = None
  /\ IF StillCurrent(rx[l].e)
       THEN /\ Sweep("relay", rx[l].now)
            /\ owner' = [owner EXCEPT !["relay"] = l]
            /\ rx' = [rx EXCEPT ![l].pc = "pairstore"]
       ELSE /\ rx' = [rx EXCEPT ![l] = Staged([rx[l] EXCEPT !.line = Tail(@)])]
            /\ UNCHANGED <<cache, lastGc, refs, owner>>
  /\ UNCHANGED <<peer, clock, arrived, got>>

\* _linkg_transport_forward_pair_complete_locked: FIRST, then LAST.
PairItems(whole, b) ==
  <<CHOOSE c \in whole : c.f.i = 1, CHOOSE c \in whole : c.f.i = 2>>

\* The cache, or the forward batch for both halves, holds a reference.
StorePair(l) ==
  LET f == Head(rx[l].line)
      b == Buf(l, f)
      C == cache["relay"]
      r == Submitted(C, [p |-> f.p, e |-> rx[l].e], b, rx[l].now)
      item(c) == [f |-> c.f, bufs |-> {c}, own |-> {c}]
      pair == PairItems(r.whole, b)
  IN /\ rx[l].pc = "pairstore"
     /\ cache' = [cache EXCEPT !["relay"] = r.cache]
     /\ refs' = Counted((Held(r.cache) \cup r.whole) \ Held(C),
                        Held(C) \ (Held(r.cache) \cup r.whole))
     /\ owner' = [owner EXCEPT !["relay"] = None]
     /\ rx' = [rx EXCEPT ![l] = Staged([rx[l] EXCEPT
                 !.line = Tail(@),
                 !.out["forward"] =
                    IF r.whole = {} THEN @ ELSE @ \o <<item(pair[1]), item(pair[2])>>])]
     /\ UNCHANGED <<peer, clock, lastGc, arrived, got>>

-----------------------------------------------------------------------------
\* _linkg_transport_rx_flush_delivery, then _linkg_transport_rx_flush_forward

MayHand(e) == Matches(e)

\* The item with frames F of a call of life e, and how many copies went before.
Handed(F, e) ==
  [frames |-> F, e |-> e, copy |-> Cardinality({h \in got : h.frames = F /\ h.e = e})]

\* One item of the batch: its epoch is read for the last time.
FlushItem(l) ==
  LET q == rx[l].pc
      item == Head(rx[l].out[q])
  IN /\ q \in {"deliver", "forward"} /\ rx[l].out[q] # << >>
     /\ IF MayHand(rx[l].e)
          THEN /\ got' = got \cup {Handed({b.f : b \in item.bufs}, rx[l].e)}
               /\ rx' = [rx EXCEPT ![l].out[q] = Tail(@), ![l].kept = @ \cup item.own]
               /\ UNCHANGED refs
          ELSE /\ refs' = Counted({}, item.own)
               /\ rx' = [rx EXCEPT ![l].out[q] = Tail(@)]
               /\ UNCHANGED got
     /\ UNCHANGED <<peer, clock, cache, lastGc, owner, arrived>>

\* The handler has run, what the batch owned is released.
Delivered(l) ==
  /\ rx[l].pc = "deliver" /\ rx[l].out["deliver"] = << >>
  /\ refs' = Counted({}, rx[l].kept)
  /\ rx' = [rx EXCEPT ![l] = Staged([rx[l] EXCEPT !.kept = {}])]
  /\ UNCHANGED <<peer, clock, cache, lastGc, owner, arrived, got>>

\* So has the relay handler.
Forwarded(l) ==
  /\ rx[l].pc = "forward" /\ rx[l].out["forward"] = << >>
  /\ refs' = Counted({}, rx[l].kept)
  /\ rx' = [rx EXCEPT ![l] = Staged([rx[l] EXCEPT !.kept = {}])]
  /\ UNCHANGED <<peer, clock, cache, lastGc, owner, arrived, got>>

\* The call returns to the link, which releases its own references.
Return(l) ==
  /\ rx[l].pc = "return"
  /\ refs' = Counted({}, rx[l].base)
  /\ rx' = [rx EXCEPT ![l] = IdleRx]
  /\ UNCHANGED <<peer, clock, cache, lastGc, owner, arrived, got>>

-----------------------------------------------------------------------------
\* Life cycle of the Peer

\* linkg_transport_register_peer: the next even epoch after this one.
Register ==
  /\ life = "none" /\ epoch' = (IF (epoch + 1) % 2 = 0 THEN epoch + 1 ELSE epoch + 2)
  /\ epoch' <= MaxEpoch
  /\ life' = "idle"
  /\ UNCHANGED <<window, lost, passed, clock, cache, lastGc, owner, refs, arrived, rx, got>>

\* The first half of linkg_transport_reset_peer and linkg_transport_unregister_peer:
\* under g_transport.lock the epoch turns odd and the classes are reset.
Quiesce(op) ==
  /\ life = "idle" /\ epoch + 2 <= MaxEpoch
  /\ epoch' = epoch + 1 /\ life' = op
  /\ window' = EmptyWindow /\ lost' = 0 /\ passed' = {}
  /\ UNCHANGED <<clock, cache, lastGc, owner, refs, arrived, rx, got>>

\* Mutant of MayClear: without the lock of the cache.
MayClearNow(c) == TRUE

MayClear(c) == owner[c] = None

Cleared(c) ==
  /\ MayClear(c)
  /\ cache' = [cache EXCEPT ![c] = EmptyCache]
  /\ refs' = Counted({}, Held(cache[c]))
  /\ UNCHANGED <<epoch, window, lost, passed, clock, lastGc, owner, arrived, rx, got>>

\* linkg_transport_reassembly_reset_peer
ClearLocal ==
  /\ life \in {"reset", "unregister"} /\ Cleared("local")
  /\ life' = IF life = "reset" THEN "reset2" ELSE "unregister2"

\* linkg_transport_forward_pair_reset_peer
ClearPairs ==
  /\ life \in {"reset2", "unregister2"} /\ Cleared("relay")
  /\ life' = IF life = "reset2" THEN "reset3" ELSE "unregister3"

\* The Peer is active again, or its slot is free.
EndReset ==
  /\ \/ life = "reset3" /\ epoch' = epoch + 1 /\ life' = "idle"
     \/ life = "unregister3" /\ UNCHANGED epoch /\ life' = "none"
  /\ UNCHANGED <<window, lost, passed, clock, cache, lastGc, owner, refs, arrived, rx, got>>

Tick ==
  /\ clock < MaxTime /\ clock' = clock + 1
  /\ UNCHANGED <<peer, cache, lastGc, owner, refs, arrived, rx, got>>

-----------------------------------------------------------------------------
RxStep(l) ==
  \/ ReadClock(l) \/ EnterReassembly(l) \/ CheckFragment(l)
  \/ StoreFragment(l)
  \/ DispatchStale(l) \/ DispatchFrame(l) \/ DispatchPair(l) \/ PairClock(l)
  \/ EnterPairs(l) \/ StorePair(l)
  \/ FlushItem(l) \/ Delivered(l) \/ Forwarded(l) \/ Return(l)

Next ==
  \/ \E l \in Links, batch \in Batches : Receive(l, batch)
  \/ \E l \in Links : RxStep(l)
  \/ Register \/ Quiesce("reset") \/ Quiesce("unregister")
  \/ ClearLocal \/ ClearPairs \/ EndReset
  \/ Tick

Spec == Init /\ [][Next]_vars

-----------------------------------------------------------------------------
Entries == [p: Packets, e: 0..MaxEpoch, until: Nat, bufs: SUBSET Buffers]
ASSUME NoneAssumption == None \notin Links /\ None \notin Entries
ItemSet == [f: Frames, bufs: SUBSET Buffers, own: SUBSET Buffers]
Pcs == {"idle", "reassemble", "lock", "check", "store", "dispatch", "pair", "pairlock",
        "pairstore", "deliver", "forward", "return"}

TypeOK ==
  /\ epoch \in 0..MaxEpoch
  /\ life \in {"none", "idle", "reset", "reset2", "reset3", "unregister", "unregister2",
               "unregister3"}
  /\ window \in Windows /\ lost \in Nat /\ passed \subseteq Nat
  /\ clock \in 1..MaxTime /\ lastGc \in [Caches -> 0..MaxTime]
  /\ \A c \in Caches, w \in 1..Ways : cache[c][w] = None \/ cache[c][w] \in Entries
  /\ owner \in [Caches -> Links \cup {None}]
  /\ refs \in [Buffers -> Nat] /\ arrived \subseteq Buffers
  /\ \A l \in Links :
       /\ rx[l].pc \in Pcs /\ rx[l].e \in 0..MaxEpoch /\ rx[l].now \in 0..MaxTime
       /\ rx[l].base \subseteq Buffers /\ rx[l].kept \subseteq Buffers
       /\ rx[l].todo \in Seq(Frames) /\ rx[l].line \in Seq(Frames)
       /\ rx[l].full \subseteq ItemSet
       /\ \A q \in {"deliver", "forward"} : rx[l].out[q] \in Seq(ItemSet)

\* The references a thread answers for besides its link's own.
Owned(l) ==
  LET items == rx[l].full \cup ToSet(rx[l].out["deliver"]) \cup ToSet(rx[l].out["forward"])
  IN (UNION {w.own : w \in items}) \cup rx[l].kept

\* Types hold and reference counts are exact: a buffer is counted once for the link that received it,
\* once for each cache entry and once for each batch that owns it, through completion,
\* expiry, eviction, stale epochs and resets; so none is freed while in use and none is
\* lost to the pool.
RefsExact ==
  /\ TypeOK
  /\ \A b \in Buffers :
       refs[b] = Cardinality({c \in Caches : b \in Held(cache[c])})
                 + Cardinality({l \in Links : b \in Owned(l)})
                 + Cardinality({l \in Links : b \in rx[l].base})

\* Whenever the Peer is active, both caches hold halves of this life only: no fragment
\* checked before a reset slips in behind the clearing of the caches.
NoOldEntries ==
  epoch % 2 = 0 => \A c \in Caches, w \in 1..Ways : cache[c][w] # None => cache[c][w].e = epoch

\* The loss counter counts each frame that left the window without having arrived, and
\* none that may still arrive (the @note of linkg_transport_window_accept_ex).
LossExact ==
  passed # {} =>
    lost = Cardinality({n \in Min(passed)..(Max(passed) - WinBits) : n \notin passed})

\* The detailed receiver implements PacketChannel: every packet is delivered whole, from
\* its own two fragments, at most once in a life of the Peer and never for a life that
\* is over; relayed fragments go on FIRST before LAST.
Channel == INSTANCE PacketChannel WITH epoch <- epoch, got <- got
ChannelSpec == Channel!Spec
=============================================================================
