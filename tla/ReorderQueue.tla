---------------------------- MODULE ReorderQueue ----------------------------
(***************************************************************************)
(* One Peer/Class queue of transport_reorder.c as a value: where the next  *)
(* frame is expected, the slots that hold frames that came too early, and  *)
(* whether somebody is delivering.  Every operator here is what one        *)
(* function does to it while g_reorder.lock is held.                       *)
(***************************************************************************)
EXTENDS RxWindow, Sequences, SequencesExt

CONSTANTS
  Window,    \* LINKG_TRANSPORT_REORDER_WINDOW_SIZE
  EmitMax,   \* LINKG_TRANSPORT_REORDER_EMIT_BATCH_MAX, _SUBMIT_BATCH_MAX
  Base,      \* sequence number before frame 1
  NoFrame, NoThread

ASSUME QueueAssumption ==
  /\ Window \in Nat \ {0} /\ EmitMax \in 1..Window /\ Base \in Nat
  /\ SeqCount % Window = 0 /\ 2 * Window <= SeqCount

\* A frame is its class, its number in the order of sending, and the lifecycle
\* epoch of the Peer that the receive window saw; the wire carries the number
\* modulo SeqCount.
Sq(f) == (Base + f.n) % SeqCount
Ahead(k, f) == Dist(Sq(f), k.exp)
Late(k, f) == Before(Sq(f), k.exp)
Fits(k, f) == ~Late(k, f) /\ Ahead(k, f) < Window
First(S) == CHOOSE f \in S : \A g \in S : ~Before(Sq(g), Sq(f))

\* _linkg_transport_reorder_clear_class
EmptyQueue == [init |-> FALSE, epoch |-> 0, exp |-> 0, busy |-> FALSE, owner |-> NoThread,
               slots |-> [i \in 0..(Window - 1) |-> NoFrame], old |-> {}]

\* The frames a queue holds; old are the slots whose deadline has passed.
Cached(k) == {k.slots[i] : i \in 0..(Window - 1)} \ {NoFrame}
Put(k, S) ==
  LET at(i) == {f \in S : Sq(f) % Window = i}
  IN [k EXCEPT !.slots = [i \in DOMAIN @ |-> IF at(i) = {} THEN @[i] ELSE CHOOSE f \in at(i) : TRUE],
               !.old = {i \in @ : at(i) = {}}]
Drop(k, S) ==
  [k EXCEPT !.slots = [i \in DOMAIN @ |-> IF @[i] \in S THEN NoFrame ELSE @[i]],
            !.old = {i \in @ : k.slots[i] \notin S}]

\* The frames of S from exp on without a gap, and the first cap frames of S.
Contiguous(k, S) ==
  {f \in S : \A d \in 0..Ahead(k, f) : \E g \in S : Ahead(k, g) = d}
Earliest(k, S, cap) ==
  {f \in S : Cardinality({g \in S : Ahead(k, g) < Ahead(k, f)}) < cap}

\* S leaves the queue for delivery by thread t, which expects exp next.
Deliver(k, S, exp, t) ==
  IF S = {} THEN [k EXCEPT !.exp = exp % SeqCount]
  ELSE [Drop(k, S) EXCEPT !.exp = exp % SeqCount, !.busy = TRUE, !.owner = t]

\* A queue begins with the frame that was sent first.
Begun(k, S) ==
  IF k.init THEN k ELSE [k EXCEPT !.init = TRUE, !.epoch = First(S).e, !.exp = Sq(First(S))]

\* _linkg_transport_reorder_rebase_empty_locked
Rebased(k, S) ==
  LET ahead == {f \in S : Before(k.exp, Sq(f))}
  IN IF k.busy \/ Cached(k) # {} \/ ahead = {} \/ \E f \in S : Fits(k, f) THEN k
     ELSE [k EXCEPT !.exp = Sq(First(ahead))]

\* _linkg_transport_reorder_filter_group_locked: what is not late, far or there.
Kept(k, S) == {f \in S : Fits(k, f) /\ k.slots[Sq(f) % Window] = NoFrame}

\* _linkg_transport_reorder_ready_prefix_locked: the batch has them in order.
InOrder(b, S) ==
  \A i, j \in DOMAIN b : i < j /\ b[i] \in S /\ b[j] \in S => ~Before(Sq(b[j]), Sq(b[i]))

\* Mutant of MayDeliver: a queue that is being delivered is delivered again.
MayDeliverAlways(k) == TRUE

MayDeliver(k) == ~k.busy

\* _linkg_transport_reorder_process_group_locked for the live frames S of batch b:
\* the queue, the frames to emit, the frames to hand on in place, and whether
\* anything was cached.
Process(k0, S, b, cap, t) ==
  LET k2 == Rebased(Begun(k0, S), S)
      kept == Kept(k2, S)
      prefix == Contiguous(k2, kept)
      next == k2.exp + Cardinality(prefix)
      k3 == Put(k2, kept)
      run == Earliest(k3, Contiguous(k3, Cached(k3)), cap)
  IN IF ~MayDeliver(k2)
     THEN [k |-> k3, emit |-> {}, ready |-> {}, cached |-> kept # {}]
     ELSE IF prefix # {} /\ InOrder(b, prefix)
             /\ \A f \in Cached(k2) : Sq(f) # next % SeqCount
     THEN [k |-> Deliver(Put(k2, kept \ prefix), prefix, next, t),
           emit |-> {}, ready |-> prefix, cached |-> kept # prefix]
     ELSE [k |-> Deliver(k3, run, k3.exp + Cardinality(run), t),
           emit |-> run, ready |-> {}, cached |-> kept # {}]

\* The first of the frames leaving go to thread t; if those are all, the queue goes on to
\* exp, and otherwise behind the farthest of them.
Farthest(k, S) == CHOOSE f \in S : \A g \in S : Ahead(k, g) <= Ahead(k, f)
Take(k, leaving, exp, t) ==
  LET taken == Earliest(k, leaving, EmitMax)
  IN [k |-> Deliver(k, taken, IF Cardinality(leaving) < EmitMax THEN exp
                              ELSE 1 + Sq(Farthest(k, taken)), t),
      emit |-> taken]

\* _linkg_transport_reorder_take_pressure_locked: deliver what has to leave the
\* window so that f fits; gaps are skipped, frames never.
TakePressure(k, f, t) ==
  LET target == Sq(f) - (Window - 1)
  IN Take(k, {g \in Cached(k) : Ahead(k, g) < Dist(target, k.exp)}, target, t)

\* How far the worker goes on: to the farthest frame that is overdue, and from there to
\* the next gap.
Stop(k) ==
  LET at(d) == \E f \in Cached(k) : Ahead(k, f) = d
      due(d) == \E i \in k.old : Ahead(k, k.slots[i]) >= d
  IN CHOOSE d \in 0..Window : /\ d = Window \/ (~at(d) /\ ~due(d))
                              /\ \A x \in 0..(d - 1) : at(x) \/ due(x)

\* _linkg_transport_reorder_take_worker_class_locked
TakeWorker(k, t) ==
  IF ~k.init \/ ~MayDeliver(k) \/ Cached(k) = {} \/ Stop(k) = 0 THEN [k |-> k, emit |-> {}]
  ELSE Take(k, {f \in Cached(k) : Ahead(k, f) < Stop(k)}, k.exp + Stop(k), t)
=============================================================================
