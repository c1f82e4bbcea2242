------------------------------- MODULE Reorder -------------------------------
(***************************************************************************)
(* How USER_DATA frames of one Peer get from the links to the local        *)
(* handlers: receive threads run the receive window and submit to the      *)
(* reorder queues, a worker delivers what has waited too long, handlers    *)
(* run with no lock held, and the Discovery thread resets, unregisters and *)
(* registers the Peer meanwhile.  A step is what a thread does between two *)
(* points where it takes, releases or waits for g_reorder.lock.            *)
(***************************************************************************)
EXTENDS ReorderQueue

CONSTANTS
  Rx,        \* the receive threads of the links
  NC,        \* traffic classes
  MaxN,      \* bound: frames sent in each class
  Chunks,    \* bound: the sequences of frames [c, n] that a link may bring at once
  MaxEpoch   \* bound: lifecycle epochs

Worker == "worker"
Life == "discovery"
Threads == Rx \cup {Worker}
Classes == 0..(NC - 1)
Frames == [c: Classes, n: 1..MaxN, e: 0..MaxEpoch]

ASSUME ReorderAssumption ==
  /\ NC \in Nat \ {0} /\ MaxN \in 1..(SeqCount \div 2 - 1)
  /\ MaxEpoch \in Nat
  /\ \A b \in Chunks : b \in Seq([c: 0..(NC - 1), n: 1..MaxN])
  /\ {Worker, Life, NoThread} \cap Rx = {} /\ NoThread \notin {Worker, Life}
  /\ NoFrame \notin Frames

VARIABLES
  epoch, valid,  \* lifecycle_epoch and valid of the Peer
  win,           \* class -> rx_user_window
  q,             \* class -> its queue in g_reorder.classes
  pc,            \* thread -> where it is
  todo,          \* receive thread -> frames it has still to process
  out,           \* thread -> frames it is emitting or handing to the handler
  ready,         \* receive thread -> READY frames of this chunk
  back,          \* receive thread -> where it goes on after an emit
  cur,           \* receive thread -> class of its pressure group
  wake,          \* receive thread -> worker_wakeup
  lock,          \* who keeps g_reorder.lock from one step to the next
  waiting,       \* who is blocked on g_reorder.condition
  alarm,         \* the worker waits with a deadline
  cursor,        \* worker_cursor
  life,          \* where the Discovery thread is
  last           \* class -> the newest frame handed to the handler (history)

peer == <<epoch, valid, win>>
rxv == <<todo, ready, back, cur, wake>>
vars == <<epoch, valid, win, q, pc, todo, out, ready, back, cur, wake, lock,
          waiting, alarm, cursor, life, last>>

Init ==
  /\ epoch = 0 /\ valid = FALSE /\ win = [c \in Classes |-> EmptyWindow]
  /\ q = [c \in Classes |-> EmptyQueue]
  /\ pc = [t \in Threads |-> IF t = Worker THEN "scan" ELSE "idle"]
  /\ todo = [t \in Rx |-> <<>>] /\ ready = [t \in Rx |-> {}]
  /\ out = [t \in Threads |-> {}] /\ back = [t \in Rx |-> "idle"]
  /\ cur = [t \in Rx |-> 0] /\ wake = [t \in Rx |-> FALSE]
  /\ lock = NoThread /\ waiting = {} /\ alarm = FALSE /\ cursor = 0
  /\ life = "idle" /\ last = [c \in Classes |-> [e |-> 0, n |-> 0]]

Active == epoch % 2 = 0
Matches(f) == Active /\ f.e = epoch
Of(s, c) == {f \in ToSet(s) : f.c = c}
Without(s, S) == Selected(s, ToSet(s) \ S)

(* Receiving: _linkg_transport_rx_accept_batch, under g_transport.lock *)

AcceptFrame(r, f, b) ==
  LET a == WindowAccept(Prepared(r.w[f.c], Sq(f), {Sq(g) : g \in Of(b, f.c)}, Window), Sq(f))
  IN [w |-> [r.w EXCEPT ![f.c] = a.w], s |-> IF a.ok THEN Append(r.s, f) ELSE r.s]

Accept(w, b) ==
  LET run[i \in 0..Len(b)] ==
        IF i = 0 THEN [w |-> w, s |-> <<>>] ELSE AcceptFrame(run[i - 1], b[i], b)
  IN run[Len(b)]

Receive(t, chunk) ==
  LET b == [i \in DOMAIN chunk |-> [c |-> chunk[i].c, n |-> chunk[i].n, e |-> epoch]]
      r == Accept(win, b)
  IN /\ pc[t] = "idle" /\ valid /\ Active
     /\ win' = r.w /\ r.s # <<>>
     /\ todo' = [todo EXCEPT ![t] = r.s]
     /\ pc' = [pc EXCEPT ![t] = "submit"]
     /\ UNCHANGED <<epoch, valid, q, out, ready, back, cur, wake, lock, waiting,
                    alarm, cursor, life, last>>

(* Submitting: linkg_transport_reorder_submit_batch *)

Live(c, S) == {f \in S : Matches(f) /\ (q[c].init => q[c].epoch = f.e)}

Far(k, f) == ~Late(k, f) /\ Ahead(k, f) >= Window

\* Mutant of NeedsPressure: frames beyond the window go down the plain path.
NeedsPressureNever(c, S) == FALSE

\* _linkg_transport_reorder_group_needs_pressure_locked
NeedsPressure(c, S) ==
  LET base == IF q[c].init THEN q[c] ELSE [q[c] EXCEPT !.exp = Sq(First(S))]
  IN \E f \in S : Far(base, f)

\* _linkg_transport_reorder_process_group_locked; cap is what is left of the
\* emit array.
Group(c, S, b, cap, t) ==
  IF Live(c, S) = {} THEN [k |-> q[c], emit |-> {}, ready |-> {}, cached |-> FALSE]
  ELSE Process(q[c], Live(c, S), b, cap, t)

GroupsOf(b) == {f.c : f \in ToSet(b)}

\* What the groups before left, and the group of class c.
BatchGroup(r, c, b, t) ==
  LET g == Group(c, Of(b, c), b, EmitMax - Cardinality(r.emit), t)
  IN [q |-> [r.q EXCEPT ![c] = g.k], emit |-> r.emit \cup g.emit,
      ready |-> r.ready \cup g.ready, cached |-> r.cached \/ g.cached]

\* _linkg_transport_reorder_process_batch_locked: the groups in the order of their
\* first frames.
Batch(b, t) ==
  LET run[i \in 0..Len(b)] ==
        IF i = 0 THEN [q |-> q, emit |-> {}, ready |-> {}, cached |-> FALSE]
        ELSE IF \E j \in 1..(i - 1) : b[j].c = b[i].c THEN run[i - 1]
        ELSE BatchGroup(run[i - 1], b[i].c, b, t)
  IN run[Len(b)]

Free == lock = NoThread
Broadcast == waiting' = {}
BroadcastIf(b) == waiting' = IF b THEN {} ELSE waiting

\* No group exceeds its window: everything in one go.
SubmitPlain(t) ==
  LET b == todo[t]
      r == Batch(b, t)
  IN /\ pc[t] = "submit" /\ Free
     /\ \A c \in GroupsOf(b) : ~NeedsPressure(c, Of(b, c))
     /\ q' = r.q /\ BroadcastIf(r.cached)
     /\ out' = [out EXCEPT ![t] = r.emit] /\ ready' = [ready EXCEPT ![t] = r.ready]
     /\ todo' = [todo EXCEPT ![t] = <<>>]
     /\ back' = [back EXCEPT ![t] = "finish"]
     /\ pc' = [pc EXCEPT ![t] = IF r.emit = {} THEN "finish" ELSE "emit"]
     /\ UNCHANGED <<peer, cur, wake, lock, alarm, cursor, life, last>>

SubmitPressure(t) ==
  /\ pc[t] = "submit" /\ Free
  /\ \E c \in GroupsOf(todo[t]) : NeedsPressure(c, Of(todo[t], c))
  /\ lock' = t /\ pc' = [pc EXCEPT ![t] = "groups"]
  /\ wake' = [wake EXCEPT ![t] = FALSE]
  /\ UNCHANGED <<peer, q, todo, out, ready, back, cur, waiting, alarm, cursor, life, last>>

\* A thread that keeps the lock gives it up to emit S, and goes on at where.
EmitUnlocked(t, S, where) ==
  /\ out' = [out EXCEPT ![t] = S] /\ back' = [back EXCEPT ![t] = where]
  /\ lock' = IF S = {} THEN lock ELSE NoThread
  /\ pc' = [pc EXCEPT ![t] = IF S = {} THEN where ELSE "emit"]

\* A group of a pressure batch that fits its window by itself.
GroupPlain(t) ==
  LET c == Head(todo[t]).c
      S == Of(todo[t], c)
      g == Group(c, S, todo[t], EmitMax, t)
  IN /\ pc[t] = "groups" /\ lock = t /\ todo[t] # <<>> /\ ~NeedsPressure(c, S)
     /\ q' = [q EXCEPT ![c] = g.k]
     /\ ready' = [ready EXCEPT ![t] = @ \cup g.ready]
     /\ wake' = [wake EXCEPT ![t] = @ \/ g.cached]
     /\ todo' = [todo EXCEPT ![t] = Without(@, S)]
     /\ EmitUnlocked(t, g.emit, "groups")
     /\ UNCHANGED <<peer, cur, waiting, alarm, cursor, life, last>>

GroupPressure(t) ==
  LET c == Head(todo[t]).c
  IN /\ pc[t] = "groups" /\ lock = t /\ todo[t] # <<>> /\ NeedsPressure(c, Of(todo[t], c))
     /\ cur' = [cur EXCEPT ![t] = c] /\ pc' = [pc EXCEPT ![t] = "press"]
     /\ UNCHANGED <<peer, q, todo, out, ready, back, wake, lock, waiting, alarm, cursor, life, last>>

GroupsDone(t) ==
  /\ pc[t] = "groups" /\ lock = t /\ todo[t] = <<>>
  /\ lock' = NoThread /\ BroadcastIf(wake[t])
  /\ pc' = [pc EXCEPT ![t] = "finish"]
  /\ UNCHANGED <<peer, q, todo, out, ready, back, cur, wake, alarm, cursor, life, last>>

(* The loop of _linkg_transport_reorder_process_pressure_group_locked: one     *)
(* action for each way through its body.                                       *)

Pressing(t) == pc[t] = "press" /\ lock = t /\ Of(todo[t], cur[t]) # {}
Pressed(t) == First(Of(todo[t], cur[t]))

\* Mutant of Recovered: also a queue that holds frames.
RecoveredOver(k, f) ==
  IF k.init /\ ~k.busy /\ Far(k, f) THEN [k EXCEPT !.exp = Sq(f)] ELSE k

\* An empty queue goes straight to the frame.
Recovered(k, f) ==
  IF k.init /\ ~k.busy /\ Cached(k) = {} /\ Far(k, f) THEN [k EXCEPT !.exp = Sq(f)] ELSE k

PressStale(t) ==
  LET f == Pressed(t)
  IN /\ Pressing(t) /\ f \notin Live(cur[t], {f})
     /\ todo' = [todo EXCEPT ![t] = Without(@, {f})]
     /\ UNCHANGED <<peer, q, pc, out, ready, back, cur, wake, lock, waiting, alarm, cursor, life, last>>

Outside(k, f) == k.init /\ Far(k, f)

\* _linkg_transport_reorder_self_delivering_locked
SelfDelivering(t) == \E c \in Classes : q[c].busy /\ q[c].owner = t

PressMayWait(t) == ~SelfDelivering(t)

PressGivesUp(t) ==
  LET f == Pressed(t)
      k == q[cur[t]]
  IN /\ Pressing(t) /\ f \in Live(cur[t], {f}) /\ Outside(k, f) /\ k.busy
     /\ ~PressMayWait(t)
     /\ todo' = [todo EXCEPT ![t] = Without(@, {f})]
     /\ UNCHANGED <<peer, q, pc, out, ready, back, cur, wake, lock, waiting, alarm, cursor, life, last>>

PressWaits(t) ==
  LET f == Pressed(t)
      k == q[cur[t]]
  IN /\ Pressing(t) /\ f \in Live(cur[t], {f}) /\ Outside(k, f) /\ k.busy
     /\ PressMayWait(t)
     /\ lock' = NoThread /\ waiting' = waiting \cup {t}
     /\ pc' = [pc EXCEPT ![t] = "relock"] /\ back' = [back EXCEPT ![t] = "press"]
     /\ UNCHANGED <<peer, q, todo, out, ready, cur, wake, alarm, cursor, life, last>>

PressTakes(t) ==
  LET f == Pressed(t)
      k == Recovered(q[cur[t]], f)
      r == TakePressure(k, f, t)
  IN /\ Pressing(t) /\ f \in Live(cur[t], {f}) /\ Outside(k, f) /\ MayDeliver(k)
     /\ q' = [q EXCEPT ![cur[t]] = r.k]
     /\ EmitUnlocked(t, r.emit, "press")
     /\ UNCHANGED <<peer, todo, ready, cur, wake, waiting, alarm, cursor, life, last>>

\* The frames that fit the window now; what would be READY is emitted here.
PressPartial(t) ==
  LET c == cur[t]
      f == Pressed(t)
      k == Recovered(q[c], f)
      base == IF k.init THEN k ELSE [k EXCEPT !.exp = Sq(f)]
      S == {g \in Of(todo[t], c) : ~Far(base, g)}
      g == Process(k, Live(c, S), todo[t], EmitMax, t)
  IN /\ Pressing(t) /\ f \in Live(c, {f}) /\ ~Outside(k, f)
     /\ q' = [q EXCEPT ![c] = g.k]
     /\ todo' = [todo EXCEPT ![t] = Without(@, S)]
     /\ wake' = [wake EXCEPT ![t] = @ \/ g.cached]
     /\ BroadcastIf(wake'[t])
     /\ EmitUnlocked(t, g.emit \cup g.ready, "press")
     /\ UNCHANGED <<peer, ready, cur, alarm, cursor, life, last>>

PressDone(t) ==
  /\ pc[t] = "press" /\ lock = t /\ Of(todo[t], cur[t]) = {}
  /\ pc' = [pc EXCEPT ![t] = "groups"]
  /\ UNCHANGED <<peer, q, todo, out, ready, back, cur, wake, lock, waiting, alarm, cursor, life, last>>

Relock(t) ==
  /\ pc[t] = "relock" /\ t \notin waiting /\ Free
  /\ lock' = t /\ pc' = [pc EXCEPT ![t] = back[t]]
  /\ UNCHANGED <<peer, q, todo, out, ready, back, cur, wake, waiting, alarm, cursor, life, last>>

\* The READY frames go down the normal path of the chunk.
Finish(t) ==
  /\ pc[t] = "finish"
  /\ out' = [out EXCEPT ![t] = ready[t]] /\ ready' = [ready EXCEPT ![t] = {}]
  /\ back' = [back EXCEPT ![t] = "idle"]
  /\ pc' = [pc EXCEPT ![t] = IF ready[t] = {} THEN "idle" ELSE "emit"]
  /\ UNCHANGED <<peer, q, todo, cur, wake, lock, waiting, alarm, cursor, life, last>>

(* Delivering: linkg_transport_rx_emit_reordered and the READY frames of a     *)
(* chunk both end in _linkg_transport_rx_flush_delivery.                       *)

\* The handler starts with the frames whose Peer has not been reset.
Hand(t) ==
  LET S == {f \in out[t] : Matches(f)}
  IN /\ pc[t] = "emit"
     /\ pc' = [pc EXCEPT ![t] = IF S = {} THEN "complete" ELSE "hand"]
     /\ last' = [c \in Classes |->
          LET C == {f \in S : f.c = c}
          IN IF C = {} THEN last[c]
             ELSE LET f == CHOOSE f \in C : \A g \in C : g.n <= f.n
                  IN [e |-> f.e, n |-> f.n]]
     /\ UNCHANGED <<peer, q, rxv, out, lock, waiting, alarm, cursor, life>>

HandlerReturns(t) ==
  /\ pc[t] = "hand" /\ pc' = [pc EXCEPT ![t] = "complete"]
  /\ UNCHANGED <<peer, q, rxv, out, lock, waiting, alarm, cursor, life, last>>

\* Mutant of Completed: only frames that were handed over release the queue.
CompletedIfValid(k, S) ==
  IF \E f \in S : k.init /\ k.epoch = f.e /\ Matches(f) THEN [k EXCEPT !.busy = FALSE] ELSE k

\* _linkg_transport_reorder_complete_emit_locked, linkg_transport_reorder_complete_batch
Completed(k, S) ==
  IF \E f \in S : k.init /\ k.epoch = f.e THEN [k EXCEPT !.busy = FALSE] ELSE k

Complete(t) ==
  /\ pc[t] = "complete" /\ Free
  /\ q' = [c \in Classes |-> Completed(q[c], {f \in out[t] : f.c = c})]
  /\ BroadcastIf(q' # q)
  /\ out' = [out EXCEPT ![t] = {}]
  /\ pc' = [pc EXCEPT ![t] = IF t = Worker THEN "scan"
                             ELSE IF back[t] \in {"groups", "press"} THEN "relock" ELSE back[t]]
  /\ UNCHANGED <<peer, rxv, lock, alarm, cursor, life, last>>

(* The worker *)

\* The i-th class of a scan, and _linkg_transport_reorder_take_worker_locked for it.
ScanClass(i) == (cursor + i) % NC

CursorAfter(c) == (c + 1) % NC
Expired(c) == q[c].init /\ ~(Active /\ q[c].epoch = epoch) /\ ~q[c].busy
Taken(c) == TakeWorker(q[c], Worker)

\* Classes of an old epoch are cleared on the way to the first one with frames.
Scan ==
  LET has(i) == ~Expired(ScanClass(i)) /\ Taken(ScanClass(i)).emit # {}
      hits == {i \in 0..(NC - 1) : has(i)}
      stop == CHOOSE i \in hits : \A j \in hits : i <= j
      c == ScanClass(stop)
  IN /\ pc[Worker] = "scan" /\ Free /\ hits # {}
     /\ q' = [d \in Classes |->
          IF d = c THEN Taken(c).k
          ELSE IF Expired(d) /\ \E i \in 0..(stop - 1) : d = ScanClass(i) THEN EmptyQueue
          ELSE q[d]]
     /\ cursor' = CursorAfter(c)
     /\ out' = [out EXCEPT ![Worker] = Taken(c).emit]
     /\ pc' = [pc EXCEPT ![Worker] = "emit"]
     /\ UNCHANGED <<peer, rxv, lock, waiting, alarm, life, last>>

\* Mutant of Deadline: only the class that is expected next is looked at.
DeadlineHead(c) == \E f \in Cached(q[c]) : ~q[c].busy /\ Ahead(q[c], f) = 0

\* A deadline is taken from every class that the scan looks into.
Deadline(c) == q[c].init /\ ~q[c].busy /\ ~Expired(c) /\ Cached(q[c]) # {}

ScanNothing ==
  /\ pc[Worker] = "scan" /\ Free
  /\ \A c \in Classes : Expired(c) \/ Taken(c).emit = {}
  /\ q' = [c \in Classes |-> IF Expired(c) THEN EmptyQueue ELSE q[c]]
  /\ alarm' = \E c \in Classes : Deadline(c)
  /\ waiting' = waiting \cup {Worker}
  /\ pc' = [pc EXCEPT ![Worker] = "wait"]
  /\ UNCHANGED <<peer, rxv, out, lock, cursor, life, last>>

\* The condition was signalled, or the deadline has passed.
WorkerWakes ==
  /\ pc[Worker] = "wait"
  /\ Worker \notin waiting \/ (alarm /\ \E c \in Classes : q[c].old # {})
  /\ waiting' = waiting \ {Worker} /\ pc' = [pc EXCEPT ![Worker] = "scan"]
  /\ UNCHANGED <<peer, q, rxv, out, lock, alarm, cursor, life, last>>

\* Time passes: a cached frame reaches its deadline.
Expire(c, i) ==
  /\ q[c].slots[i] # NoFrame /\ i \notin q[c].old
  /\ q' = [q EXCEPT ![c].old = @ \cup {i}]
  /\ UNCHANGED <<peer, pc, rxv, out, lock, waiting, alarm, cursor, life, last>>

(* The Peer: linkg_transport.c, from the Discovery thread *)

NoWindows == win' = [c \in Classes |-> EmptyWindow]

\* linkg_transport_register_peer
Register ==
  /\ life = "idle" /\ ~valid /\ epoch + 2 <= MaxEpoch
  /\ valid' = TRUE /\ epoch' = epoch + 2 - (epoch % 2) /\ NoWindows
  /\ UNCHANGED <<q, pc, rxv, out, lock, waiting, alarm, cursor, life, last>>

\* _linkg_transport_peer_quiesce_locked
Quiesce(kind) ==
  /\ life = "idle" /\ valid
  /\ epoch + (IF kind = "reset" THEN 2 ELSE 1) <= MaxEpoch
  /\ epoch' = epoch + 1 /\ NoWindows /\ life' = kind
  /\ UNCHANGED <<valid, q, pc, rxv, out, lock, waiting, alarm, cursor, last>>

\* Mutant of ResetMayClear: a delivery that is going on is not waited for.
ResetMayClearNow == TRUE

ResetMayClear == \A c \in Classes : ~(q[c].init /\ q[c].busy)

\* linkg_transport_reorder_reset_peer: wait for the deliveries, then clear.
ResetWaits ==
  /\ life \in {"reset", "unregister"} /\ Free /\ Life \notin waiting /\ ~ResetMayClear
  /\ waiting' = waiting \cup {Life}
  /\ UNCHANGED <<peer, q, pc, rxv, out, lock, alarm, cursor, life, last>>

ResetClears ==
  /\ life \in {"reset", "unregister"} /\ Free /\ Life \notin waiting /\ ResetMayClear
  /\ q' = [c \in Classes |-> IF q[c].init THEN EmptyQueue ELSE q[c]]
  /\ Broadcast
  /\ life' = IF life = "reset" THEN "resume" ELSE "leave"
  /\ UNCHANGED <<peer, pc, rxv, out, lock, alarm, cursor, last>>

\* The ends of linkg_transport_reset_peer and linkg_transport_unregister_peer
Resume ==
  /\ life = "resume" /\ life' = "idle" /\ epoch' = epoch + 1
  /\ UNCHANGED <<valid, win, q, pc, rxv, out, lock, waiting, alarm, cursor, last>>

Unregistered ==
  /\ life = "leave" /\ life' = "idle" /\ valid' = FALSE
  /\ UNCHANGED <<epoch, win, q, pc, rxv, out, lock, waiting, alarm, cursor, last>>

RxStep(t) ==
  \/ SubmitPlain(t) \/ SubmitPressure(t)
  \/ GroupPlain(t) \/ GroupPressure(t) \/ GroupsDone(t)
  \/ PressStale(t) \/ PressGivesUp(t) \/ PressWaits(t) \/ PressTakes(t)
  \/ PressPartial(t) \/ PressDone(t) \/ Relock(t) \/ Finish(t)
Delivery(t) == Hand(t) \/ HandlerReturns(t) \/ Complete(t)
WorkerStep == Scan \/ ScanNothing \/ WorkerWakes
TimePasses == \E c \in Classes, i \in 0..(Window - 1) : Expire(c, i)
Clearing == ResetWaits \/ ResetClears \/ Resume \/ Unregistered

Next ==
  \/ \E t \in Rx : \/ RxStep(t)
                   \/ \E b \in Chunks : Receive(t, b)
  \/ \E t \in Threads : Delivery(t)
  \/ WorkerStep \/ Clearing \/ Register
  \/ Quiesce("reset") \/ Quiesce("unregister")
  \/ TimePasses

Spec == Init /\ [][Next]_vars

\* Threads run, handlers return and clocks advance; links need not receive.
\* RxReady and WorkerReady are ENABLED of the threads' steps, spelled out.
RxReady(t) ==
  /\ pc[t] # "idle"
  /\ pc[t] \in {"submit", "complete", "relock"} => Free
  /\ pc[t] = "relock" => t \notin waiting
WorkerReady ==
  /\ pc[Worker] \in {"scan", "complete"} => Free
  /\ pc[Worker] = "wait" => Worker \notin waiting \/ (alarm /\ \E c \in Classes : q[c].old # {})
FairSpec ==
  /\ Spec
  /\ \A t \in Rx : []<>~RxReady(t) \/ []<><<RxStep(t) \/ Delivery(t)>>_vars
  /\ []<>~WorkerReady \/ []<><<WorkerStep \/ Delivery(Worker)>>_vars
  /\ WF_vars(Clearing) /\ WF_vars(TimePasses)

-----------------------------------------------------------------------------
Queues == [init: BOOLEAN, epoch: 0..MaxEpoch, exp: 0..(SeqCount - 1), busy: BOOLEAN,
           owner: Threads \cup {NoThread}, slots: [0..(Window - 1) -> Frames \cup {NoFrame}],
           old: SUBSET (0..(Window - 1))]

\* Every variable has its type.
TypeOK ==
  /\ epoch \in 0..MaxEpoch /\ valid \in BOOLEAN /\ win \in [Classes -> Windows]
  /\ q \in [Classes -> Queues]
  /\ pc \in [Threads -> {"idle", "submit", "groups", "press", "relock", "finish",
                         "emit", "hand", "complete", "scan", "wait"}]
  /\ todo \in [Rx -> Seq(Frames)] /\ out \in [Threads -> SUBSET Frames]
  /\ ready \in [Rx -> SUBSET Frames] /\ back \in [Rx -> {"idle", "groups", "press", "finish"}]
  /\ cur \in [Rx -> Classes] /\ wake \in [Rx -> BOOLEAN]
  /\ lock \in Rx \cup {NoThread} /\ waiting \subseteq Threads \cup {Life}
  /\ alarm \in BOOLEAN /\ cursor \in Classes
  /\ life \in {"idle", "reset", "unregister", "resume", "leave"}
  /\ last \in [Classes -> [e: 0..MaxEpoch, n: 0..MaxN]]

\* Types hold, and a slot holds a frame of the queue's epoch whose sequence number belongs in it
\* and lies in the window, so `slots[sequence & MASK]` never hides another frame;
\* a queue without a baseline is empty and idle (slot_count, delivery_in_progress).
SlotsSound ==
  /\ TypeOK
  /\ \A c \in Classes :
       /\ ~q[c].init => Cached(q[c]) = {} /\ ~q[c].busy
       /\ \A i \in 0..(Window - 1) :
            LET f == q[c].slots[i]
            IN f # NoFrame => /\ f.c = c /\ f.e = q[c].epoch
                              /\ Sq(f) % Window = i /\ Fits(q[c], f)

\* The frames thread t has taken out of queue c and not yet finished with.
Carries(t, c) == {f \in out[t] \cup (IF t \in Rx THEN ready[t] ELSE {}) : f.c = c}

\* At most one thread delivers a Peer/Class at a time, it is the one in
\* delivery_thread, and delivery_in_progress is set exactly while it does.
OneDeliverer ==
  \A c \in Classes, t \in Threads :
    Carries(t, c) # {} <=> q[c].busy /\ q[c].owner = t

\* Within an epoch the handler sees the frames of a class in sending order, none
\* twice, whichever threads deliver them and however the links mix them.
DeliveredInOrder ==
  [][\A t \in Threads : pc[t] = "emit" /\ pc'[t] = "hand" =>
       \A f \in out[t] : f.e = epoch /\ f.e = last[f.c].e => f.n > last[f.c].n]_vars

\* Once reset or unregister has cleared the queues, no handler runs with a frame
\* from before ("wait for the deliveries, then clear" of linkg_transport_reorder_reset_peer).
ResetIsQuiet ==
  \A t \in Threads : pc[t] = "hand" =>
    \/ \A f \in out[t] : f.e = epoch
    \/ life \in {"reset", "unregister"} /\ \A f \in out[t] : f.e >= epoch - 1

\* A frame that passed the receive window is dropped only because it is late,
\* because its Peer was reset, or because its thread must not wait; never because
\* the window of 64 slots is full (@note of take_pressure_locked).
FramesKept ==
  [][\A t \in Rx : \A f \in ToSet(todo[t]) \ ToSet(todo'[t]) :
         \/ f \in Cached(q'[f.c]) \cup out'[t] \cup ready'[t]
         \/ ~Matches(f) \/ (q[f.c].init /\ Late(q[f.c], f)) \/ SelfDelivering(t)]_vars

\* Every cached frame leaves its queue: delivered by timeout if the gap before it
\* is never filled, or cleared with its Peer.
CachedLeaves ==
  \A m \in UNION {ToSet(b) : b \in Chunks} :
    (\E f \in Cached(q[m.c]) : f.n = m.n) ~> (\A f \in Cached(q[m.c]) : f.n # m.n)

\* A receive thread comes back from linkg_transport_receive_batch, also when it had
\* to wait for another thread's delivery.
ReceiveReturns == \A t \in Rx : pc[t] # "idle" ~> pc[t] = "idle"

\* Reset and unregister come to an end.
ResetEnds == life # "idle" ~> life = "idle"
=============================================================================
