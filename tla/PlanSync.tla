------------------------------ MODULE PlanSync ------------------------------
(***************************************************************************)
(* The PLAN_SYNC protocol of core/switch: a station (STA) changes the send *)
(* plan towards its access point (AP), applies it at once and keeps asking *)
(* the AP to apply the same plan until it is acknowledged, rejected, given *)
(* up or replaced.                                                         *)
(*                                                                         *)
(* On each side one Switch worker handles control events and timers; the   *)
(* Discovery thread registers and removes the Peer, and the maintenance    *)
(* API or the reconciler changes the local plan, in between any two        *)
(* critical sections of the worker.  Messages may be lost, delayed,        *)
(* reordered and, because a round is resent with its own number, arrive    *)
(* more than once.                                                         *)
(*                                                                         *)
(* A plan is named by the accesses it uses: each side converts it to and   *)
(* from its own link numbers, and a conversion that fails is a status.     *)
(* Times are left out: a timer may be late by any amount.                  *)
(***************************************************************************)
EXTENDS Naturals, Sequences

CONSTANTS
    Plans,          \* complete send plans
    IdCount,        \* wire message numbers, 2^32 in the code
    IdBase,         \* the number allocated last before the behaviour starts
    RetryMax,       \* LINKG_SWITCH_PLAN_SYNC_RETRY_MAX
    RecoveryMax,    \* LINKG_SWITCH_PLAN_SYNC_RECOVERY_MAX
    EventCap,       \* LINKG_SWITCH_EVENT_QUEUE_CAPACITY
    MaxMessages,    \* bound: messages allocated
    MaxChanges,     \* bound: removals of a Peer and plan changes that are not committed
    None            \* no plan, no message, nothing to do

ASSUME PlanSyncAssumption ==
    /\ IdCount \in Nat /\ IdCount > 2 * MaxMessages
    /\ IdBase \in 0 .. IdCount - 1
    /\ None \notin Plans
    /\ {RetryMax, RecoveryMax, EventCap, MaxMessages, MaxChanges} \subseteq Nat

VARIABLES
    sta,        \* the STA's runtime of its AP: generation, plan and plan_sync
    issued,     \* next_plan_message_id and how many numbers were allocated
    syncs,      \* next_plan_sync_id
    result,     \* last_result while result_pending
    ap,         \* the AP's runtime of this STA
    apWork,     \* the event the AP worker is in the middle of
    staEvents,  \* the STA's event queue
    apEvents,   \* the AP's event queue
    air,        \* messages ever sent; each may arrive any number of times or never
    gens,       \* next_peer_generation of each side
    changes,    \* how many removals and uncommitted plan changes happened
    applied     \* history: the messages whose plan the AP has applied

staVars == <<sta, issued, syncs, result, staEvents>>
apVars  == <<ap, apWork, applied, apEvents>>
bounds  == <<gens, changes>>
vars    == <<staVars, apVars, air, bounds>>

-----------------------------------------------------------------------------
(* Message numbers *)

\* The message number after i: it wraps around, and 0 is skipped.
Allocated(i) == IF i = IdCount - 1 THEN 1 ELSE i + 1

\* A new PLAN_SYNC: its wire number, the plan, and its place n in the order of
\* allocation, which only the properties read.
NextMessage(plan) == [id |-> Allocated(issued.id), n |-> issued.n + 1, plan |-> plan]

\* Mutant of Newer: every other number counts as newer.
NewerIfDifferent(id, current) == id # current

\* The difference of two numbers, modulo IdCount; half of the circle is ahead.
Ahead(id, current) == IF id >= current THEN id - current ELSE id + IdCount - current
Newer(id, current) == current = 0 \/ (id # current /\ 2 * Ahead(id, current) < IdCount)

-----------------------------------------------------------------------------
(* The STA's transaction *)

\* The records of a Peer that is not registered.
NoPeer == [gen |-> 0, plan |-> None, state |-> "IDLE", sync |-> 0, msg |-> None,
           retry |-> 0, recovery |-> 0]
NoSta == [gen |-> 0, plan |-> None, id |-> 0, status |-> "none", n |-> 0]
Busy(s) == s.state \in {"WAIT_ACK", "RETRY_WAIT"}

\* The result finish_sync_locked leaves: only the last one is kept.
Published(s, state) == IF Busy(s) THEN [sync |-> s.sync, state |-> state] ELSE result

Finished(s, state) == IF Busy(s) THEN [s EXCEPT !.state = state] ELSE s

\* The runtime once its plan is replaced without a commit: a plan that differs
\* cancels the sync in progress.
Replaced(plan) ==
    [(IF sta.plan = plan THEN sta ELSE Finished(sta, "CANCELLED")) EXCEPT !.plan = plan]

\* A round failed: wait for the next one, or give up.  Without a message left
\* (the bound) there is no next round either.
GivesUp == sta.recovery >= RecoveryMax \/ issued.n = MaxMessages

\* Mutant of RoundFailed: only a refusal ends a sync whose rounds are used up.
RoundFailedOpen(verdict) ==
    /\ sta' = IF GivesUp /\ verdict = "REJECTED" THEN Finished(sta, verdict)
              ELSE IF GivesUp THEN sta ELSE [sta EXCEPT !.state = "RETRY_WAIT"]
    /\ result' = IF GivesUp /\ verdict = "REJECTED" THEN Published(sta, verdict) ELSE result

RoundFailed(verdict) ==
    /\ sta' = IF GivesUp THEN Finished(sta, verdict) ELSE [sta EXCEPT !.state = "RETRY_WAIT"]
    /\ result' = IF GivesUp THEN Published(sta, verdict) ELSE result

\* The message is sent after the unlock, if it is still the current one then: a
\* message that is late, not sent any more or lost arrives late or never.
Sent(msg) == [to |-> "ap", msg |-> msg, status |-> "none"]

-----------------------------------------------------------------------------
Init ==
    /\ sta = NoPeer /\ ap = NoSta
    /\ issued = [id |-> IdBase, n |-> 0] /\ syncs = 0
    /\ result = None
    /\ apWork = None /\ applied = {}
    /\ staEvents = << >> /\ apEvents = << >> /\ air = {}
    /\ gens = [sta |-> 0, ap |-> 0] /\ changes = 0

(* Discovery and local plan changes on the STA *)

\* linkg_switch_plan_set: a new Peer gets a new generation and no sync; the
\* plan of a known Peer is replaced.
StaSet(plan) ==
    /\ \/ /\ sta.gen = 0
          /\ gens' = [gens EXCEPT !.sta = @ + 1]
          /\ sta' = [NoPeer EXCEPT !.gen = gens'.sta, !.plan = plan]
          /\ UNCHANGED <<result, changes>>
       \/ /\ sta.gen # 0 /\ changes < MaxChanges
          /\ changes' = changes + 1
          /\ sta' = Replaced(plan)
          /\ result' = IF sta.plan = plan THEN result ELSE Published(sta, "CANCELLED")
          /\ UNCHANGED gens
    /\ UNCHANGED <<issued, syncs, staEvents, apVars, air>>

\* linkg_switch_plan_remove clears the record, the pending result included.
StaRemove ==
    /\ sta.gen # 0 /\ changes < MaxChanges
    /\ changes' = changes + 1
    /\ sta' = NoPeer /\ result' = None
    /\ UNCHANGED <<issued, syncs, staEvents, apVars, air, gens>>

\* _linkg_switch_plan_apply_local, for an escape plan of maintenance or for
\* the reconciler, which leaves a running sync alone when it may (defer).
\* Callers hand in the generation and plan they saw; a change since then, and
\* an access under maintenance, make it return without effect.
StaApplyLocal(plan, defer) ==
    /\ sta.gen # 0 /\ changes < MaxChanges
    /\ ~(defer /\ Busy(sta))
    /\ changes' = changes + 1
    /\ sta' = Replaced(plan)
    /\ result' = IF sta.plan = plan THEN result ELSE Published(sta, "CANCELLED")
    /\ UNCHANGED <<issued, syncs, staEvents, apVars, air, gens>>

(* The STA's worker *)

\* _linkg_switch_plan_commit_local up to the unlock: the running sync is
\* cancelled whatever its plan is, the plan takes effect, a sync starts.
Commit(plan) ==
    /\ sta.gen # 0
    /\ issued.n < MaxMessages
    /\ syncs' = syncs + 1
    /\ issued' = [id |-> Allocated(issued.id), n |-> issued.n + 1]
    /\ result' = Published(sta, "CANCELLED")
    /\ sta' = [gen |-> sta.gen, plan |-> plan, state |-> "WAIT_ACK", sync |-> syncs',
               msg |-> NextMessage(plan), retry |-> 1, recovery |-> 0]
    /\ air' = air \cup {Sent(sta'.msg)}
    /\ UNCHANGED <<staEvents, apVars, bounds>>

\* linkg_switch_plan_process for the Peer, one of its timers being due.
Timeout ==
    /\ sta.state = "WAIT_ACK"
    /\ RoundFailed("UNCERTAIN")
    /\ UNCHANGED <<issued, syncs, staEvents, apVars, air, bounds>>

Resend ==
    /\ sta.state = "WAIT_ACK" /\ sta.retry < RetryMax
    /\ sta' = [sta EXCEPT !.retry = @ + 1]
    /\ air' = air \cup {Sent(sta'.msg)}
    /\ UNCHANGED <<issued, syncs, result, staEvents, apVars, bounds>>

Restart ==
    /\ sta.state = "RETRY_WAIT"
    /\ issued' = [id |-> Allocated(issued.id), n |-> issued.n + 1]
    /\ sta' = [sta EXCEPT !.state = "WAIT_ACK", !.msg = NextMessage(sta.msg.plan),
                          !.retry = 1, !.recovery = @ + 1]
    /\ air' = air \cup {Sent(sta'.msg)}
    /\ UNCHANGED <<syncs, result, staEvents, apVars, bounds>>

\* Mutant of Acknowledges: any acknowledgement will do.
AcknowledgesAny(event) == sta.sync # 0

\* The acknowledgement is of the current message of the current sync.
Acknowledges(event) == sta.sync # 0 /\ sta.msg.id = event.msg.id

\* _linkg_switch_plan_process_ack_event: a success counts even while the STA
\* waits for the next round.
ProcessAck ==
    /\ staEvents # << >>
    /\ staEvents' = Tail(staEvents)
    /\ LET event == Head(staEvents)
           ok == event.status = "ok"
       IN  IF /\ event.gen = sta.gen /\ Acknowledges(event)
              /\ sta.state = "WAIT_ACK" \/ (sta.state = "RETRY_WAIT" /\ ok)
           THEN IF ok THEN /\ sta' = Finished(sta, "CONFIRMED")
                           /\ result' = Published(sta, "CONFIRMED")
                      ELSE RoundFailed("REJECTED")
           ELSE UNCHANGED <<sta, result>>
    /\ UNCHANGED <<issued, syncs, apVars, air, bounds>>

\* linkg_switch_plan_take_result, for the Operation that waits for the sync.
TakeResult ==
    /\ result # None
    /\ result' = None
    /\ UNCHANGED <<sta, issued, syncs, staEvents, apVars, air, bounds>>

-----------------------------------------------------------------------------
(* The network and the event queues *)

\* linkg_switch_transport_receive posts the message with the generation the
\* Peer has now.  Without a Peer, or with a full queue, the message is dropped:
\* it never arrives.
Posted(queue, gen, m) == Append(queue, [gen |-> gen, msg |-> m.msg, status |-> m.status])

Arrive(m) ==
    /\ \/ /\ m.to = "sta" /\ sta.gen # 0 /\ Len(staEvents) < EventCap
          /\ staEvents' = Posted(staEvents, sta.gen, m)
          /\ UNCHANGED apEvents
       \/ /\ m.to = "ap" /\ ap.gen # 0 /\ Len(apEvents) < EventCap
          /\ apEvents' = Posted(apEvents, ap.gen, m)
          /\ UNCHANGED staEvents
    /\ UNCHANGED <<sta, issued, syncs, result, ap, apWork, applied, air, bounds>>

-----------------------------------------------------------------------------
(* The AP *)

ApSet(plan) ==
    /\ \/ /\ ap.gen = 0
          /\ gens' = [gens EXCEPT !.ap = @ + 1]
          /\ ap' = [NoSta EXCEPT !.gen = gens'.ap, !.plan = plan]
          /\ UNCHANGED changes
       \/ /\ ap.gen # 0 /\ changes < MaxChanges
          /\ changes' = changes + 1
          /\ ap' = [ap EXCEPT !.plan = plan]
          /\ UNCHANGED gens
    /\ UNCHANGED <<staVars, apWork, applied, apEvents, air>>

ApRemove ==
    /\ ap.gen # 0 /\ changes < MaxChanges
    /\ changes' = changes + 1
    /\ ap' = NoSta
    /\ UNCHANGED <<staVars, apWork, applied, apEvents, air, gens>>

\* The first critical section of _linkg_switch_plan_process_sync_event: a
\* repeated number is answered with the status kept, an old one is dropped.
\* Converting and validating a new plan happens after the unlock.
TakeSync ==
    /\ apWork = None /\ apEvents # << >>
    /\ apEvents' = Tail(apEvents)
    /\ LET event == Head(apEvents)
           work(step, status) ==
               [gen |-> event.gen, msg |-> event.msg, step |-> step, status |-> status]
       IN  IF event.gen # ap.gen THEN apWork' = None
           ELSE IF event.msg.id = ap.id THEN apWork' = work("ack", ap.status)
           ELSE IF ~Newer(event.msg.id, ap.id) THEN apWork' = None
           ELSE \E status \in {"ok", "refused"} : apWork' = work("apply", status)
    /\ UNCHANGED <<staVars, ap, applied, air, bounds>>

\* The second critical section: the Peer and the number are looked at again.
ApplySync ==
    /\ apWork # None /\ apWork.step = "apply"
    /\ IF apWork.gen # ap.gen
       THEN apWork' = None /\ UNCHANGED <<ap, applied>>
       ELSE IF Newer(apWork.msg.id, ap.id)
       THEN \E status \in {apWork.status, "refused"} :
              /\ ap' = [ap EXCEPT !.id = apWork.msg.id, !.n = apWork.msg.n, !.status = status,
                                  !.plan = IF status = "ok" THEN apWork.msg.plan ELSE @]
              /\ applied' = IF status = "ok" THEN applied \cup {apWork.msg} ELSE applied
              /\ apWork' = [apWork EXCEPT !.step = "ack", !.status = status]
       ELSE /\ apWork' = IF apWork.msg.id = ap.id
                         THEN [apWork EXCEPT !.step = "ack", !.status = ap.status]
                         ELSE None
            /\ UNCHANGED <<ap, applied>>
    /\ UNCHANGED <<staVars, apEvents, air, bounds>>

\* The acknowledgement goes out if the Peer is still the same.
Answer ==
    /\ apWork # None /\ apWork.step = "ack"
    /\ apWork' = None
    /\ air' = IF apWork.gen = ap.gen
              THEN air \cup {[to |-> "sta", msg |-> apWork.msg, status |-> apWork.status]}
              ELSE air
    /\ UNCHANGED <<staVars, ap, applied, apEvents, bounds>>

-----------------------------------------------------------------------------
Next ==
    \/ \E plan \in Plans : StaSet(plan) \/ Commit(plan) \/ ApSet(plan)
    \/ \E plan \in Plans, defer \in BOOLEAN : StaApplyLocal(plan, defer)
    \/ StaRemove \/ Timeout \/ Resend \/ Restart
    \/ ProcessAck \/ TakeResult
    \/ \E m \in air : Arrive(m)
    \/ ApRemove \/ TakeSync \/ ApplySync \/ Answer

\* The STA's worker sends what it has to send, and in every turn of its loop
\* runs the due timer and hands out the pending result, however many events
\* arrive: process_events is limited to one queue per turn.
Fairness ==
    /\ SF_vars(Timeout \/ Resend \/ Restart) /\ SF_vars(TakeResult)

Spec == Init /\ [][Next]_vars /\ Fairness

-----------------------------------------------------------------------------
(* Properties *)

\* A sync is reported CONFIRMED only when the AP has applied the message that
\* carried it, and the plan in that message is the plan the STA uses at that
\* moment: neither the acknowledgement of an earlier plan or round nor one that
\* comes after a local change of the STA confirms anything.  The AP may have set
\* another plan of its own since it applied the message.
ConfirmedAgree ==
    [][sta.state # "CONFIRMED" /\ sta'.state = "CONFIRMED"
         => sta.msg \in applied /\ sta.msg.plan = sta.plan]_vars

\* As long as the AP knows the Peer, plans sent by the STA take effect in the
\* order of their commits and each at most once: a repeated PLAN_SYNC, or one that
\* comes after a newer one was handled, changes nothing, and so undoes no local
\* change either.  (The first arrival of a newer one does replace a local change.)
AppliedInOrder ==
    [][apWork' # apWork /\ ap'.gen = ap.gen /\ ap'.plan # ap.plan => ap'.n > ap.n]_vars

\* However many messages are lost or refused, a sync comes to an end and its
\* result is handed out, or dropped with its Peer, or replaced by that of a later
\* sync: no Operation waits for a sync for ever.
SyncReported == Busy(sta) \/ result # None ~> ~Busy(sta) /\ result = None

=============================================================================
