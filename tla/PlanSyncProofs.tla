--------------------------- MODULE PlanSyncProofs ---------------------------
(***************************************************************************)
(* What is true of plan synchronisation for every number of retries,       *)
(* recovery rounds and queued events: the STA reports CONFIRMED only of a  *)
(* plan the AP applied and the STA still uses, and the AP applies messages *)
(* in the order in which they were numbered.  The bound on messages keeps  *)
(* the counter within half a lap, as PlanSyncAssumption says.              *)
(***************************************************************************)
EXTENDS PlanSync, TLAPS

\* The number of the n-th message allocated.
IdOf(n) == IF IdBase + n < IdCount THEN IdBase + n ELSE IdBase + n - (IdCount - 1)

Messages == [id : Nat, n : Nat, plan : Plans]
Statuses == {"none", "ok", "refused"}
Events   == [gen : Nat, msg : Messages, status : Statuses]

States   == {"IDLE", "WAIT_ACK", "RETRY_WAIT", "CONFIRMED", "REJECTED", "UNCERTAIN",
             "CANCELLED"}
Stations == [gen : Nat, plan : Plans \cup {None}, state : States, sync : Nat,
             msg : Messages \cup {None}, retry : Nat, recovery : Nat]
Peers    == [gen : Nat, plan : Plans \cup {None}, id : Nat, status : Statuses, n : Nat]
Works    == [gen : Nat, msg : Messages, step : {"apply", "ack"}, status : Statuses]

Types ==
    /\ sta \in Stations
    /\ issued \in [id : Nat, n : Nat] /\ syncs \in Nat
    /\ ap \in Peers
    /\ apWork \in Works \cup {None}
    /\ staEvents \in Seq(Events) /\ apEvents \in Seq(Events)
    /\ air \subseteq [to : {"sta", "ap"}, msg : Messages, status : Statuses]
    /\ gens \in [sta : Nat, ap : Nat] /\ changes \in Nat
    /\ applied \subseteq Messages

\* Every message was numbered in the order of allocation, and no two PLAN_SYNCs
\* share a place in that order.
Numbered ==
    /\ issued.n <= MaxMessages /\ issued.id = IdOf(issued.n)
    /\ \A x \in air : x.to = "ap" =>
         x.msg.n \in 1 .. issued.n /\ x.msg.id = IdOf(x.msg.n) /\ x.status = "none"
    /\ \A x, y \in air : x.to = "ap" /\ y.to = "ap" /\ x.msg.n = y.msg.n => x = y

\* Whatever is remembered anywhere was sent by the STA, and an acknowledgement
\* of success is of a message that was applied.
Honest(msg, status) == Sent(msg) \in air /\ (status = "ok" => msg \in applied)
Sourced ==
    /\ \A m \in applied : Sent(m) \in air
    /\ \A x \in air : x.to = "sta" => Honest(x.msg, x.status)
    /\ \A i \in 1 .. Len(staEvents) : Honest(staEvents[i].msg, staEvents[i].status)
    /\ \A i \in 1 .. Len(apEvents) : Sent(apEvents[i].msg) \in air
    /\ apWork # None => /\ Sent(apWork.msg) \in air
                        /\ apWork.step = "ack" => Honest(apWork.msg, apWork.status)
    /\ \/ ap.id = 0 /\ ap.n = 0 /\ ap.status = "none"
       \/ /\ ap.n \in 1 .. issued.n /\ ap.id = IdOf(ap.n)
          /\ ap.status = "ok" => \E m \in applied : m.n = ap.n

\* The plan in use is the plan being sent, as long as a sync is in progress; a
\* sync waits for another round only while there is a message for it.
InUse ==
    /\ Busy(sta) => /\ sta.msg \in Messages /\ Sent(sta.msg) \in air
                    /\ sta.plan = sta.msg.plan
    /\ sta.state = "RETRY_WAIT" => issued.n < MaxMessages

PlanInv == Types /\ Numbered /\ Sourced /\ InUse

-----------------------------------------------------------------------------
(* Numbers *)

\* IdOf follows the allocator, LINKG_SWITCH_PLAN's numbers wrapping past 0.
LEMMA NextId ==
    ASSUME NEW n \in Nat, n < MaxMessages
    PROVE  IdOf(n) \in Nat /\ IdOf(n + 1) = Allocated(IdOf(n)) /\ IdOf(n + 1) \in Nat \ {0}
BY PlanSyncAssumption DEF IdOf, Allocated

\* Within one lap of the counter a number names one message.
LEMMA IdsDiffer ==
    ASSUME NEW m \in 1 .. MaxMessages, NEW n \in 1 .. MaxMessages, IdOf(m) = IdOf(n)
    PROVE  m = n
BY PlanSyncAssumption DEF IdOf

\* No allocated number is 0, the number of no message.
LEMMA IdPositive ==
    ASSUME NEW n \in 1 .. MaxMessages
    PROVE  IdOf(n) \in Nat \ {0}
BY PlanSyncAssumption DEF IdOf

\* The half-range comparison agrees with the order of allocation, across the wrap.
LEMMA NewerIsLater ==
    ASSUME NEW m \in 1 .. MaxMessages, NEW n \in 1 .. MaxMessages, Newer(IdOf(m), IdOf(n))
    PROVE  m > n
BY PlanSyncAssumption DEF IdOf, Newer, Ahead

-----------------------------------------------------------------------------
(* The invariant, action by action *)

\* Nothing is numbered, sent or applied at the start.
LEMMA PlanInvInit == Init => PlanInv
<1> SUFFICES ASSUME Init PROVE PlanInv
  OBVIOUS
<1>1. Types
  BY PlanSyncAssumption
  DEF Init, Types, NoPeer, NoSta, Stations, Peers, States, Statuses
<1>2. Numbered /\ Sourced /\ InUse
  BY PlanSyncAssumption
  DEF Init, Numbered, Sourced, InUse, NoPeer, NoSta, Busy, IdOf
<1> QED
  BY <1>1, <1>2 DEF PlanInv

\* Steps that change nothing but the STA's record and its result: Discovery,
\* local changes, timers that send nothing.
LEMMA StaOnly ==
    ASSUME PlanInv, UNCHANGED <<issued, staEvents, apVars, air>>, syncs' \in Nat,
           gens' \in [sta : Nat, ap : Nat], changes' \in Nat, sta' \in Stations, InUse'
    PROVE  PlanInv'
BY DEF PlanInv, Types, Numbered, Sourced, apVars, Honest, Sent

\* A record whose plan is replaced, or whose sync is finished, is a record
\* whose sync is over unless the plan stayed the same.
LEMMA ReplacedTyped ==
    ASSUME PlanInv, NEW plan \in Plans, sta' = Replaced(plan),
           UNCHANGED <<air, issued>>
    PROVE  sta' \in Stations /\ InUse'
<1>1. sta' \in Stations
  BY DEF PlanInv, Types, Replaced, Finished, Busy, Stations, States
<1>2. CASE sta.plan = plan
  <2>1. sta' = sta
    BY <1>2 DEF PlanInv, Types, Replaced, Stations
  <2> QED
    BY <1>1, <2>1 DEF PlanInv, InUse, Busy, Sent
<1>3. CASE sta.plan # plan
  <2>1. ~Busy(sta')
    BY <1>3 DEF PlanInv, Types, Replaced, Finished, Busy, Stations
  <2> QED
    BY <1>1, <2>1 DEF InUse, Busy
<1> QED
  BY <1>2, <1>3

\* A finished sync leaves a record with the same plan and message.
LEMMA FinishedTyped ==
    ASSUME PlanInv, NEW state \in {"CONFIRMED", "REJECTED", "UNCERTAIN", "CANCELLED"}
    PROVE  Finished(sta, state) \in Stations /\ ~Busy(Finished(sta, state))
BY DEF PlanInv, Types, Finished, Busy, Stations, States

\* The STA learns of its AP: the record of a new one starts empty.
LEMMA StaSetInv ==
    ASSUME PlanInv, NEW plan \in Plans, StaSet(plan)
    PROVE  PlanInv'
<1> gens' \in [sta : Nat, ap : Nat] /\ changes' \in Nat
  BY DEF StaSet, PlanInv, Types
<1>1. CASE sta.gen = 0
  <2>1. gens'.sta \in Nat /\ sta' = [NoPeer EXCEPT !.gen = gens'.sta, !.plan = plan]
    BY <1>1 DEF StaSet
  <2>2. sta' \in Stations /\ sta'.state = "IDLE"
    BY <2>1 DEF NoPeer, Stations, States
  <2>3. InUse'
    BY <2>2 DEF InUse, Busy
  <2> QED
    BY <2>2, <2>3, StaOnly DEF StaSet, PlanInv, Types
<1>2. CASE sta.gen # 0
  <2>1. sta' \in Stations /\ InUse'
    BY <1>2, ReplacedTyped DEF StaSet
  <2> QED
    BY <2>1, StaOnly DEF StaSet, PlanInv, Types
<1> QED
  BY <1>1, <1>2

\* The STA forgets its AP: a sync that was running is reported and gone.
LEMMA StaRemoveInv ==
    ASSUME PlanInv, StaRemove
    PROVE  PlanInv'
<1>1. sta' \in Stations /\ InUse'
  BY DEF StaRemove, NoPeer, Stations, States, InUse, Busy
<1> QED
  BY <1>1, StaOnly DEF StaRemove, PlanInv, Types

\* A plan that is replaced without a commit cancels the sync of the old one.
LEMMA StaApplyLocalInv ==
    ASSUME PlanInv, NEW plan \in Plans, NEW defer \in BOOLEAN, StaApplyLocal(plan, defer)
    PROVE  PlanInv'
<1>1. sta' \in Stations /\ InUse'
  BY ReplacedTyped DEF StaApplyLocal
<1> QED
  BY <1>1, StaOnly DEF StaApplyLocal, PlanInv, Types

\* A failed round keeps the sync's message, or ends the sync.
LEMMA RoundFailedTyped ==
    ASSUME PlanInv, NEW verdict \in {"REJECTED", "UNCERTAIN"}, Busy(sta),
           RoundFailed(verdict), UNCHANGED <<air, issued>>
    PROVE  sta' \in Stations /\ InUse' /\ ~(sta.state # "CONFIRMED" /\ sta'.state = "CONFIRMED")
<1>0. sta \in Stations
  BY DEF PlanInv, Types
<1>1. CASE GivesUp
  <2>1. sta' = [sta EXCEPT !.state = verdict]
    BY <1>1 DEF RoundFailed, Finished
  <2>2. sta' \in Stations /\ sta'.state = verdict
    BY <1>0, <2>1 DEF Stations, States
  <2> QED
    BY <2>2 DEF InUse, Busy
<1>2. CASE ~GivesUp
  <2>1. sta' = [sta EXCEPT !.state = "RETRY_WAIT"]
    BY <1>2 DEF RoundFailed
  <2>2. /\ sta' \in Stations /\ sta'.state = "RETRY_WAIT"
        /\ sta'.msg = sta.msg /\ sta'.plan = sta.plan
    BY <1>0, <2>1 DEF Stations, States
  <2>3. issued.n < MaxMessages
    BY <1>2, PlanSyncAssumption DEF GivesUp, PlanInv, Types, Numbered
  <2> QED
    BY <2>2, <2>3 DEF InUse, PlanInv, Sent
<1> QED
  BY <1>1, <1>2

\* A missed acknowledgement moves the sync to its retry, or ends it.
LEMMA TimeoutInv ==
    ASSUME PlanInv, Timeout
    PROVE  PlanInv'
<1>1. sta' \in Stations /\ InUse'
  BY RoundFailedTyped DEF Timeout, Busy
<1> QED
  BY <1>1, StaOnly DEF Timeout, PlanInv, Types, bounds

\* A retry sends the message of the sync once more: nothing new is in the air.
LEMMA ResendInv ==
    ASSUME PlanInv, Resend
    PROVE  PlanInv'
<1>1. sta.msg \in Messages /\ Sent(sta.msg) \in air /\ sta.plan = sta.msg.plan
  BY DEF Resend, PlanInv, InUse, Busy
<1>2. /\ sta' \in Stations /\ sta'.state = "WAIT_ACK"
      /\ sta'.msg = sta.msg /\ sta'.plan = sta.plan
  <2>1. sta \in Stations /\ sta.retry \in Nat /\ sta.state = "WAIT_ACK"
    BY DEF Resend, PlanInv, Types, Stations
  <2>2. sta' = [sta EXCEPT !.retry = sta.retry + 1]
    BY DEF Resend
  <2> QED
    BY <2>1, <2>2 DEF Stations
<1>3. air' = air
  BY <1>1, <1>2 DEF Resend
<1>4. InUse'
  BY <1>1, <1>2, <1>3 DEF InUse, Sent
<1> QED
  BY <1>2, <1>3, <1>4, StaOnly DEF Resend, PlanInv, Types, bounds

\* A message is allocated and sent: it is new, everything else is as it was.
LEMMA Allocation ==
    ASSUME PlanInv, NEW plan \in Plans, issued.n < MaxMessages,
           issued' = [id |-> Allocated(issued.id), n |-> issued.n + 1],
           air' = air \cup {Sent(NextMessage(plan))},
           sta' \in Stations, sta'.msg = NextMessage(plan), sta'.plan = plan,
           sta'.state = "WAIT_ACK",
           syncs' \in Nat, UNCHANGED <<staEvents, apVars, bounds>>
    PROVE  PlanInv'
<1> DEFINE new == NextMessage(plan)
<1>0. issued.n \in Nat /\ issued.id = IdOf(issued.n) /\ MaxMessages \in Nat
  BY PlanSyncAssumption DEF PlanInv, Types, Numbered
<1>1. new \in Messages /\ new.n = issued.n + 1 /\ new.id = IdOf(issued.n + 1) /\ new.plan = plan
  BY <1>0, NextId DEF NextMessage, Messages
<1>2. issued'.n = issued.n + 1 /\ issued'.id = IdOf(issued'.n) /\ issued' \in [id : Nat, n : Nat]
  BY <1>0, NextId
<1>3. Sent(new) \in [to : {"sta", "ap"}, msg : Messages, status : Statuses]
  BY <1>1 DEF Sent, Statuses
<1>4. Types'
  BY <1>2, <1>3 DEF PlanInv, Types, apVars, bounds
<1>5. Numbered'
  <2>1. issued'.n <= MaxMessages
    BY <1>0, <1>2
  <2>2. ASSUME NEW x \in air', x.to = "ap"
        PROVE  x.msg.n \in 1 .. issued'.n /\ x.msg.id = IdOf(x.msg.n) /\ x.status = "none"
    <3>1. CASE x \in air
      BY <3>1, <2>2, <1>0, <1>2 DEF PlanInv, Numbered
    <3>2. CASE x = Sent(new)
      BY <3>2, <1>0, <1>1, <1>2 DEF Sent
    <3> QED
      BY <3>1, <3>2
  <2>3. ASSUME NEW x \in air', NEW y \in air', x.to = "ap", y.to = "ap", x.msg.n = y.msg.n
        PROVE  x = y
    <3>1. ASSUME NEW z \in air, z.to = "ap" PROVE z.msg.n # Sent(new).msg.n
      BY <3>1, <1>0, <1>1 DEF PlanInv, Numbered, Sent
    <3> QED
      BY <2>3, <3>1 DEF PlanInv, Numbered
  <2> QED
    BY <1>2, <2>1, <2>2, <2>3 DEF Numbered
<1>6. Sourced'
  <2>1. \A msg, status : Honest(msg, status) => Honest(msg, status)'
    BY DEF Honest, Sent, apVars
  <2>2. \A m : Sent(m) \in air => Sent(m)' \in air'
    BY DEF Sent
  <2>3. ASSUME NEW x \in air', x.to = "sta" PROVE Honest(x.msg, x.status)'
    BY <2>1, <2>3 DEF PlanInv, Sourced, Sent
  <2>4. ap'.n \in 1 .. issued.n => ap'.n \in 1 .. issued'.n
    BY <1>0, <1>2 DEF apVars, PlanInv, Types, Peers
  <2> QED
    BY <2>1, <2>2, <2>3, <2>4 DEF PlanInv, Sourced, apVars
<1>7. InUse'
  BY <1>1 DEF InUse, Sent
<1> QED
  BY <1>4, <1>5, <1>6, <1>7 DEF PlanInv

\* A commit allocates the next number for the new plan.
LEMMA CommitInv ==
    ASSUME PlanInv, NEW plan \in Plans, Commit(plan)
    PROVE  PlanInv'
<1>1. NextMessage(plan) \in Messages
  BY NextId, PlanSyncAssumption, SMTT(30) DEF Commit, PlanInv, Types, Numbered, NextMessage,
                                              Messages
<1>2. /\ sta' \in Stations /\ sta'.msg = NextMessage(plan) /\ sta'.plan = plan
      /\ sta'.state = "WAIT_ACK" /\ syncs' \in Nat
  BY <1>1 DEF Commit, PlanInv, Types, Stations, States
<1> QED
  BY <1>2, Allocation DEF Commit

\* A recovery round allocates the next number for the plan in use.
LEMMA RestartInv ==
    ASSUME PlanInv, Restart
    PROVE  PlanInv'
<1> DEFINE plan == sta.msg.plan
<1>1. sta.msg \in Messages /\ sta.plan = plan /\ plan \in Plans /\ issued.n < MaxMessages
  BY DEF Restart, PlanInv, InUse, Busy, Messages
<1>2. NextMessage(plan) \in Messages
  <2>1. issued.n \in Nat /\ issued.id = IdOf(issued.n)
    BY DEF PlanInv, Types, Numbered
  <2> QED
    BY <1>1, <2>1, NextId DEF NextMessage, Messages
<1>3. /\ sta' \in Stations /\ sta'.msg = NextMessage(plan) /\ sta'.plan = plan
      /\ sta'.state = "WAIT_ACK"
  <2>1. sta \in Stations /\ sta.recovery \in Nat /\ sta.plan = plan
    BY <1>1 DEF PlanInv, Types, Stations
  <2>2. sta' = [sta EXCEPT !.state = "WAIT_ACK", !.msg = NextMessage(plan),
                           !.retry = 1, !.recovery = sta.recovery + 1]
    BY DEF Restart
  <2>3. sta' = [gen |-> sta.gen, plan |-> plan, state |-> "WAIT_ACK", sync |-> sta.sync,
               msg |-> NextMessage(plan), retry |-> 1, recovery |-> sta.recovery + 1]
    BY <2>1, <2>2 DEF Stations
  <2>4. sta.gen \in Nat /\ sta.sync \in Nat
    BY <2>1 DEF Stations
  <2> HIDE DEF plan
  <2> QED
    BY <1>1, <1>2, <2>1, <2>3, <2>4 DEF Stations, States
<1> QED
  BY <1>1, <1>3, Allocation DEF Restart, PlanInv, Types

\* Handing out a result changes nothing the invariant speaks of.
LEMMA TakeResultInv ==
    ASSUME PlanInv, TakeResult
    PROVE  PlanInv'
<1>1. sta' \in Stations /\ InUse'
  BY DEF TakeResult, PlanInv, Types, InUse, Busy, Sent
<1> QED
  BY <1>1, StaOnly DEF TakeResult, PlanInv, Types, bounds

\* The rest of an event queue comes from the queue.
LEMMA TailFacts ==
    ASSUME NEW q \in Seq(Events), q # << >>
    PROVE  /\ Head(q) \in Events /\ Head(q) = q[1] /\ 1 \in 1 .. Len(q)
           /\ Tail(q) \in Seq(Events)
           /\ \A i \in 1 .. Len(Tail(q)) : i + 1 \in 1 .. Len(q) /\ Tail(q)[i] = q[i + 1]
OBVIOUS

\* What the STA's record becomes when an acknowledgement is handled.
LEMMA ProcessAckSta ==
    ASSUME PlanInv, ProcessAck
    PROVE  sta' \in Stations /\ InUse'
<1>1. CASE UNCHANGED <<sta, result>>
  BY <1>1 DEF ProcessAck, PlanInv, Types, InUse, Busy, Sent
<1>2. CASE Busy(sta) /\ sta' = Finished(sta, "CONFIRMED")
  <2>1. sta' \in Stations /\ ~Busy(sta')
    BY <1>2, FinishedTyped
  <2> QED
    BY <2>1 DEF InUse, Busy
<1>3. CASE Busy(sta) /\ RoundFailed("REJECTED")
  BY <1>3, RoundFailedTyped DEF ProcessAck
<1> QED
  BY <1>1, <1>2, <1>3 DEF ProcessAck, Busy

\* Handling an acknowledgement takes one event and moves the sync.
LEMMA ProcessAckInv ==
    ASSUME PlanInv, ProcessAck
    PROVE  PlanInv'
<1>1. sta' \in Stations /\ InUse'
  BY ProcessAckSta
<1>2. staEvents \in Seq(Events) /\ staEvents # << >> /\ staEvents' = Tail(staEvents)
  BY DEF ProcessAck, PlanInv, Types
<1>3. UNCHANGED <<issued, syncs, apVars, air, bounds>>
  BY DEF ProcessAck
<1>4. Types'
  BY <1>1, <1>2, <1>3, TailFacts DEF PlanInv, Types, apVars, bounds
<1>5. \A i \in 1 .. Len(staEvents') : Honest(staEvents'[i].msg, staEvents'[i].status)
  BY <1>2, TailFacts DEF PlanInv, Sourced
<1>6. Numbered' /\ Sourced'
  BY <1>3, <1>5 DEF PlanInv, Numbered, Sourced, Honest, Sent, apVars
<1> QED
  BY <1>1, <1>4, <1>6 DEF PlanInv

\* A message that arrives is queued as it was sent.
LEMMA ArriveInv ==
    ASSUME PlanInv, NEW m \in air, Arrive(m)
    PROVE  PlanInv'
<1>1. /\ staEvents \in Seq(Events) /\ apEvents \in Seq(Events)
      /\ m \in [to : {"sta", "ap"}, msg : Messages, status : Statuses]
      /\ sta.gen \in Nat /\ ap.gen \in Nat
  BY DEF PlanInv, Types, Stations, Peers
<1>2. \A gen \in Nat : [gen |-> gen, msg |-> m.msg, status |-> m.status] \in Events
  BY <1>1 DEF Events
<1>3. UNCHANGED <<sta, issued, syncs, ap, apWork, applied, air, bounds>>
  BY DEF Arrive
<1>4. CASE m.to = "sta"
  <2>1. staEvents' = Append(staEvents, [gen |-> sta.gen, msg |-> m.msg, status |-> m.status])
        /\ apEvents' = apEvents
    BY <1>4 DEF Arrive, Posted
  <2>2. Honest(m.msg, m.status)
    BY <1>4 DEF PlanInv, Sourced
  <2>3. /\ staEvents' \in Seq(Events)
        /\ \A i \in 1 .. Len(staEvents') : Honest(staEvents'[i].msg, staEvents'[i].status)
    BY <1>1, <1>2, <2>1, <2>2 DEF PlanInv, Sourced
  <2> QED
    BY <1>3, <2>1, <2>3 DEF PlanInv, Types, Numbered, Sourced, InUse, Honest, Sent, Busy, bounds
<1>5. CASE m.to = "ap"
  <2>1. apEvents' = Append(apEvents, [gen |-> ap.gen, msg |-> m.msg, status |-> m.status])
        /\ staEvents' = staEvents
    BY <1>5 DEF Arrive, Posted
  <2>2. m = Sent(m.msg)
    BY <1>1, <1>5 DEF PlanInv, Numbered, Sent
  <2>3. /\ apEvents' \in Seq(Events)
        /\ \A i \in 1 .. Len(apEvents') : Sent(apEvents'[i].msg) \in air
    BY <1>1, <1>2, <2>1, <2>2 DEF PlanInv, Sourced
  <2> QED
    BY <1>3, <2>1, <2>3 DEF PlanInv, Types, Numbered, Sourced, InUse, Honest, Sent, Busy, bounds
<1> QED
  BY <1>1, <1>4, <1>5

-----------------------------------------------------------------------------
(* The AP *)

\* Steps that leave the STA, the queues and the network alone.
LEMMA ApOnly ==
    ASSUME PlanInv, UNCHANGED <<staVars, apEvents, air, applied>>, ap' \in Peers,
           gens' \in [sta : Nat, ap : Nat], changes' \in Nat, apWork' = apWork,
           \/ ap'.id = 0 /\ ap'.n = 0 /\ ap'.status = "none"
           \/ ap'.id = ap.id /\ ap'.n = ap.n /\ ap'.status = ap.status
    PROVE  PlanInv'
BY DEF PlanInv, Types, Numbered, Sourced, InUse, Honest, Sent, Busy, staVars

\* The AP learns of its STA: a new one has no number behind it.
LEMMA ApSetInv ==
    ASSUME PlanInv, NEW plan \in Plans, ApSet(plan)
    PROVE  PlanInv'
<1>1. gens' \in [sta : Nat, ap : Nat] /\ changes' \in Nat /\ ap \in Peers
  BY DEF ApSet, PlanInv, Types
<1>2. CASE ap.gen = 0
  <2>1. gens'.ap \in Nat /\ ap' = [NoSta EXCEPT !.gen = gens'.ap, !.plan = plan]
    BY <1>1, <1>2 DEF ApSet
  <2>2. ap' \in Peers /\ ap'.id = 0 /\ ap'.n = 0 /\ ap'.status = "none"
    BY <2>1 DEF NoSta, Peers, Statuses
  <2> QED
    BY <1>1, <2>2, ApOnly DEF ApSet
<1>3. CASE ap.gen # 0
  <2>1. ap' = [ap EXCEPT !.plan = plan]
    BY <1>3 DEF ApSet
  <2>2. ap' \in Peers /\ ap'.id = ap.id /\ ap'.n = ap.n /\ ap'.status = ap.status
    BY <1>1, <2>1 DEF Peers
  <2> QED
    BY <1>1, <2>2, ApOnly DEF ApSet
<1> QED
  BY <1>2, <1>3

\* The AP forgets its STA and the number it handled last.
LEMMA ApRemoveInv ==
    ASSUME PlanInv, ApRemove
    PROVE  PlanInv'
<1>1. ap' \in Peers /\ ap'.id = 0 /\ ap'.n = 0 /\ ap'.status = "none"
  BY DEF ApRemove, NoSta, Peers, Statuses
<1> QED
  BY <1>1, ApOnly DEF ApRemove, PlanInv, Types

\* The place of a message and its number.
LEMMA SentPlace ==
    ASSUME PlanInv, NEW m \in Messages, Sent(m) \in air
    PROVE  /\ m.n \in 1 .. issued.n /\ m.n \in 1 .. MaxMessages
           /\ m.id = IdOf(m.n) /\ m.id # 0
<1>1. m.n \in 1 .. issued.n /\ m.id = IdOf(m.n)
  BY DEF PlanInv, Numbered, Sent
<1>2. issued.n \in Nat /\ issued.n <= MaxMessages /\ MaxMessages \in Nat
  BY PlanSyncAssumption DEF PlanInv, Types, Numbered
<1>3. m.n \in 1 .. MaxMessages
  BY <1>1, <1>2
<1> QED
  BY <1>1, <1>3, IdPositive

\* Two PLAN_SYNCs with one number are one message.
LEMMA SameMessage ==
    ASSUME PlanInv, NEW m \in Messages, NEW k \in Messages,
           Sent(m) \in air, Sent(k) \in air, m.id = k.id
    PROVE  m = k
<1>1. m.n = k.n
  BY SentPlace, IdsDiffer
<1>2. Sent(m) = Sent(k)
  BY <1>1 DEF PlanInv, Numbered, Sent
<1> QED
  BY <1>2 DEF Sent

\* A number the AP has stored with success is the number of an applied message.
LEMMA KnownSuccess ==
    ASSUME PlanInv, NEW m \in Messages, Sent(m) \in air, m.id = ap.id, ap.status = "ok"
    PROVE  m \in applied
<1>1. m.n \in 1 .. MaxMessages /\ m.id = IdOf(m.n) /\ m.id # 0
  BY SentPlace
<1>2. PICK k \in applied : k.n = ap.n
  BY DEF PlanInv, Sourced
<1>3. k \in Messages /\ Sent(k) \in air
  BY DEF PlanInv, Types, Sourced
<1>4. k.id = ap.id
  BY <1>2, <1>3 DEF PlanInv, Numbered, Sourced, Sent
<1> QED
  BY <1>3, <1>4, SameMessage

\* The first critical section: a repeated number is answered from the record.
LEMMA TakeSyncInv ==
    ASSUME PlanInv, TakeSync
    PROVE  PlanInv'
<1> DEFINE event == Head(apEvents)
<1>1. apEvents \in Seq(Events) /\ apEvents # << >> /\ apEvents' = Tail(apEvents)
  BY DEF TakeSync, PlanInv, Types
<1>2. event \in Events /\ Sent(event.msg) \in air /\ event.msg \in Messages /\ event.gen \in Nat
  BY <1>1, TailFacts DEF PlanInv, Sourced, Events
<1>3. UNCHANGED <<staVars, ap, applied, air, bounds>>
  BY DEF TakeSync
<1>4. /\ apEvents' \in Seq(Events)
      /\ \A i \in 1 .. Len(apEvents') : Sent(apEvents'[i].msg) \in air
  BY <1>1, TailFacts DEF PlanInv, Sourced
<1>5. \/ apWork' = None
      \/ /\ event.msg.id = ap.id
         /\ apWork' = [gen |-> event.gen, msg |-> event.msg, step |-> "ack", status |-> ap.status]
      \/ \E status \in {"ok", "refused"} :
           apWork' = [gen |-> event.gen, msg |-> event.msg, step |-> "apply", status |-> status]
  BY DEF TakeSync
<1>6. /\ apWork' \in Works \cup {None}
      /\ apWork' # None => /\ Sent(apWork'.msg) \in air
                           /\ apWork'.step = "ack" => Honest(apWork'.msg, apWork'.status)
  <2>1. CASE apWork' = None
    BY <2>1
  <2>2. CASE /\ event.msg.id = ap.id
             /\ apWork' = [gen |-> event.gen, msg |-> event.msg, step |-> "ack",
                           status |-> ap.status]
    <3>1. ap.status = "ok" => event.msg \in applied
      BY <1>2, <2>2, KnownSuccess
    <3> QED
      BY <1>2, <2>2, <3>1 DEF Works, Honest, PlanInv, Types, Peers
  <2>3. ASSUME NEW status \in {"ok", "refused"},
               apWork' = [gen |-> event.gen, msg |-> event.msg, step |-> "apply",
                          status |-> status]
        PROVE  apWork' \in Works /\ Sent(apWork'.msg) \in air /\ apWork'.step # "ack"
    BY <1>2, <2>3 DEF Works, Statuses
  <2> QED
    BY <1>5, <2>1, <2>2, <2>3
<1> QED
  BY <1>3, <1>4, <1>6
  DEF PlanInv, Types, Numbered, Sourced, InUse, Honest, Sent, Busy, staVars, bounds

\* The second critical section: what is stored is a later message, and an
\* answer of success is of an applied message.
LEMMA ApplySyncInv ==
    ASSUME PlanInv, ApplySync
    PROVE  PlanInv'
<1> DEFINE m == apWork.msg
<1>1. apWork \in Works /\ m \in Messages /\ Sent(m) \in air
  BY DEF ApplySync, PlanInv, Types, Sourced, Works
<1>2. UNCHANGED <<staVars, apEvents, air, bounds>>
  BY DEF ApplySync
<1>3. m.n \in 1 .. issued.n /\ m.id = IdOf(m.n) /\ m.id # 0
  BY <1>1, SentPlace
<1>4. CASE apWork' = None /\ UNCHANGED <<ap, applied>>
  BY <1>2, <1>4
  DEF PlanInv, Types, Numbered, Sourced, InUse, Honest, Sent, Busy, staVars, bounds
<1>5. CASE /\ m.id = ap.id /\ UNCHANGED <<ap, applied>>
           /\ apWork' = [apWork EXCEPT !.step = "ack", !.status = ap.status]
  <2>1. ap.status = "ok" => m \in applied
    BY <1>1, <1>5, KnownSuccess
  <2>2. /\ apWork' \in Works /\ apWork'.msg = m /\ apWork'.status = ap.status
    BY <1>1, <1>5 DEF Works, PlanInv, Types, Peers
  <2> QED
    BY <1>1, <1>2, <1>5, <2>1, <2>2
    DEF PlanInv, Types, Numbered, Sourced, InUse, Honest, Sent, Busy, staVars, bounds
<1>6. ASSUME NEW status \in {apWork.status, "refused"},
             ap' = [ap EXCEPT !.id = m.id, !.n = m.n, !.status = status,
                              !.plan = IF status = "ok" THEN m.plan ELSE @],
             applied' = IF status = "ok" THEN applied \cup {m} ELSE applied,
             apWork' = [apWork EXCEPT !.step = "ack", !.status = status]
      PROVE  PlanInv'
  <2>1. status \in Statuses /\ m.plan \in Plans /\ m.n \in Nat /\ m.id \in Nat /\ ap \in Peers
    BY <1>1, <1>6 DEF Works, Statuses, Messages, PlanInv, Types
  <2>2. ap' \in Peers /\ ap'.id = m.id /\ ap'.n = m.n /\ ap'.status = status
    BY <1>6, <2>1 DEF Peers
  <2>3. /\ applied' \subseteq Messages /\ applied \subseteq applied'
        /\ status = "ok" => m \in applied'
        /\ \A k \in applied' : Sent(k) \in air
    BY <1>1, <1>6 DEF PlanInv, Types, Sourced
  <2>4. apWork' \in Works /\ apWork'.msg = m /\ apWork'.status = status
    BY <1>1, <1>6, <2>1 DEF Works
  <2>5. Types' /\ Numbered' /\ InUse'
    BY <1>2, <2>2, <2>3, <2>4
    DEF PlanInv, Types, Numbered, InUse, Sent, Busy, staVars, bounds
  <2>6. \A msg, st : Honest(msg, st) => Honest(msg, st)'
    BY <1>2, <2>3 DEF Honest, Sent
  <2>7. Honest(m, status)'
    BY <1>1, <1>2, <2>3, <2>4 DEF Honest, Sent
  <2>8. Sourced'
    BY <1>1, <1>2, <1>3, <2>2, <2>3, <2>4, <2>6, <2>7 DEF PlanInv, Sourced, Sent, staVars
  <2> QED
    BY <2>5, <2>8 DEF PlanInv
<1> QED
  BY <1>4, <1>5, <1>6 DEF ApplySync

\* The answer carries what the two critical sections decided.
LEMMA AnswerInv ==
    ASSUME PlanInv, Answer
    PROVE  PlanInv'
<1> DEFINE ack == [to |-> "sta", msg |-> apWork.msg, status |-> apWork.status]
<1>1. /\ apWork \in Works /\ Honest(apWork.msg, apWork.status)
      /\ ack \in [to : {"sta", "ap"}, msg : Messages, status : Statuses]
  BY DEF Answer, PlanInv, Types, Sourced, Works
<1>2. /\ UNCHANGED <<staVars, ap, applied, apEvents, bounds>> /\ apWork' = None
      /\ air' \in {air, air \cup {ack}}
  BY DEF Answer
<1>3. \A msg, status : Honest(msg, status) => Honest(msg, status)'
  BY <1>2 DEF Honest, Sent
<1>4. \A msg : Sent(msg) \in air => Sent(msg)' \in air'
  BY <1>2 DEF Sent
<1>5. Types'
  BY <1>1, <1>2 DEF PlanInv, Types, staVars, bounds
<1>6. \A x \in air' : x.to = "ap" => x \in air
  BY <1>2
<1>7. Numbered'
  BY <1>2, <1>6 DEF PlanInv, Numbered, staVars
<1>8. \A x \in air' : x.to = "sta" => Honest(x.msg, x.status)'
  BY <1>1, <1>2, <1>3 DEF PlanInv, Sourced
<1>9. Sourced'
  BY <1>2, <1>3, <1>4, <1>8 DEF PlanInv, Sourced, staVars
<1>10. InUse'
  BY <1>2, <1>4 DEF PlanInv, InUse, Busy, staVars
<1> QED
  BY <1>5, <1>7, <1>9, <1>10 DEF PlanInv

-----------------------------------------------------------------------------
(* The theorems *)

\* The invariant speaks of the variables only.
LEMMA PlanInvStutter ==
    ASSUME PlanInv, UNCHANGED vars
    PROVE  PlanInv'
BY DEF PlanInv, Types, Numbered, Sourced, InUse, Honest, Sent, Busy, vars, staVars, apVars, bounds

\* The invariant is inductive.
LEMMA PlanInvNext ==
    ASSUME PlanInv, [Next]_vars
    PROVE  PlanInv'
BY StaSetInv, CommitInv, ApSetInv, StaApplyLocalInv, StaRemoveInv, TimeoutInv, ResendInv,
   RestartInv, ProcessAckInv, TakeResultInv, ArriveInv, ApRemoveInv, TakeSyncInv,
   ApplySyncInv, AnswerInv, PlanInvStutter
DEF Next

\* No step but the handling of an acknowledgement reports CONFIRMED.
LEMMA OnlyAckConfirms ==
    ASSUME PlanInv, [Next]_vars, sta.state # "CONFIRMED", sta'.state = "CONFIRMED"
    PROVE  ProcessAck
<1>0. sta \in Stations /\ sta' # sta
  BY DEF PlanInv, Types
<1>1. ASSUME NEW plan \in Plans, sta' = Replaced(plan) PROVE FALSE
  BY <1>0, <1>1 DEF Replaced, Finished, Stations
<1>2. ASSUME NEW plan \in Plans, StaSet(plan) PROVE FALSE
  <2>1. sta'.state = "IDLE" \/ sta' = Replaced(plan)
    BY <1>2 DEF StaSet, NoPeer
  <2> QED
    BY <1>1, <2>1
<1>3. ASSUME NEW plan \in Plans, Commit(plan) PROVE FALSE
  BY <1>3 DEF Commit
<1>4. ASSUME NEW plan \in Plans, NEW defer \in BOOLEAN, StaApplyLocal(plan, defer) PROVE FALSE
  BY <1>1, <1>4 DEF StaApplyLocal
<1>5. ~StaRemove
  BY DEF StaRemove, NoPeer
<1>6. ~Timeout
  BY RoundFailedTyped DEF Timeout, Busy
<1>7. ~Resend /\ ~Restart
  BY <1>0 DEF Resend, Restart, Stations
<1> QED
  BY <1>0, <1>2, <1>3, <1>4, <1>5, <1>6, <1>7
  DEF Next, vars, staVars, ApSet, TakeResult, Arrive, ApRemove, TakeSync, ApplySync, Answer

\* The inductive invariant of the protocol: within one lap of the message
\* counter numbers name messages, every acknowledgement of success is of an
\* applied message, and a plan that is being synchronised is the plan in use.
THEOREM PlanInvariant == Spec => []PlanInv
BY PlanInvInit, PlanInvNext, PTL DEF Spec

\* A sync is confirmed only by a message the AP applied, which carries the plan
\* in use: what process_ack_event concludes from an acknowledgement is true for
\* every loss, repetition and reordering, and for every removal in between.
THEOREM Confirmation == Spec => ConfirmedAgree
<1>1. ASSUME PlanInv, [Next]_vars, sta.state # "CONFIRMED", sta'.state = "CONFIRMED"
      PROVE  sta.msg \in applied /\ sta.msg.plan = sta.plan
  <2>1. ProcessAck
    BY <1>1, OnlyAckConfirms
  <2> DEFINE event == Head(staEvents)
  <2>2. event = staEvents[1] /\ 1 \in 1 .. Len(staEvents) /\ event.msg \in Messages
    BY <1>1, <2>1, TailFacts DEF ProcessAck, PlanInv, Types, Events
  <2>3. /\ event.status = "ok" /\ sta.msg.id = event.msg.id /\ Busy(sta)
    <3>1. ~UNCHANGED <<sta, result>>
      BY <1>1
    <3>2. Busy(sta) /\ Acknowledges(event)
      BY <2>1, <3>1 DEF ProcessAck, Busy
    <3>3. ~RoundFailed("REJECTED")
      BY <1>1, <2>1, <3>2, RoundFailedTyped DEF ProcessAck
    <3> QED
      BY <2>1, <3>1, <3>2, <3>3 DEF ProcessAck, Acknowledges
  <2>4. sta.msg \in Messages /\ Sent(sta.msg) \in air /\ sta.plan = sta.msg.plan
    BY <1>1, <2>3 DEF PlanInv, InUse
  <2>5. Honest(event.msg, event.status)
    BY <1>1, <2>2 DEF PlanInv, Sourced
  <2>6. sta.msg = event.msg
    BY <1>1, <2>2, <2>3, <2>4, <2>5, SameMessage DEF Honest
  <2> QED
    BY <2>3, <2>4, <2>5, <2>6 DEF Honest
<1>2. PlanInv /\ [Next]_vars =>
        [sta.state # "CONFIRMED" /\ sta'.state = "CONFIRMED"
           => sta.msg \in applied /\ sta.msg.plan = sta.plan]_vars
  BY <1>1
<1> QED
  BY <1>2, PlanInvariant, PTL DEF Spec, ConfirmedAgree

\* While the AP keeps the Peer, a PLAN_SYNC changes its plan only if it was
\* allocated after every one handled before: retries, late copies and the
\* wrap-around of the counter never bring an older plan back.
THEOREM AppliedOrder == Spec => AppliedInOrder
<1>1. ASSUME PlanInv, [Next]_vars, apWork' # apWork, ap'.gen = ap.gen, ap'.plan # ap.plan
      PROVE  ap'.n > ap.n
  <2>1. ApplySync
    BY <1>1
    DEF Next, vars, staVars, apVars, StaSet, Commit, ApSet, StaApplyLocal, StaRemove, Timeout,
        Resend, Restart, ProcessAck, TakeResult, Arrive, ApRemove, TakeSync, Answer
  <2> DEFINE m == apWork.msg
  <2>2. Newer(m.id, ap.id) /\ ap'.n = m.n
    BY <1>1, <2>1 DEF ApplySync, PlanInv, Types, Peers
  <2>3. m \in Messages /\ Sent(m) \in air
    BY <1>1, <2>1 DEF ApplySync, PlanInv, Types, Sourced, Works
  <2>4. m.n \in 1 .. MaxMessages /\ m.id = IdOf(m.n) /\ m.n \in 1 .. issued.n
    BY <1>1, <2>3, SentPlace
  <2>5. CASE ap.n = 0
    BY <2>2, <2>4, <2>5
  <2>6. CASE ap.n # 0
    <3>1. ap.n \in 1 .. issued.n /\ ap.id = IdOf(ap.n)
      BY <1>1, <2>6 DEF PlanInv, Sourced
    <3>2. ap.n \in 1 .. MaxMessages
      BY <1>1, <3>1, PlanSyncAssumption, SMTT(30) DEF PlanInv, Types, Numbered
    <3> QED
      BY <2>2, <2>4, <3>1, <3>2, NewerIsLater
  <2> QED
    BY <2>5, <2>6
<1>2. PlanInv /\ [Next]_vars =>
        [apWork' # apWork /\ ap'.gen = ap.gen /\ ap'.plan # ap.plan => ap'.n > ap.n]_vars
  BY <1>1
<1> QED
  BY <1>2, PlanInvariant, PTL DEF Spec, AppliedInOrder
=============================================================================
