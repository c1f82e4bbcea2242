--------------------------- MODULE SuperviseProofs ---------------------------
(***************************************************************************)
(* The Supervisor's discipline for every value of the timeouts.  First the *)
(* processes: one child at a time, none left behind, one attempt for a     *)
(* candidate; ProcessInv is inductive by itself and uses no fact about     *)
(* time.  Then time: how long an attempt may last, that a child that beats *)
(* is kept, that only served time clears the failures and confirms a       *)
(* candidate.  These rest on TimeInv and on three inequalities between the *)
(* timeouts (Punctual, Roomy, SlowRestart).                                *)
(***************************************************************************)
EXTENDS Supervise, TLAPS

\* The initial state has no child and no candidate that was tried.
LEMMA InitProcess == Init => ProcessInv
<1> SUFFICES ASSUME Init PROVE ProcessInv
  OBVIOUS
<1>1. proc \in ProcType /\ proc.st = "none"
  BY DEF Init, NoProc, ProcType
<1>2. pc = "loop" /\ pc \in Pcs /\ pc \notin Monitoring
  BY DEF Init, Pcs, Monitoring
<1>3. ControlTypes
  BY <1>1, <1>2 DEF Init, ControlTypes, Selections
<1>4. PidKnown
  BY <1>1 DEF Init, PidKnown
<1>5. PlaceKnown
  BY <1>2 DEF Init, PlaceKnown
<1>6. TriedOnce
  BY DEF Init, TriedOnce
<1> QED BY <1>3, <1>4, <1>5, <1>6 DEF ProcessInv

\* A step that only ages or moves the process keeps the invariant.
LEMMA ProcOnly ==
  ASSUME ProcessInv, UNCHANGED <<pc, pid, trial, json, rollbackPending, stop, ropen, tries>>,
         proc' \in ProcType, proc'.st = "none" <=> proc.st = "none"
  PROVE  ProcessInv'
<1>1. ControlTypes'
  BY DEF ProcessInv, ControlTypes
<1>2. PidKnown'
  BY DEF ProcessInv, PidKnown
<1>3. PlaceKnown'
  BY DEF ProcessInv, PlaceKnown
<1>4. TriedOnce'
  BY DEF ProcessInv, TriedOnce
<1> QED BY <1>1, <1>2, <1>3, <1>4 DEF ProcessInv

\* Steps of LinkG change neither the Supervisor's control state nor which
\* process exists, except that a live process may become a zombie.
LEMMA AppKeeps == ProcessInv /\ App => ProcessInv'
<1> SUFFICES ASSUME ProcessInv, App PROVE ProcessInv'
  OBVIOUS
<1>a. Beat \in Nat
  BY SuperviseAssumption
<1>b. proc \in ProcType /\ ropen \in BOOLEAN
  BY DEF ProcessInv, ControlTypes
<1>1. UNCHANGED <<pc, pid, trial, json, rollbackPending, stop, ropen, tries>>
  BY DEF App, AppReady, AppFails, AppRestarts, AppResets, AppLeaves, AppDies,
         AppHangs, AppBeats, AppWrites, AppSide, supv
<1>2. proc' \in ProcType /\ (proc'.st = "none" <=> proc.st = "none")
  <2>1. ASSUME Leave PROVE proc' \in ProcType /\ proc'.st = proc.st
    BY <1>b, <2>1 DEF Leave, ProcType
  <2>2. CASE AppReady
    BY <1>a, <1>b, <2>1, <2>2 DEF AppReady, ProcType
  <2>3. CASE AppFails
    BY <2>1, <2>3 DEF AppFails
  <2>4. CASE AppRestarts
    <3>1. CASE SendOk
      <4>1. proc' = [proc EXCEPT !.phase = "restart", !.running = FALSE, !.age = 0]
        BY <2>4, <3>1 DEF AppRestarts
      <4> QED BY <1>b, <4>1 DEF ProcType
    <3>2. CASE ~SendOk
      BY <2>1, <2>4, <3>2 DEF AppRestarts
    <3> QED BY <3>1, <3>2
  <2>5. CASE AppResets
    BY <1>b, <2>5 DEF AppResets, ProcType
  <2>6. CASE AppLeaves
    BY <2>1, <2>6 DEF AppLeaves
  <2>7. CASE AppDies
    BY <1>b, <2>7 DEF AppDies, ProcType
  <2>8. CASE AppHangs
    BY <1>b, <2>8 DEF AppHangs, ProcType
  <2>9. CASE AppBeats
    BY <1>a, <1>b, <2>9 DEF AppBeats, ProcType
  <2>10. CASE \E m \in Messages : AppWrites(m)
    BY <1>b, <2>10 DEF AppWrites
  <2> QED BY <2>2, <2>3, <2>4, <2>5, <2>6, <2>7, <2>8, <2>9, <2>10 DEF App
<1> QED BY <1>1, <1>2, ProcOnly



\* Steps of the Supervisor, one action after the other.
LEMMA SupervisorKeeps == ProcessInv /\ Supervisor => ProcessInv'
<1> SUFFICES ASSUME ProcessInv, Supervisor PROVE ProcessInv'
  OBVIOUS
<1> USE DEF Goto, SupSide, supv, chan
<1>1. CASE LoopEnds
  <2>1. ControlTypes'
    BY <1>1 DEF LoopEnds, ProcessInv, ControlTypes, Pcs, Monitoring, ProcType
  <2>2. PidKnown'
    BY <1>1 DEF LoopEnds, ProcessInv, PidKnown, PlaceKnown, ControlTypes, ProcType
  <2>3. PlaceKnown'
    BY <1>1 DEF LoopEnds, ProcessInv, PidKnown, PlaceKnown, ControlTypes, Monitoring
  <2>4. TriedOnce'
    BY <1>1 DEF LoopEnds, ProcessInv, TriedOnce, PlaceKnown, ControlTypes, Monitoring
  <2> QED BY <2>1, <2>2, <2>3, <2>4 DEF ProcessInv
<1>2. CASE LoopTerminates
  <2>1. ControlTypes'
    BY <1>2 DEF LoopTerminates, ProcessInv, ControlTypes, Pcs, Monitoring, ProcType
  <2>2. PidKnown'
    BY <1>2 DEF LoopTerminates, ProcessInv, PidKnown, PlaceKnown, ControlTypes, ProcType
  <2>3. PlaceKnown'
    BY <1>2 DEF LoopTerminates, ProcessInv, PidKnown, PlaceKnown, ControlTypes, Monitoring
  <2>4. TriedOnce'
    BY <1>2 DEF LoopTerminates, ProcessInv, TriedOnce, PlaceKnown, ControlTypes, Monitoring
  <2> QED BY <2>1, <2>2, <2>3, <2>4 DEF ProcessInv
<1>3. CASE Prepare
  <2>1. ControlTypes'
    <3>1. pc' \in Pcs /\ json' \in Selections
      BY <1>3 DEF Prepare, ProcessInv, ControlTypes, Pcs, Monitoring, Selections
    <3>2. trial' \in BOOLEAN /\ rollbackPending' \in BOOLEAN /\ UNCHANGED <<pid, stop, ropen, proc>>
      BY <1>3 DEF Prepare, ProcessInv, ControlTypes
    <3> QED BY <3>1, <3>2 DEF ProcessInv, ControlTypes
  <2>2. PidKnown'
    BY <1>3 DEF Prepare, ProcessInv, PidKnown, PlaceKnown, ControlTypes, ProcType
  <2>3. PlaceKnown'
    BY <1>3 DEF Prepare, ProcessInv, PidKnown, PlaceKnown, ControlTypes, Monitoring
  <2>4. TriedOnce'
    <3>1. trial \/ json # "stable" => tries = 0
      BY <1>3 DEF Prepare, ProcessInv, TriedOnce, Monitoring
    <3>2. ~pid' /\ json' # "newer"
      BY <1>3 DEF Prepare, ProcessInv, TriedOnce, Monitoring
    <3>3. tries' = tries /\ (trial' \/ json' # "stable" => json # "stable")
      BY <1>3 DEF Prepare
    <3> QED BY <3>1, <3>2, <3>3 DEF ProcessInv, TriedOnce
  <2> QED BY <2>1, <2>2, <2>3, <2>4 DEF ProcessInv
<1>4. CASE PrepareFails
  <2>1. ControlTypes'
    <3>1. pc' \in Pcs /\ json' \in Selections
      BY <1>4 DEF PrepareFails, Backoff, ProcessInv, ControlTypes, Pcs, Monitoring, Selections
    <3>2. UNCHANGED <<pid, rollbackPending, stop, ropen, proc, tries>>
      BY <1>4 DEF PrepareFails, Backoff, ProcessInv
    <3> QED BY <1>4, <3>1, <3>2 DEF PrepareFails, ProcessInv, ControlTypes
  <2>2. PidKnown'
    BY <1>4 DEF PrepareFails, Backoff, ProcessInv, PidKnown, PlaceKnown, ControlTypes, ProcType
  <2>3. PlaceKnown'
    BY <1>4 DEF PrepareFails, Backoff, ProcessInv, PidKnown, PlaceKnown, ControlTypes, Monitoring
  <2>4. TriedOnce'
    BY <1>4 DEF PrepareFails, Backoff, ProcessInv, TriedOnce, PlaceKnown, ControlTypes, Monitoring
  <2> QED BY <2>1, <2>2, <2>3, <2>4 DEF ProcessInv
<1>5. CASE SpawnStopped
  <2>1. ControlTypes'
    BY <1>5 DEF SpawnStopped, ProcessInv, ControlTypes, Pcs, Monitoring, ProcType
  <2>2. PidKnown'
    BY <1>5 DEF SpawnStopped, ProcessInv, PidKnown, PlaceKnown, ControlTypes, ProcType
  <2>3. PlaceKnown'
    BY <1>5 DEF SpawnStopped, ProcessInv, PidKnown, PlaceKnown, ControlTypes, Monitoring
  <2>4. TriedOnce'
    BY <1>5 DEF SpawnStopped, ProcessInv, TriedOnce, PlaceKnown, ControlTypes, Monitoring
  <2> QED BY <2>1, <2>2, <2>3, <2>4 DEF ProcessInv
<1>6. CASE Spawn
  <2>1. ControlTypes'
    BY <1>6 DEF Spawn, NoProc, ProcessInv, ControlTypes, Pcs, Monitoring, ProcType
  <2>2. PidKnown'
    BY <1>6 DEF Spawn, NoProc, ProcessInv, PidKnown, PlaceKnown, ControlTypes, ProcType
  <2>3. PlaceKnown'
    BY <1>6 DEF Spawn, NoProc, ProcessInv, PidKnown, PlaceKnown, ControlTypes, Monitoring
  <2>4. TriedOnce'
    BY <1>6 DEF Spawn, NoProc, ProcessInv, TriedOnce, PlaceKnown, ControlTypes, Monitoring
  <2> QED BY <2>1, <2>2, <2>3, <2>4 DEF ProcessInv
<1>7. CASE SpawnFails
  <2>1. ControlTypes'
    BY <1>7 DEF SpawnFails, MonitorEnds, ProcessInv, ControlTypes, Pcs, Monitoring, ProcType
  <2>2. PidKnown'
    BY <1>7 DEF SpawnFails, MonitorEnds, ProcessInv, PidKnown, PlaceKnown, ControlTypes, ProcType
  <2>3. PlaceKnown'
    BY <1>7 DEF SpawnFails, MonitorEnds, ProcessInv, PidKnown, PlaceKnown, ControlTypes, Monitoring
  <2>4. TriedOnce'
    BY <1>7 DEF SpawnFails, MonitorEnds, ProcessInv, TriedOnce, PlaceKnown, ControlTypes, Monitoring
  <2> QED BY <2>1, <2>2, <2>3, <2>4 DEF ProcessInv
<1>8. CASE MonitorStopped
  <2>1. ControlTypes'
    BY <1>8 DEF MonitorStopped, MonitorEnds, ProcessInv, ControlTypes, Pcs, Monitoring, ProcType
  <2>2. PidKnown'
    BY <1>8 DEF MonitorStopped, MonitorEnds, ProcessInv, PidKnown, PlaceKnown, ControlTypes, ProcType
  <2>3. PlaceKnown'
    BY <1>8 DEF MonitorStopped, MonitorEnds, ProcessInv, PidKnown, PlaceKnown, ControlTypes, Monitoring
  <2>4. TriedOnce'
    BY <1>8 DEF MonitorStopped, MonitorEnds, ProcessInv, TriedOnce, PlaceKnown, ControlTypes, Monitoring
  <2> QED BY <2>1, <2>2, <2>3, <2>4 DEF ProcessInv
<1>9. CASE MonitorReaps
  <2>1. ControlTypes'
    BY <1>9 DEF MonitorReaps, MonitorEnds, NoProc, ProcessInv, ControlTypes, Pcs, Monitoring, ProcType
  <2>2. PidKnown'
    BY <1>9 DEF MonitorReaps, MonitorEnds, NoProc, ProcessInv, PidKnown, PlaceKnown, ControlTypes, ProcType
  <2>3. PlaceKnown'
    BY <1>9 DEF MonitorReaps, MonitorEnds, NoProc, ProcessInv, PidKnown, PlaceKnown, ControlTypes, Monitoring
  <2>4. TriedOnce'
    BY <1>9 DEF MonitorReaps, MonitorEnds, NoProc, ProcessInv, TriedOnce, PlaceKnown, ControlTypes, Monitoring
  <2> QED BY <2>1, <2>2, <2>3, <2>4 DEF ProcessInv
<1>10. CASE MonitorExpires
  <2>1. ControlTypes'
    BY <1>10 DEF MonitorExpires, MonitorEnds, ProcessInv, ControlTypes, Pcs, Monitoring, ProcType
  <2>2. PidKnown'
    BY <1>10 DEF MonitorExpires, MonitorEnds, ProcessInv, PidKnown, PlaceKnown, ControlTypes, ProcType
  <2>3. PlaceKnown'
    BY <1>10 DEF MonitorExpires, MonitorEnds, ProcessInv, PidKnown, PlaceKnown, ControlTypes, Monitoring
  <2>4. TriedOnce'
    BY <1>10 DEF MonitorExpires, MonitorEnds, ProcessInv, TriedOnce, PlaceKnown, ControlTypes, Monitoring
  <2> QED BY <2>1, <2>2, <2>3, <2>4 DEF ProcessInv
<1>11. CASE MonitorChecks
  <2>1. ControlTypes'
    BY <1>11 DEF MonitorChecks, ProcessInv, ControlTypes, Pcs, Monitoring, ProcType
  <2>2. PidKnown'
    BY <1>11 DEF MonitorChecks, ProcessInv, PidKnown, PlaceKnown, ControlTypes, ProcType
  <2>3. PlaceKnown'
    BY <1>11 DEF MonitorChecks, ProcessInv, PidKnown, PlaceKnown, ControlTypes, Monitoring
  <2>4. TriedOnce'
    BY <1>11 DEF MonitorChecks, ProcessInv, TriedOnce, PlaceKnown, ControlTypes, Monitoring
  <2> QED BY <2>1, <2>2, <2>3, <2>4 DEF ProcessInv
<1>12. CASE PollIdle
  <2>1. ControlTypes'
    BY <1>12 DEF PollIdle, ProcessInv, ControlTypes, Pcs, Monitoring, ProcType
  <2>2. PidKnown'
    BY <1>12 DEF PollIdle, ProcessInv, PidKnown, PlaceKnown, ControlTypes, ProcType
  <2>3. PlaceKnown'
    BY <1>12 DEF PollIdle, ProcessInv, PidKnown, PlaceKnown, ControlTypes, Monitoring
  <2>4. TriedOnce'
    BY <1>12 DEF PollIdle, ProcessInv, TriedOnce, PlaceKnown, ControlTypes, Monitoring
  <2> QED BY <2>1, <2>2, <2>3, <2>4 DEF ProcessInv
<1>13. CASE PollLate
  <2>1. ControlTypes'
    BY <1>13 DEF PollLate, ProcessInv, ControlTypes, Pcs, Monitoring, ProcType
  <2>2. PidKnown'
    BY <1>13 DEF PollLate, ProcessInv, PidKnown, PlaceKnown, ControlTypes, ProcType
  <2>3. PlaceKnown'
    BY <1>13 DEF PollLate, ProcessInv, PidKnown, PlaceKnown, ControlTypes, Monitoring
  <2>4. TriedOnce'
    BY <1>13 DEF PollLate, ProcessInv, TriedOnce, PlaceKnown, ControlTypes, Monitoring
  <2> QED BY <2>1, <2>2, <2>3, <2>4 DEF ProcessInv
<1>14. CASE PollReads
  <2>1. ControlTypes'
    <3>1. pc' \in Pcs
      BY <1>14 DEF PollReads, Read, ReadEof, MonitorEnds, ProcessInv, ControlTypes, Pcs, Monitoring
    <3>2. rollbackPending' \in BOOLEAN
      BY <1>14 DEF PollReads, Read, ReadEof, MonitorEnds, ProcessInv, ControlTypes
    <3>3. UNCHANGED <<pid, trial, json, stop, proc>> /\ ropen' \in BOOLEAN
      BY <1>14 DEF PollReads, Read, ReadEof, ProcessInv, ControlTypes
    <3> QED BY <3>1, <3>2, <3>3 DEF ProcessInv, ControlTypes
  <2>2. PidKnown'
    BY <1>14 DEF PollReads, Read, ReadEof, MonitorEnds, ProcessInv, PidKnown, PlaceKnown, ControlTypes, ProcType
  <2>3. PlaceKnown'
    BY <1>14 DEF PollReads, Read, ReadEof, MonitorEnds, ProcessInv, PidKnown, PlaceKnown, ControlTypes, Monitoring
  <2>4. TriedOnce'
    BY <1>14 DEF PollReads, Read, ReadEof, MonitorEnds, ProcessInv, TriedOnce, PlaceKnown, ControlTypes, Monitoring
  <2> QED BY <2>1, <2>2, <2>3, <2>4 DEF ProcessInv
<1>15. CASE Apply
  <2>1. ControlTypes'
    <3>1. pc' \in Pcs
      BY <1>15 DEF Apply, MonitorEnds, ProcessInv, ControlTypes, Pcs, Monitoring
    <3>2. rollbackPending' \in BOOLEAN
      BY <1>15 DEF Apply, MonitorEnds, ProcessInv, ControlTypes
    <3>3. UNCHANGED <<pid, trial, json, stop, proc>> /\ ropen' \in BOOLEAN
      BY <1>15 DEF Apply, ProcessInv, ControlTypes
    <3> QED BY <3>1, <3>2, <3>3 DEF ProcessInv, ControlTypes
  <2>2. PidKnown'
    BY <1>15 DEF Apply, MonitorEnds, ProcessInv, PidKnown, PlaceKnown, ControlTypes, ProcType
  <2>3. PlaceKnown'
    BY <1>15 DEF Apply, MonitorEnds, ProcessInv, PidKnown, PlaceKnown, ControlTypes, Monitoring
  <2>4. TriedOnce'
    BY <1>15 DEF Apply, MonitorEnds, ProcessInv, TriedOnce, PlaceKnown, ControlTypes, Monitoring
  <2> QED BY <2>1, <2>2, <2>3, <2>4 DEF ProcessInv
<1>16. CASE ReadEnds
  <2>1. ControlTypes'
    BY <1>16 DEF ReadEnds, ProcessInv, ControlTypes, Pcs, Monitoring, ProcType
  <2>2. PidKnown'
    BY <1>16 DEF ReadEnds, ProcessInv, PidKnown, PlaceKnown, ControlTypes, ProcType
  <2>3. PlaceKnown'
    BY <1>16 DEF ReadEnds, ProcessInv, PidKnown, PlaceKnown, ControlTypes, Monitoring
  <2>4. TriedOnce'
    BY <1>16 DEF ReadEnds, ProcessInv, TriedOnce, PlaceKnown, ControlTypes, Monitoring
  <2> QED BY <2>1, <2>2, <2>3, <2>4 DEF ProcessInv
<1>17. CASE MonitorDecides
  <2>1. ControlTypes'
    BY <1>17 DEF MonitorDecides, ProcessInv, ControlTypes, Pcs, Monitoring, ProcType
  <2>2. PidKnown'
    BY <1>17 DEF MonitorDecides, ProcessInv, PidKnown, PlaceKnown, ControlTypes, ProcType
  <2>3. PlaceKnown'
    BY <1>17 DEF MonitorDecides, ProcessInv, PidKnown, PlaceKnown, ControlTypes, Monitoring
  <2>4. TriedOnce'
    BY <1>17 DEF MonitorDecides, ProcessInv, TriedOnce, PlaceKnown, ControlTypes, Monitoring
  <2> QED BY <2>1, <2>2, <2>3, <2>4 DEF ProcessInv
<1>18. CASE ConfirmStopped
  <2>1. ControlTypes'
    BY <1>18 DEF ConfirmStopped, ConfirmLater, ProcessInv, ControlTypes, Pcs, Monitoring, ProcType
  <2>2. PidKnown'
    BY <1>18 DEF ConfirmStopped, ConfirmLater, ProcessInv, PidKnown, PlaceKnown, ControlTypes, ProcType
  <2>3. PlaceKnown'
    BY <1>18 DEF ConfirmStopped, ConfirmLater, ProcessInv, PidKnown, PlaceKnown, ControlTypes, Monitoring
  <2>4. TriedOnce'
    BY <1>18 DEF ConfirmStopped, ConfirmLater, ProcessInv, TriedOnce, PlaceKnown, ControlTypes, Monitoring
  <2> QED BY <2>1, <2>2, <2>3, <2>4 DEF ProcessInv
<1>19. CASE ConfirmReads
  <2>1. ControlTypes'
    BY <1>19, ZenonT(40) DEF ConfirmReads, Read, ReadEof, MonitorEnds, ProcessInv,
                             ControlTypes, Pcs, Monitoring, ProcType
  <2>2. PidKnown'
    BY <1>19 DEF ConfirmReads, Read, ReadEof, MonitorEnds, ProcessInv, PidKnown, PlaceKnown, ControlTypes, ProcType
  <2>3. PlaceKnown'
    BY <1>19 DEF ConfirmReads, Read, ReadEof, MonitorEnds, ProcessInv, PidKnown, PlaceKnown, ControlTypes, Monitoring
  <2>4. TriedOnce'
    BY <1>19 DEF ConfirmReads, Read, ReadEof, MonitorEnds, ProcessInv, TriedOnce, PlaceKnown, ControlTypes, Monitoring
  <2> QED BY <2>1, <2>2, <2>3, <2>4 DEF ProcessInv
<1>20. CASE ConfirmGoesOn
  <2>1. ControlTypes'
    BY <1>20 DEF ConfirmGoesOn, ConfirmChecked, ProcessInv, ControlTypes, Pcs, Monitoring, ProcType
  <2>2. PidKnown'
    BY <1>20 DEF ConfirmGoesOn, ConfirmChecked, ProcessInv, PidKnown, PlaceKnown, ControlTypes, ProcType
  <2>3. PlaceKnown'
    BY <1>20 DEF ConfirmGoesOn, ConfirmChecked, ProcessInv, PidKnown, PlaceKnown, ControlTypes, Monitoring
  <2>4. TriedOnce'
    BY <1>20 DEF ConfirmGoesOn, ConfirmChecked, ProcessInv, TriedOnce, PlaceKnown, ControlTypes, Monitoring
  <2> QED BY <2>1, <2>2, <2>3, <2>4 DEF ProcessInv
<1>21. CASE ConfirmFails
  <2>1. ControlTypes'
    <3>1. pc' \in Pcs /\ json' \in Selections
      BY <1>21 DEF ConfirmFails, ConfirmChecked, ConfirmLater, Torn, ProcessInv, ControlTypes, Pcs, Monitoring, Selections
    <3>2. UNCHANGED <<pid, trial, rollbackPending, stop, ropen, proc, tries>>
      BY <1>21 DEF ConfirmFails, ConfirmChecked, ConfirmLater, ProcessInv
    <3> QED BY <1>21, <3>1, <3>2 DEF ConfirmFails, ProcessInv, ControlTypes
  <2>2. PidKnown'
    BY <1>21 DEF ConfirmFails, ConfirmChecked, ConfirmLater, ProcessInv, PidKnown, PlaceKnown, ControlTypes, ProcType
  <2>3. PlaceKnown'
    BY <1>21 DEF ConfirmFails, ConfirmChecked, ConfirmLater, ProcessInv, PidKnown, PlaceKnown, ControlTypes, Monitoring
  <2>4. TriedOnce'
    <3>1. tries' = tries /\ trial' = trial /\ pid' = pid
          /\ (json' = json \/ (json # "stable" /\ json' = "stable"))
      BY <1>21 DEF ConfirmFails, ConfirmChecked, ConfirmLater, Torn
    <3>2. (pc \in Monitoring \/ rollbackPending \/ stop) =>
             (pc' \in Monitoring \/ rollbackPending' \/ stop')
      BY <1>21 DEF ConfirmFails, ConfirmChecked, ConfirmLater, Monitoring
    <3> QED BY <3>1, <3>2 DEF ProcessInv, TriedOnce
  <2> QED BY <2>1, <2>2, <2>3, <2>4 DEF ProcessInv
<1>22. CASE ConfirmCommits
  <2>1. ControlTypes'
    <3>1. pc' \in Pcs /\ json' \in Selections
      BY <1>22 DEF ConfirmCommits, ProcessInv, ControlTypes, Pcs, Monitoring, Selections
    <3>2. trial' \in BOOLEAN /\ rollbackPending' \in BOOLEAN /\ UNCHANGED <<pid, stop, ropen, proc>>
      BY <1>22 DEF ConfirmCommits, ProcessInv, ControlTypes
    <3> QED BY <3>1, <3>2 DEF ProcessInv, ControlTypes
  <2>2. PidKnown'
    BY <1>22 DEF ConfirmCommits, ProcessInv, PidKnown, PlaceKnown, ControlTypes, ProcType
  <2>3. PlaceKnown'
    BY <1>22 DEF ConfirmCommits, ProcessInv, PidKnown, PlaceKnown, ControlTypes, Monitoring
  <2>4. TriedOnce'
    BY <1>22 DEF ConfirmCommits, ProcessInv, TriedOnce, PlaceKnown, ControlTypes, Monitoring
  <2> QED BY <2>1, <2>2, <2>3, <2>4 DEF ProcessInv
<1>23. CASE Terminate
  <2>1. ControlTypes'
    BY <1>23, ZenonT(40) DEF Terminate, ProcessInv, ControlTypes, Pcs, Monitoring, ProcType
  <2>2. PidKnown'
    BY <1>23 DEF Terminate, ProcessInv, PidKnown, PlaceKnown, ControlTypes, ProcType
  <2>3. PlaceKnown'
    BY <1>23 DEF Terminate, ProcessInv, PidKnown, PlaceKnown, ControlTypes, Monitoring
  <2>4. TriedOnce'
    BY <1>23 DEF Terminate, ProcessInv, TriedOnce, PlaceKnown, ControlTypes, Monitoring
  <2> QED BY <2>1, <2>2, <2>3, <2>4 DEF ProcessInv
<1>24. CASE TerminateFails
  <2>1. ControlTypes'
    BY <1>24, ZenonT(40) DEF TerminateFails, Backoff, ProcessInv, ControlTypes, Pcs, Monitoring,
                             ProcType
  <2>2. PidKnown'
    BY <1>24 DEF TerminateFails, Backoff, ProcessInv, PidKnown, PlaceKnown, ControlTypes, ProcType
  <2>3. PlaceKnown'
    BY <1>24 DEF TerminateFails, Backoff, ProcessInv, PidKnown, PlaceKnown, ControlTypes, Monitoring
  <2>4. TriedOnce'
    BY <1>24 DEF TerminateFails, Backoff, ProcessInv, TriedOnce, PlaceKnown, ControlTypes, Monitoring
  <2> QED BY <2>1, <2>2, <2>3, <2>4 DEF ProcessInv
<1>25. CASE GraceReaps
  <2>1. ControlTypes'
    BY <1>25 DEF GraceReaps, NoProc, ProcessInv, ControlTypes, Pcs, Monitoring, ProcType
  <2>2. PidKnown'
    BY <1>25 DEF GraceReaps, NoProc, ProcessInv, PidKnown, PlaceKnown, ControlTypes, ProcType
  <2>3. PlaceKnown'
    BY <1>25 DEF GraceReaps, NoProc, ProcessInv, PidKnown, PlaceKnown, ControlTypes, Monitoring
  <2>4. TriedOnce'
    BY <1>25 DEF GraceReaps, NoProc, ProcessInv, TriedOnce, PlaceKnown, ControlTypes, Monitoring
  <2> QED BY <2>1, <2>2, <2>3, <2>4 DEF ProcessInv
<1>26. CASE GraceKills
  <2>1. ControlTypes'
    BY <1>26 DEF GraceKills, NoProc, ProcessInv, ControlTypes, Pcs, Monitoring, ProcType
  <2>2. PidKnown'
    BY <1>26 DEF GraceKills, NoProc, ProcessInv, PidKnown, PlaceKnown, ControlTypes, ProcType
  <2>3. PlaceKnown'
    BY <1>26 DEF GraceKills, NoProc, ProcessInv, PidKnown, PlaceKnown, ControlTypes, Monitoring
  <2>4. TriedOnce'
    BY <1>26 DEF GraceKills, NoProc, ProcessInv, TriedOnce, PlaceKnown, ControlTypes, Monitoring
  <2> QED BY <2>1, <2>2, <2>3, <2>4 DEF ProcessInv
<1>27. CASE Stopped
  <2>1. ControlTypes'
    BY <1>27 DEF Stopped, Backoff, ProcessInv, ControlTypes, Pcs, Monitoring, ProcType
  <2>2. PidKnown'
    BY <1>27 DEF Stopped, Backoff, ProcessInv, PidKnown, PlaceKnown, ControlTypes, ProcType
  <2>3. PlaceKnown'
    BY <1>27 DEF Stopped, Backoff, ProcessInv, PidKnown, PlaceKnown, ControlTypes, Monitoring
  <2>4. TriedOnce'
    BY <1>27 DEF Stopped, Backoff, ProcessInv, TriedOnce, PlaceKnown, ControlTypes, Monitoring
  <2> QED BY <2>1, <2>2, <2>3, <2>4 DEF ProcessInv
<1>28. CASE Rollback
  <2>1. ControlTypes'
    <3>1. pc' \in Pcs /\ json' \in Selections
      BY <1>28 DEF Rollback, ProcessInv, ControlTypes, Pcs, Monitoring, Selections
    <3>2. trial' \in BOOLEAN /\ rollbackPending' \in BOOLEAN /\ UNCHANGED <<pid, stop, ropen, proc>>
      BY <1>28 DEF Rollback, ProcessInv, ControlTypes
    <3> QED BY <3>1, <3>2 DEF ProcessInv, ControlTypes
  <2>2. PidKnown'
    BY <1>28 DEF Rollback, ProcessInv, PidKnown, PlaceKnown, ControlTypes, ProcType
  <2>3. PlaceKnown'
    BY <1>28 DEF Rollback, ProcessInv, PidKnown, PlaceKnown, ControlTypes, Monitoring
  <2>4. TriedOnce'
    BY <1>28 DEF Rollback, ProcessInv, TriedOnce, PlaceKnown, ControlTypes, Monitoring
  <2> QED BY <2>1, <2>2, <2>3, <2>4 DEF ProcessInv
<1>29. CASE RollbackFails
  <2>1. ControlTypes'
    <3>1. pc' \in Pcs /\ json' \in Selections
      BY <1>29 DEF RollbackFails, Backoff, Torn, ProcessInv, ControlTypes, Pcs, Monitoring, Selections
    <3>2. UNCHANGED <<pid, trial, rollbackPending, stop, ropen, proc, tries>>
      BY <1>29 DEF RollbackFails, Backoff, ProcessInv
    <3> QED BY <1>29, <3>1, <3>2 DEF RollbackFails, ProcessInv, ControlTypes
  <2>2. PidKnown'
    BY <1>29 DEF RollbackFails, Backoff, ProcessInv, PidKnown, PlaceKnown, ControlTypes, ProcType
  <2>3. PlaceKnown'
    BY <1>29 DEF RollbackFails, Backoff, ProcessInv, PidKnown, PlaceKnown, ControlTypes, Monitoring
  <2>4. TriedOnce'
    <3>1. tries' = tries /\ trial' = trial /\ pid' = pid
          /\ (json' = json \/ (json # "stable" /\ json' = "stable"))
      BY <1>29 DEF RollbackFails, Backoff, Torn
    <3>2. (pc \in Monitoring \/ rollbackPending \/ stop) =>
             (pc' \in Monitoring \/ rollbackPending' \/ stop')
      BY <1>29 DEF RollbackFails, Backoff, Monitoring
    <3> QED BY <3>1, <3>2 DEF ProcessInv, TriedOnce
  <2> QED BY <2>1, <2>2, <2>3, <2>4 DEF ProcessInv
<1>30. CASE BackoffEnds
  <2>1. ControlTypes'
    BY <1>30 DEF BackoffEnds, ProcessInv, ControlTypes, Pcs, Monitoring, ProcType
  <2>2. PidKnown'
    BY <1>30 DEF BackoffEnds, ProcessInv, PidKnown, PlaceKnown, ControlTypes, ProcType
  <2>3. PlaceKnown'
    BY <1>30 DEF BackoffEnds, ProcessInv, PidKnown, PlaceKnown, ControlTypes, Monitoring
  <2>4. TriedOnce'
    BY <1>30 DEF BackoffEnds, ProcessInv, TriedOnce, PlaceKnown, ControlTypes, Monitoring
  <2> QED BY <2>1, <2>2, <2>3, <2>4 DEF ProcessInv
<1> QED BY <1>1, <1>2, <1>3, <1>4, <1>5, <1>6, <1>7, <1>8, <1>9, <1>10, <1>11, <1>12, <1>13, <1>14, <1>15, <1>16, <1>17, <1>18, <1>19, <1>20, <1>21, <1>22, <1>23, <1>24, <1>25, <1>26, <1>27, <1>28, <1>29, <1>30 DEF Supervisor

\* An installer changes the JSON and nothing the Supervisor or LinkG's main loop
\* works with.
LEMMA InstallerFrame ==
  ASSUME Installer
  PROVE  UNCHANGED <<pc, pid, failures, trial, rollbackPending, stop, delay, sup, batch,
                     lag, pipe, ropen, proc, noise, idle, served, best>>
BY DEF Installer, AppInstalls, AppAbandons, InstallerSide

\* Exit signals, installations and the clock.
LEMMA OthersKeep == ProcessInv /\ (Signal \/ Installer \/ Tick) => ProcessInv'
<1> SUFFICES ASSUME ProcessInv, Signal \/ Installer \/ Tick PROVE ProcessInv'
  OBVIOUS
<1>1. CASE Signal
  <2>1. stop' = TRUE /\ UNCHANGED <<pc, pid, trial, json, rollbackPending, ropen, proc, tries>>
    BY <1>1 DEF Signal, supv, chan, hist
  <2>2. ControlTypes'
    BY <2>1 DEF ProcessInv, ControlTypes
  <2>3. PidKnown' /\ PlaceKnown'
    BY <2>1 DEF ProcessInv, PidKnown, PlaceKnown
  <2>4. TriedOnce'
    BY <2>1 DEF ProcessInv, TriedOnce
  <2> QED BY <2>2, <2>3, <2>4 DEF ProcessInv
<1>2. CASE Tick
  <2>1. UNCHANGED <<pc, pid, trial, json, rollbackPending, stop, ropen, tries>>
    BY <1>2 DEF Tick, supv, chan
  <2>2. proc' \in ProcType /\ proc'.st = proc.st
    <3>1. proc \in ProcType
      BY DEF ProcessInv, ControlTypes
    <3>2. RestartMin \in Nat
      BY SuperviseAssumption
    <3>3. Less(proc.due) \in Nat
      BY <3>1 DEF Less, ProcType
    <3> DEFINE aged == IF proc.phase = "restart" /\ proc.age < RestartMin
                       THEN proc.age + 1 ELSE proc.age
    <3>4. aged \in Nat
      BY <3>1, <3>2 DEF ProcType
    <3>5. proc' = [proc EXCEPT !.due = Less(proc.due), !.age = aged]
      BY <1>2, <3>1 DEF Tick, ProcType
    <3> HIDE DEF aged
    <3> QED BY <3>1, <3>3, <3>4, <3>5 DEF ProcType
  <2> QED BY <2>1, <2>2, ProcOnly
<1>3. CASE Installer
  <2>1. UNCHANGED <<pc, pid, trial, rollbackPending, stop, ropen, proc>>
    BY <1>3, InstallerFrame
  <2>2. json' \in Selections
    BY <1>3 DEF Installer, AppInstalls, AppAbandons, Selections
  <2>3. ControlTypes' /\ PidKnown' /\ PlaceKnown'
    BY <2>1, <2>2 DEF ProcessInv, ControlTypes, PidKnown, PlaceKnown
  <2>4. TriedOnce'
    <3>1. CASE AppInstalls
      <4>1. pid /\ proc.st # "none"
        BY <3>1 DEF AppInstalls, ProcessInv, PidKnown
      <4> QED BY <3>1, <2>1, <4>1 DEF AppInstalls, ProcessInv, TriedOnce
    <3>2. CASE AppAbandons
      BY <3>2, <2>1 DEF AppAbandons, ProcessInv, TriedOnce
    <3> QED BY <1>3, <3>1, <3>2 DEF Installer
  <2> QED BY <2>3, <2>4 DEF ProcessInv
<1> QED BY <1>1, <1>2, <1>3

\* The process invariant holds in every state.
THEOREM ProcessInvHolds == Spec => []ProcessInv
<1>1. ProcessInv /\ [Next]_vars => ProcessInv'
  <2>1. CASE Next
    BY <2>1, AppKeeps, SupervisorKeeps, OthersKeep DEF Next
  <2>2. CASE UNCHANGED vars
    BY <2>2, ProcOnly DEF vars, ProcessInv, ControlTypes
  <2> QED BY <2>1, <2>2
<1> QED BY <1>1, InitProcess, PTL DEF Spec

\* The Supervisor never exits with a child left over.
THEOREM ExitsAloneHolds == Spec => []ExitsAlone
<1>1. ProcessInv => ExitsAlone
  BY DEF ProcessInv, PlaceKnown, PidKnown, ExitsAlone
<1> QED BY <1>1, ProcessInvHolds, PTL

\* In the life of a Supervisor a candidate release is started at most once, and not
\* again when LinkG has installed a newer one over it.
THEOREM CandidateOnce == Spec => []CandidateRunsOnce
<1>1. ProcessInv => CandidateRunsOnce
  BY DEF ProcessInv, PlaceKnown, TriedOnce, Monitoring, CandidateRunsOnce
<1> QED BY <1>1, ProcessInvHolds, PTL

\* No process is created while an earlier one exists.
THEOREM OneChildHolds == Spec => OneChild
<1>1. ProcessInv /\ [Next]_vars =>
        [(proc'.st = "live" /\ proc.st # "live") => (proc.st = "none" /\ ~pid)]_vars
  <2> SUFFICES ASSUME ProcessInv, Next, proc'.st = "live", proc.st # "live"
               PROVE  proc.st = "none" /\ ~pid
    BY DEF vars
  <2>a. proc \in ProcType
    BY DEF ProcessInv, ControlTypes
  <2>1. CASE App
    BY <2>1, <2>a DEF App, AppReady, AppFails, AppRestarts, AppResets, AppLeaves, AppDies,
           AppHangs, AppBeats, AppWrites, Alive, ProcType
  <2>2. CASE Signal \/ Installer \/ Tick
    BY <2>2, <2>a, InstallerFrame DEF Signal, Tick, ProcType
  <2>3. CASE Supervisor
    <3>1. CASE Spawn
      BY <3>1 DEF Spawn, ProcessInv, PlaceKnown, PidKnown
    <3>2. CASE ~Spawn
      <4>1. proc' = proc \/ proc' = NoProc \/ proc' = [proc EXCEPT !.term = (proc.st = "live")]
        BY <2>3, <3>2 DEF Supervisor, LoopEnds, LoopTerminates, Prepare, PrepareFails,
             SpawnStopped, SpawnFails, MonitorStopped, MonitorReaps, MonitorExpires,
             MonitorChecks, PollIdle, PollLate, PollReads, Apply, ReadEnds, MonitorDecides,
             ConfirmStopped, ConfirmReads, ConfirmGoesOn, ConfirmFails, ConfirmCommits,
             Terminate, TerminateFails, GraceReaps, GraceKills, Stopped, Rollback,
             RollbackFails, BackoffEnds
      <4> QED BY <2>a, <4>1 DEF NoProc, ProcType
    <3> QED BY <3>1, <3>2
  <2> QED BY <2>1, <2>2, <2>3 DEF Next
<1> QED BY <1>1, ProcessInvHolds, PTL DEF Spec, OneChild

------------------------------------------------------------------------------
(* Time.  The types the clocks and messages need, and which steps of the    *)
(* Supervisor leave it watching a child.                                    *)

\* The record of a child, the clocks and the messages under way.
ChildType == [state : States, deadline : Nat, runFor : Nat, confirmIn : Nat,
              stable : BOOLEAN]
ClockTypes ==
  /\ sup \in ChildType /\ failures \in Nat /\ noise \in Nat
  /\ lag \in 0..Lag /\ idle \in Nat /\ served \in Nat /\ best \in Nat
StreamTypes == pipe \in Seq(Messages) /\ batch \in Seq(Messages)
TimeTypes == ProcessInv /\ ClockTypes /\ StreamTypes

\* The constants, one by one.
LEMMA ConstantTypes ==
  /\ StartTimeout \in Nat \ {0} /\ Heartbeat \in Nat \ {0}
  /\ RestartTimeout \in Nat \ {0} /\ StableWindow \in Nat \ {0}
  /\ TrialWindow \in Nat \ {0} /\ ConfirmRetry \in Nat \ {0}
  /\ MaxFailures \in Nat \ {0} /\ Beat \in Nat \ {0} /\ PipeCap \in Nat \ {0}
  /\ Lag \in Nat /\ RestartMin \in Nat /\ MaxNoise \in Nat
BY SuperviseAssumption

\* What one message does to the Supervisor's view of the child.
LEMMA MessageEffect ==
  ASSUME NEW c \in ChildType, NEW m \in Messages
  PROVE  /\ Message(c, m) \in ChildType
         /\ Message(c, m).runFor = c.runFor \/ Message(c, m).runFor = 0
         /\ m = "READY" /\ c.state \in {"STARTING", "RESTARTING"} =>
              /\ Message(c, m).state = "RUNNING" /\ Message(c, m).deadline = Heartbeat
              /\ Message(c, m).runFor = 0
         /\ m = "HEARTBEAT" =>
              /\ Message(c, m).state = c.state /\ Message(c, m).runFor = c.runFor
              /\ Message(c, m).deadline = BeatDeadline(c)
         /\ m = "RESTARTING" /\ c.state = "RUNNING" =>
              /\ Message(c, m).state = "RESTARTING" /\ Message(c, m).deadline = RestartTimeout
              /\ Message(c, m).runFor = c.runFor
         /\ m = "STOPPING" =>
              /\ Message(c, m).state = "STOPPING" /\ Message(c, m).deadline = StoppingDeadline(c)
              /\ Message(c, m).runFor = c.runFor
         /\ (m = "other" \/ (m = "READY" /\ c.state \in {"RUNNING", "STOPPING"})
               \/ (m = "RESTARTING" /\ c.state # "RUNNING")) => Message(c, m) = c
<1> USE ConstantTypes DEF TakesRestarting
<1>1. CASE m = "READY" /\ c.state \in {"STARTING", "RESTARTING"}
  <2>1. Message(c, m) = [c EXCEPT !.state = "RUNNING", !.deadline = Heartbeat, !.runFor = 0]
    BY <1>1 DEF Message
  <2>2. Message(c, m) \in ChildType
    <3> DEFINE d == [c EXCEPT !.state = "RUNNING", !.runFor = 0]
    <3>1. d \in ChildType
      BY DEF ChildType, States
    <3>2. Message(c, m) = [d EXCEPT !.deadline = Heartbeat]
      BY <2>1 DEF ChildType
    <3> HIDE DEF d
    <3> QED BY <3>1, <3>2 DEF ChildType
  <2>3. /\ Message(c, m).state = "RUNNING" /\ Message(c, m).deadline = Heartbeat
        /\ Message(c, m).runFor = 0
    BY <2>1 DEF ChildType
  <2> QED BY <1>1, <2>2, <2>3
<1>2. CASE m = "HEARTBEAT"
  <2>1. Message(c, m) = [c EXCEPT !.deadline = BeatDeadline(c)]
    BY <1>2 DEF Message
  <2>2. BeatDeadline(c) \in Nat
    BY DEF BeatDeadline, ChildType
  <2> QED BY <1>2, <2>1, <2>2 DEF ChildType, States
<1>3. CASE m = "RESTARTING" /\ c.state = "RUNNING"
  <2>1. Message(c, m) = [c EXCEPT !.state = "RESTARTING", !.deadline = RestartTimeout, !.stable = FALSE]
    BY <1>3 DEF Message
  <2> QED BY <1>3, <2>1 DEF ChildType, States
<1>4. CASE m = "STOPPING"
  <2>1. Message(c, m) = [c EXCEPT !.state = "STOPPING", !.deadline = StoppingDeadline(c)]
    BY <1>4 DEF Message
  <2>2. StoppingDeadline(c) \in Nat
    BY DEF StoppingDeadline, ChildType
  <2> QED BY <1>4, <2>1, <2>2 DEF ChildType, States
<1>5. CASE m = "other" \/ (m = "READY" /\ c.state \in {"RUNNING", "STOPPING"})
             \/ (m = "RESTARTING" /\ c.state # "RUNNING")
  <2>1. Message(c, m) = c
    BY <1>5 DEF Message
  <2> QED BY <1>5, <2>1 DEF ChildType, States
<1> QED BY <1>1, <1>2, <1>3, <1>4, <1>5 DEF ChildType, States, Messages

\* A step of the Supervisor that leaves it in the monitor is one of these.
MonitorStep ==
  \/ MonitorChecks \/ PollIdle \/ PollLate \/ PollReads \/ Apply \/ ReadEnds
  \/ MonitorDecides \/ ConfirmStopped \/ ConfirmReads \/ ConfirmGoesOn
  \/ ConfirmFails \/ ConfirmCommits

\* The monitor is entered by starting a child, and otherwise only left.
LEMMA MonitorSteps ==
  ASSUME Supervisor, pc' \in Monitoring
  PROVE  Spawn \/ (MonitorStep /\ pc \in Monitoring)
<1> USE DEF Monitoring, Goto
<1>1. CASE LoopEnds \/ LoopTerminates \/ Prepare \/ PrepareFails \/ SpawnStopped \/ SpawnFails
  BY <1>1 DEF LoopEnds, LoopTerminates, Prepare, PrepareFails, SpawnStopped, SpawnFails,
              MonitorEnds, Backoff
<1>2. CASE MonitorStopped \/ MonitorReaps \/ MonitorExpires
  BY <1>2 DEF MonitorStopped, MonitorReaps, MonitorExpires, MonitorEnds
<1>3. CASE Terminate \/ TerminateFails \/ GraceReaps \/ GraceKills \/ Stopped
  BY <1>3 DEF Terminate, TerminateFails, GraceReaps, GraceKills, Stopped, Backoff
<1>4. CASE Rollback \/ RollbackFails \/ BackoffEnds
  BY <1>4 DEF Rollback, RollbackFails, BackoffEnds, Backoff
<1>5. CASE MonitorStep
  <2>1. pc \in Monitoring
    BY <1>5 DEF MonitorStep, MonitorChecks, PollIdle, PollLate, PollReads, Apply, ReadEnds,
             MonitorDecides, ConfirmStopped, ConfirmReads, ConfirmGoesOn, ConfirmFails,
             ConfirmCommits, ConfirmChecked
  <2> QED BY <1>5, <2>1
<1> QED BY <1>1, <1>2, <1>3, <1>4, <1>5 DEF Supervisor, MonitorStep

\* The types hold before the first child.
LEMMA InitTimes == Init => TimeTypes
<1> SUFFICES ASSUME Init PROVE TimeTypes
  OBVIOUS
<1>1. sup \in ChildType
  BY ConstantTypes DEF Init, NewChild, ChildType, States
<1>2. ClockTypes
  BY <1>1, ConstantTypes DEF Init, ClockTypes
<1>3. StreamTypes
  BY DEF Init, StreamTypes
<1> QED BY <1>2, <1>3, InitProcess DEF TimeTypes

\* What LinkG leaves alone, and what it may do to the pipe and the histories.
LEMMA AppFrame ==
  ASSUME App
  PROVE  /\ UNCHANGED <<pc, supv, stop, delay, sup, batch, lag, ropen, idle, tries>>
         /\ pipe' = pipe \/ \E m \in Messages : SendOk /\ pipe' = Append(pipe, m)
         /\ served' = served \/ served' = 0
         /\ (\E m \in Messages : AppWrites(m)) \/ UNCHANGED <<best, noise>>
         /\ UNCHANGED <<best, noise>> \/ (best' = 0 /\ noise' = noise + 1)
<1> USE DEF AppSide, Send, Messages, supv
<1>1. CASE AppReady \/ AppRestarts
  BY <1>1 DEF AppReady, AppRestarts, Leave
<1>2. CASE AppFails \/ AppResets \/ AppLeaves
  BY <1>2 DEF AppFails, AppResets, AppLeaves, Leave
<1>3. CASE AppDies \/ AppHangs \/ AppBeats
  BY <1>3 DEF AppDies, AppHangs, AppBeats
<1>4. CASE \E m \in Messages : AppWrites(m)
  BY <1>4 DEF AppWrites
<1> QED BY <1>1, <1>2, <1>3, <1>4 DEF App

\* LinkG keeps the types.
LEMMA AppTypes == TimeTypes /\ App => TimeTypes'
<1> SUFFICES ASSUME TimeTypes, App PROVE TimeTypes'
  OBVIOUS
<1> USE AppFrame
<1>1. ProcessInv'
  BY AppKeeps DEF TimeTypes
<1>2. ClockTypes'
  BY DEF TimeTypes, ClockTypes, supv
<1>3. StreamTypes'
  BY DEF TimeTypes, StreamTypes
<1> QED BY <1>1, <1>2, <1>3 DEF TimeTypes

\* What the Supervisor's steps do to their child record.
LEMMA ChildFrame ==
  ASSUME Supervisor
  PROVE  /\ sup' = sup \/ sup' = NewChild \/ (Apply /\ sup' = Message(sup, Head(batch)))
              \/ sup' = [sup EXCEPT !.stable = @ \/ MonitorStable]
              \/ sup' = [sup EXCEPT !.confirmIn = ConfirmRetry]
         /\ lag' = lag \/ lag' = 0
         /\ failures' = failures \/ failures' = 0 \/ failures' = NextFailures
         /\ idle' = idle \/ idle' = 0
         /\ noise' = noise \/ noise' = 0
         /\ served' = served \/ served' = 0
         /\ best' = best \/ best' = 0
         /\ pipe' = pipe \/ pipe' = <<>>
         /\ batch' = batch \/ batch' = <<>> \/ batch' = pipe \/ (batch # <<>> /\ batch' = Tail(batch))
<1> USE DEF SupSide, supv, chan
<1>1. CASE LoopEnds \/ LoopTerminates \/ Prepare \/ PrepareFails \/ SpawnStopped \/ SpawnFails
  BY <1>1 DEF LoopEnds, LoopTerminates, Prepare, PrepareFails, SpawnStopped, SpawnFails,
              MonitorEnds, Backoff
<1>2. CASE MonitorStopped \/ MonitorReaps \/ MonitorExpires \/ MonitorChecks
  BY <1>2 DEF MonitorStopped, MonitorReaps, MonitorExpires, MonitorEnds, MonitorChecks
<1>3. CASE Terminate \/ TerminateFails \/ GraceReaps \/ GraceKills \/ Stopped
  BY <1>3 DEF Terminate, TerminateFails, GraceReaps, GraceKills, Stopped, Backoff
<1>4. CASE Rollback \/ RollbackFails \/ BackoffEnds \/ Spawn
  BY <1>4 DEF Rollback, RollbackFails, BackoffEnds, Backoff, Spawn
<1>5. CASE PollIdle \/ PollLate \/ PollReads \/ ReadEnds \/ MonitorDecides
  BY <1>5 DEF PollIdle, PollLate, PollReads, Read, ReadEof, ReadEnds, MonitorDecides
<1>6. CASE Apply
  BY <1>6 DEF Apply
<1>7. CASE ConfirmStopped \/ ConfirmReads \/ ConfirmGoesOn \/ ConfirmFails \/ ConfirmCommits
  BY <1>7 DEF ConfirmStopped, ConfirmReads, ConfirmGoesOn, ConfirmFails, ConfirmCommits,
              ConfirmLater, Read, ReadEof
<1> QED BY <1>1, <1>2, <1>3, <1>4, <1>5, <1>6, <1>7 DEF Supervisor

\* So does the Supervisor.
LEMMA SupervisorTypes == TimeTypes /\ Supervisor => TimeTypes'
<1> SUFFICES ASSUME TimeTypes, Supervisor PROVE TimeTypes'
  OBVIOUS
<1> USE ConstantTypes
<1>1. ProcessInv'
  BY SupervisorKeeps DEF TimeTypes
<1>2. StreamTypes'
  <2>1. pipe \in Seq(Messages) /\ batch \in Seq(Messages)
    BY DEF TimeTypes, StreamTypes
  <2>2. <<>> \in Seq(Messages) /\ (batch # <<>> => Tail(batch) \in Seq(Messages))
    BY <2>1
  <2>3. pipe' = pipe \/ pipe' = <<>>
    BY ChildFrame
  <2>4. batch' = batch \/ batch' = <<>> \/ batch' = pipe \/ (batch # <<>> /\ batch' = Tail(batch))
    BY ChildFrame
  <2> QED BY <2>1, <2>2, <2>3, <2>4 DEF StreamTypes
<1>3. sup' \in ChildType
  <2>1. sup \in ChildType
    BY DEF TimeTypes, ClockTypes
  <2>2. NewChild \in ChildType
    BY DEF NewChild, ChildType, States
  <2>3. ASSUME Apply PROVE Message(sup, Head(batch)) \in ChildType
    <3>1. Head(batch) \in Messages
      BY <2>3 DEF Apply, TimeTypes, StreamTypes
    <3> QED BY <3>1, <2>1, MessageEffect
  <2>4. [sup EXCEPT !.stable = @ \/ MonitorStable] \in ChildType
    <3>1. (sup.stable \/ MonitorStable) \in BOOLEAN
      OBVIOUS
    <3> QED BY <2>1, <3>1 DEF ChildType
  <2>5. [sup EXCEPT !.confirmIn = ConfirmRetry] \in ChildType
    BY <2>1 DEF ChildType
  <2> QED BY <2>1, <2>2, <2>3, <2>4, <2>5, ChildFrame
<1>4. failures' \in Nat
  <2>1. failures' = failures \/ failures' = 0 \/ failures' = NextFailures
    BY ChildFrame
  <2> QED BY <2>1 DEF TimeTypes, ClockTypes, NextFailures
<1>5. ClockTypes'
  <2>1. lag' \in {lag, 0} /\ idle' \in {idle, 0} /\ noise' \in {noise, 0}
        /\ served' \in {served, 0} /\ best' \in {best, 0}
    BY ChildFrame
  <2> QED BY <2>1, <1>3, <1>4 DEF TimeTypes, ClockTypes
<1> QED BY <1>1, <1>2, <1>5 DEF TimeTypes

\* What a tick does to the child record.
LEMMA TickChild ==
  ASSUME TimeTypes, Tick, pc \in Monitoring
  PROVE  /\ sup' \in ChildType /\ sup'.state = sup.state
         /\ sup'.deadline = Less(sup.deadline)
         /\ sup'.runFor = IF sup.state = "RUNNING" THEN More(sup.runFor) ELSE sup.runFor
<1> DEFINE run == IF sup.state = "RUNNING" THEN More(sup.runFor) ELSE sup.runFor
<1>1. sup \in ChildType
  BY DEF TimeTypes, ClockTypes
<1>2. Less(sup.deadline) \in Nat /\ Less(sup.confirmIn) \in Nat /\ run \in Nat
  BY <1>1, ConstantTypes DEF Less, More, Window, ChildType
<1> DEFINE d == [sup EXCEPT !.deadline = Less(@)]
           e == [d EXCEPT !.confirmIn = Less(@)]
<1>3. d \in ChildType /\ d.state = sup.state /\ d.deadline = Less(sup.deadline)
      /\ d.confirmIn = sup.confirmIn /\ d.runFor = sup.runFor
  BY <1>1, <1>2 DEF ChildType
<1>4. sup' = [e EXCEPT !.runFor = run]
  BY <1>1 DEF Tick, ChildType
<1> HIDE DEF d, run
<1>5. e \in ChildType /\ e.state = sup.state /\ e.deadline = Less(sup.deadline)
  BY <1>2, <1>3 DEF ChildType
<1> HIDE DEF e
<1>6. sup' \in ChildType /\ sup'.state = sup.state /\ sup'.deadline = Less(sup.deadline)
      /\ sup'.runFor = run
  BY <1>2, <1>4, <1>5 DEF ChildType
<1> QED BY <1>6 DEF run

\* So do signals, installations and time.
LEMMA OtherTypes == TimeTypes /\ (Signal \/ Installer \/ Tick) => TimeTypes'
<1> SUFFICES ASSUME TimeTypes, Signal \/ Installer \/ Tick PROVE TimeTypes'
  OBVIOUS
<1>1. ProcessInv'
  BY OthersKeep DEF TimeTypes
<1>2. StreamTypes'
  BY InstallerFrame DEF Signal, Tick, chan, TimeTypes, StreamTypes
<1>3. ClockTypes'
  <2>1. CASE Signal
    BY <2>1 DEF Signal, supv, chan, hist, TimeTypes, ClockTypes
  <2>3. CASE Installer
    BY <2>3, InstallerFrame DEF TimeTypes, ClockTypes
  <2>2. CASE Tick
    <3>1. sup' \in ChildType
      BY <2>2, TickChild DEF Tick, TimeTypes, ClockTypes
    <3>2. served' \in Nat /\ best' \in Nat
      BY <2>2, ConstantTypes DEF Tick, More, Window, Larger, TimeTypes, ClockTypes
    <3>3. lag' \in 0..Lag /\ idle' \in Nat
      BY <2>2, ConstantTypes DEF Tick, TimeTypes, ClockTypes
    <3>4. failures' \in Nat /\ noise' \in Nat
      BY <2>2 DEF Tick, TimeTypes, ClockTypes, supv
    <3> QED BY <3>1, <3>2, <3>3, <3>4 DEF ClockTypes
  <2> QED BY <2>1, <2>2, <2>3
<1> QED BY <1>1, <1>2, <1>3 DEF TimeTypes

\* So does every step.
LEMMA NextTypes == TimeTypes /\ [Next]_vars => TimeTypes'
<1>1. ASSUME TimeTypes, Next PROVE TimeTypes'
  BY <1>1, AppTypes, SupervisorTypes, OtherTypes DEF Next
<1>2. ASSUME TimeTypes, UNCHANGED vars PROVE TimeTypes'
  <2>1. ProcessInv'
    BY <1>2, ProcOnly DEF vars, TimeTypes, ProcessInv, ControlTypes
  <2>2. ClockTypes' /\ StreamTypes'
    BY <1>2 DEF vars, TimeTypes, ClockTypes, StreamTypes
  <2> QED BY <2>1, <2>2 DEF TimeTypes
<1> QED BY <1>1, <1>2

------------------------------------------------------------------------------
(* A child that is not RUNNING is given one window.                         *)

\* While the child is not RUNNING, the time it has taken and the time it has
\* left do not exceed the longer of the two windows; once the deadline has
\* passed the Supervisor is late by no more than its own lag.
Attempt ==
  pc \in Monitoring =>
    IF sup.state = "RUNNING" THEN idle = 0
    ELSE /\ sup.deadline > 0 => idle + sup.deadline <= Larger(StartTimeout, RestartTimeout)
         /\ idle <= Larger(StartTimeout, RestartTimeout) + lag

\* Every step keeps the child within its window.
LEMMA AttemptStep == TimeTypes /\ Attempt /\ [Next]_vars => Attempt'
<1> SUFFICES ASSUME TimeTypes, Attempt, [Next]_vars, pc' \in Monitoring
             PROVE  IF sup'.state = "RUNNING" THEN idle' = 0
                    ELSE /\ sup'.deadline > 0 => idle' + sup'.deadline <= Larger(StartTimeout, RestartTimeout)
                         /\ idle' <= Larger(StartTimeout, RestartTimeout) + lag'
  BY DEF Attempt
<1> DEFINE L == Larger(StartTimeout, RestartTimeout)
<1>a. sup \in ChildType /\ sup.deadline \in Nat /\ lag \in 0..Lag /\ idle \in Nat
  BY DEF TimeTypes, ClockTypes, ChildType
<1>b. L \in Nat /\ StartTimeout <= L /\ RestartTimeout <= L /\ Lag \in Nat
  BY ConstantTypes DEF Larger
<1> HIDE DEF L
<1>1. CASE UNCHANGED <<pc, sup, idle, lag>>
  BY <1>1 DEF Attempt, L
<1>2. CASE Spawn
  <2>1. sup'.state = "STARTING" /\ sup'.deadline = StartTimeout /\ idle' = 0 /\ lag' = 0
    BY <1>2 DEF Spawn, NewChild
  <2> QED BY <2>1, <1>b, ConstantTypes DEF L
<1>3. CASE MonitorStep /\ pc \in Monitoring
  <2>1. CASE Apply
    <3>1. Head(batch) \in Messages /\ sup' = Message(sup, Head(batch)) /\ lag' = lag
          /\ idle' = IF sup'.state = "RUNNING" THEN 0 ELSE idle
      BY <2>1 DEF Apply, TimeTypes, StreamTypes
    <3>2. CASE sup'.state = "RUNNING"
      BY <3>1, <3>2
    <3>3. CASE sup'.state # "RUNNING" /\ sup.state = "RUNNING"
      <4>1. sup'.deadline = RestartTimeout /\ idle' = 0
        BY <3>1, <3>3, <1>a, <1>3, MessageEffect DEF Messages, StoppingDeadline, Attempt
      <4> QED BY <3>1, <3>3, <4>1, <1>a, <1>b, ConstantTypes DEF L
    <3>4. CASE sup'.state # "RUNNING" /\ sup.state # "RUNNING"
      <4>1. sup'.deadline = sup.deadline /\ idle' = idle
        BY <3>1, <3>4, <1>a, <1>3, MessageEffect
           DEF Messages, StoppingDeadline, BeatDeadline, ChildType, States
      <4> QED BY <3>1, <3>4, <4>1, <1>a, <1>b, <1>3 DEF L, Attempt
    <3> QED BY <3>2, <3>3, <3>4
  <2>2. CASE ~Apply
    <3>1. sup'.state = sup.state /\ sup'.deadline = sup.deadline /\ idle' = idle
          /\ (lag' = lag \/ (lag' = 0 /\ (sup.deadline > 0 \/ sup.state = "RUNNING")))
      <4>1. CASE MonitorChecks
        BY <4>1, <1>a DEF MonitorChecks, ChildType
      <4>2. CASE PollIdle \/ PollLate \/ PollReads \/ ReadEnds \/ MonitorDecides \/ ConfirmCommits
        BY <4>2 DEF PollIdle, PollLate, PollReads, ReadEnds, MonitorDecides, ConfirmCommits
      <4>3. CASE ConfirmStopped \/ ConfirmFails
        BY <4>3, <1>a DEF ConfirmStopped, ConfirmFails, ConfirmLater, ChildType
      <4>4. CASE ConfirmReads \/ ConfirmGoesOn
        BY <4>4 DEF ConfirmReads, ConfirmGoesOn
      <4> QED BY <2>2, <1>3, <4>1, <4>2, <4>3, <4>4 DEF MonitorStep
    <3>2. CASE sup.state = "RUNNING"
      BY <3>1, <3>2, <1>3 DEF Attempt
    <3>3. CASE sup.state # "RUNNING"
      BY <3>1, <3>3, <1>a, <1>b, <1>3 DEF Attempt, L
    <3> QED BY <3>2, <3>3
  <2> QED BY <2>1, <2>2
<1>4. CASE Tick
  <2>1. pc \in Monitoring /\ pid /\ lag' = lag + 1
    BY <1>4 DEF Tick, TimeTypes, ProcessInv, PlaceKnown
  <2>2. sup'.state = sup.state /\ sup'.deadline = Less(sup.deadline)
    BY <1>4, <2>1, TickChild
  <2>3. idle' = IF sup.state # "RUNNING" THEN idle + 1 ELSE idle
    BY <1>4, <2>1 DEF Tick
  <2> QED BY <2>1, <2>2, <2>3, <1>a, <1>b DEF Attempt, Less, L
<1>5. UNCHANGED <<pc, sup, idle, lag>> \/ Spawn \/ (MonitorStep /\ pc \in Monitoring) \/ Tick
  <2>1. ASSUME App \/ Installer \/ Signal \/ UNCHANGED vars
        PROVE  UNCHANGED <<pc, sup, idle, lag>>
    BY <2>1, AppFrame, InstallerFrame DEF Signal, vars, hist
  <2> QED BY <2>1, MonitorSteps DEF Next
<1> QED BY <1>1, <1>2, <1>3, <1>4, <1>5

\* A child that is not RUNNING is not kept for longer than its window.
THEOREM AttemptAlwaysBounded == Spec => []AttemptBounded
<1>1. Init => TimeTypes /\ Attempt
  BY InitTimes DEF Init, Attempt, Monitoring
<1>2. TimeTypes /\ Attempt /\ [Next]_vars => (TimeTypes /\ Attempt)'
  BY NextTypes, AttemptStep
<1>3. TimeTypes /\ Attempt => AttemptBounded
  <2> SUFFICES ASSUME TimeTypes, Attempt, pc \in Monitoring
               PROVE  idle <= Larger(StartTimeout, RestartTimeout) + Lag
    BY DEF AttemptBounded
  <2>1. lag \in 0..Lag /\ Larger(StartTimeout, RestartTimeout) \in Nat /\ Lag \in Nat /\ idle \in Nat
    BY ConstantTypes DEF TimeTypes, ClockTypes, Larger
  <2> QED BY <2>1 DEF Attempt
<1> QED BY <1>1, <1>2, <1>3, PTL DEF Spec

------------------------------------------------------------------------------
(* What the client says and what the Supervisor knows.  From here on the    *)
(* child's messages all come from its client (noise = 0).                   *)

\* The Supervisor watches a child that speaks through its client only.
Watched == noise = 0 /\ pc \in Monitoring

\* The state a message announces, and the messages that may follow a state.
StateOf(m) == CASE m \in {"READY", "HEARTBEAT"} -> "RUNNING"
                [] m = "RESTARTING" -> "RESTARTING"
                [] OTHER -> "STOPPING"
After(s) == CASE s = "RUNNING" -> {"HEARTBEAT", "RESTARTING", "STOPPING"}
              [] s \in {"STARTING", "RESTARTING"} -> {"READY", "STOPPING"}
              [] OTHER -> {}

\* A sequence of messages that follows the protocol from state s, and the
\* state at its end.
Follows(q, s) ==
  /\ q # <<>> => q[1] \in After(s)
  /\ \A i \in 1..Len(q) : i + 1 <= Len(q) => q[i + 1] \in After(StateOf(q[i]))
EndState(q, s) == IF q = <<>> THEN s ELSE StateOf(q[Len(q)])

\* The state of the child as the Supervisor will see it.
Known == EndState(batch, sup.state)  \* when the last read is applied
Told == EndState(pipe, Known)        \* when the pipe is read too

\* Appending what the protocol allows.
LEMMA FollowsAppend ==
  ASSUME NEW q \in Seq(Messages), NEW m \in Messages, NEW s,
         Follows(q, s), m \in After(EndState(q, s))
  PROVE  Follows(Append(q, m), s) /\ EndState(Append(q, m), s) = StateOf(m)
<1> DEFINE r == Append(q, m)
<1>1. r \in Seq(Messages) /\ Len(r) = Len(q) + 1 /\ r[Len(q) + 1] = m /\ Len(q) \in Nat
  OBVIOUS
<1>2. \A i \in 1..Len(q) : r[i] = q[i]
  OBVIOUS
<1>3. q = <<>> <=> Len(q) = 0
  OBVIOUS
<1>4. r # <<>>
  BY <1>1
<1> HIDE DEF r
<1>5. r[1] \in After(s)
  <2>1. CASE q = <<>>
    BY <2>1, <1>1, <1>3 DEF EndState
  <2>2. CASE q # <<>>
    BY <2>2, <1>2, <1>3, <1>1 DEF Follows
  <2> QED BY <2>1, <2>2
<1>6. ASSUME NEW i \in 1..Len(r), i + 1 <= Len(r) PROVE r[i + 1] \in After(StateOf(r[i]))
  <2>1. CASE i = Len(q)
    BY <2>1, <1>1, <1>2, <1>3, <1>6 DEF EndState
  <2>2. CASE i # Len(q)
    <3>1. i \in 1..Len(q) /\ i + 1 \in 1..Len(q) /\ i + 1 <= Len(q)
      BY <2>2, <1>1, <1>6
    <3>2. q[i + 1] \in After(StateOf(q[i]))
      BY <3>1 DEF Follows
    <3> QED BY <3>1, <3>2, <1>2
  <2> QED BY <2>1, <2>2
<1>7. Follows(r, s)
  BY <1>5, <1>6 DEF Follows
<1>8. EndState(r, s) = StateOf(m)
  BY <1>1, <1>4 DEF EndState
<1> QED BY <1>7, <1>8 DEF r

\* Taking the first message.
LEMMA FollowsTail ==
  ASSUME NEW q \in Seq(Messages), NEW s, Follows(q, s), q # <<>>
  PROVE  /\ Head(q) \in After(s) /\ Head(q) \in Messages /\ Head(q) = q[1]
         /\ Follows(Tail(q), StateOf(Head(q)))
         /\ EndState(Tail(q), StateOf(Head(q))) = EndState(q, s)
<1> DEFINE r == Tail(q)
<1>1. r \in Seq(Messages) /\ Len(r) = Len(q) - 1 /\ Len(q) \in Nat /\ Len(q) > 0
  OBVIOUS
<1>2. \A i \in 1..Len(r) : r[i] = q[i + 1]
  OBVIOUS
<1>4. Head(q) = q[1] /\ Head(q) \in Messages
  OBVIOUS
<1> HIDE DEF r
<1>3. r = <<>> <=> Len(r) = 0
  BY <1>1
<1>5. Head(q) \in After(s)
  BY <1>4 DEF Follows
<1>6. r # <<>> => r[1] \in After(StateOf(Head(q)))
  BY <1>1, <1>2, <1>3, <1>4 DEF Follows
<1>7. ASSUME NEW i \in 1..Len(r), i + 1 <= Len(r) PROVE r[i + 1] \in After(StateOf(r[i]))
  <2>1. i + 1 \in 1..Len(q) /\ i + 1 + 1 <= Len(q) /\ i + 1 \in 1..Len(r)
    BY <1>1, <1>7
  <2>2. q[i + 1 + 1] \in After(StateOf(q[i + 1]))
    BY <2>1 DEF Follows
  <2> QED BY <2>1, <2>2, <1>2
<1>8. EndState(r, StateOf(Head(q))) = EndState(q, s)
  <2>1. CASE r = <<>>
    <3>1. Len(q) = 1
      BY <2>1, <1>1, <1>3
    <3>2. q[Len(q)] = Head(q)
      BY <3>1, <1>4
    <3> QED BY <2>1, <3>2 DEF EndState
  <2>2. CASE r # <<>>
    <3>1. Len(r) \in 1..Len(r) /\ Len(r) + 1 = Len(q)
      BY <2>2, <1>1, <1>3
    <3>2. r[Len(r)] = q[Len(q)]
      BY <3>1, <1>2
    <3> QED BY <2>2, <3>2 DEF EndState
  <2> QED BY <2>1, <2>2
<1> QED BY <1>4, <1>5, <1>6, <1>7, <1>8 DEF Follows, r

\* A message the protocol allows moves the Supervisor to the state it announces.
LEMMA MessageFollows ==
  ASSUME NEW c \in ChildType, NEW m \in After(c.state)
  PROVE  Message(c, m).state = StateOf(m) /\ m \in Messages
<1>1. m \in Messages
  BY DEF After, Messages
<1>2. CASE c.state = "RUNNING"
  BY <1>1, <1>2, MessageEffect DEF After, StateOf
<1>3. CASE c.state \in {"STARTING", "RESTARTING"}
  BY <1>1, <1>3, MessageEffect DEF After, StateOf
<1>4. CASE c.state = "STOPPING"
  BY <1>4 DEF After
<1> QED BY <1>1, <1>2, <1>3, <1>4 DEF ChildType, States

\* What each step of the client does to the process, the pipe and the histories.
Left == AppFails \/ AppLeaves \/ (AppReady /\ ~SendOk) \/ (AppRestarts /\ ~SendOk)
LEMMA ProcFields ==
  ASSUME TimeTypes
  PROVE  /\ AppReady /\ SendOk =>
              /\ pipe' = Append(pipe, "READY") /\ served' = 0
              /\ proc'.st = "live" /\ ~proc'.hung /\ proc'.wopen = proc.wopen
              /\ proc'.phase = "run" /\ proc'.running /\ proc'.due = Beat
         /\ AppRestarts /\ SendOk =>
              /\ pipe' = Append(pipe, "RESTARTING") /\ served' = 0
              /\ proc'.st = "live" /\ ~proc'.hung /\ proc'.wopen = proc.wopen
              /\ proc'.phase = "restart" /\ ~proc'.running /\ proc'.due = proc.due
              /\ proc'.age = 0
         /\ Left =>
              /\ Alive /\ proc.phase \in {"start", "run", "restart"}
              /\ pipe' = IF SendOk THEN Append(pipe, "STOPPING") ELSE pipe
              /\ proc'.st = "live" /\ ~proc'.wopen /\ served' = 0
              /\ proc'.phase = "cleanup" /\ ~proc'.running /\ proc'.due = proc.due
         /\ AppResets =>
              /\ pipe' = pipe /\ served' = served
              /\ proc'.st = "live" /\ ~proc'.hung /\ proc'.wopen = proc.wopen
              /\ proc'.phase = "start" /\ proc'.running = proc.running
              /\ proc'.due = proc.due
         /\ AppDies =>
              /\ pipe' = pipe /\ served' = 0 /\ proc'.st = "zombie"
              /\ ~proc'.running /\ ~proc'.wopen /\ proc'.due = proc.due
         /\ AppHangs =>
              /\ pipe' = pipe /\ served' = served
              /\ proc'.st = "live" /\ proc'.hung /\ proc'.wopen = proc.wopen
              /\ proc'.phase = proc.phase /\ proc'.running = proc.running
              /\ proc'.due = proc.due /\ proc'.age = proc.age
         /\ AppBeats =>
              /\ pipe' = (IF SendOk THEN Append(pipe, "HEARTBEAT") ELSE pipe)
              /\ served' = served
              /\ proc'.st = "live" /\ ~proc'.hung /\ proc'.wopen = proc.wopen
              /\ proc'.phase = proc.phase /\ proc'.running = ropen /\ proc'.due = Beat
              /\ proc'.age = proc.age
<1>a. proc \in ProcType
  BY DEF TimeTypes, ProcessInv, ControlTypes
<1> USE <1>a DEF ProcType, Alive, Send
<1>1. AppReady /\ SendOk =>
              /\ pipe' = Append(pipe, "READY") /\ served' = 0
              /\ proc'.st = "live" /\ ~proc'.hung /\ proc'.wopen = proc.wopen
              /\ proc'.phase = "run" /\ proc'.running /\ proc'.due = Beat
  BY DEF AppReady
<1>2. AppRestarts /\ SendOk =>
              /\ pipe' = Append(pipe, "RESTARTING") /\ served' = 0
              /\ proc'.st = "live" /\ ~proc'.hung /\ proc'.wopen = proc.wopen
              /\ proc'.phase = "restart" /\ ~proc'.running /\ proc'.due = proc.due
              /\ proc'.age = 0
  BY DEF AppRestarts
<1>3. Left =>
              /\ Alive /\ proc.phase \in {"start", "run", "restart"}
              /\ pipe' = IF SendOk THEN Append(pipe, "STOPPING") ELSE pipe
              /\ proc'.st = "live" /\ ~proc'.wopen /\ served' = 0
              /\ proc'.phase = "cleanup" /\ ~proc'.running /\ proc'.due = proc.due
  <2>1. Left => Leave /\ Alive /\ proc.phase \in {"start", "run", "restart"}
    BY DEF Left, AppFails, AppLeaves, AppReady, AppRestarts
  <2>2. Leave /\ Alive =>
              /\ pipe' = IF SendOk THEN Append(pipe, "STOPPING") ELSE pipe
              /\ proc'.st = "live" /\ ~proc'.wopen /\ served' = 0
              /\ proc'.phase = "cleanup" /\ ~proc'.running /\ proc'.due = proc.due
    BY DEF Leave
  <2> QED BY <2>1, <2>2
<1>4. AppResets =>
              /\ pipe' = pipe /\ served' = served
              /\ proc'.st = "live" /\ ~proc'.hung /\ proc'.wopen = proc.wopen
              /\ proc'.phase = "start" /\ proc'.running = proc.running
              /\ proc'.due = proc.due
  BY DEF AppResets
<1>5. AppDies =>
              /\ pipe' = pipe /\ served' = 0 /\ proc'.st = "zombie"
              /\ ~proc'.running /\ ~proc'.wopen /\ proc'.due = proc.due
  BY DEF AppDies
<1>6. AppHangs =>
              /\ pipe' = pipe /\ served' = served
              /\ proc'.st = "live" /\ proc'.hung /\ proc'.wopen = proc.wopen
              /\ proc'.phase = proc.phase /\ proc'.running = proc.running
              /\ proc'.due = proc.due /\ proc'.age = proc.age
  BY DEF AppHangs
<1>7. AppBeats =>
              /\ pipe' = (IF SendOk THEN Append(pipe, "HEARTBEAT") ELSE pipe)
              /\ served' = served
              /\ proc'.st = "live" /\ ~proc'.hung /\ proc'.wopen = proc.wopen
              /\ proc'.phase = proc.phase /\ proc'.running = ropen /\ proc'.due = Beat
              /\ proc'.age = proc.age
  BY DEF AppBeats
<1> HIDE DEF ProcType, Alive, Send
<1> QED BY <1>1, <1>2, <1>3, <1>4, <1>5, <1>6, <1>7

\* A step of LinkG that leaves the stream free of noise is one of these.
LEMMA CleanApp ==
  ASSUME TimeTypes, App, noise' = 0
  PROVE  /\ (AppReady /\ SendOk) \/ (AppRestarts /\ SendOk) \/ Left \/ AppResets
              \/ AppDies \/ AppHangs \/ AppBeats
         /\ UNCHANGED <<pc, sup, batch, lag, ropen, idle, best, noise>>
<1>1. ~(\E m \in Messages : AppWrites(m))
  BY DEF AppWrites, TimeTypes, ClockTypes
<1>2. (AppReady /\ SendOk) \/ (AppRestarts /\ SendOk) \/ Left \/ AppResets
              \/ AppDies \/ AppHangs \/ AppBeats
  BY <1>1 DEF App, Left
<1> QED BY <1>1, <1>2, AppFrame

\* The messages under way follow the protocol, end of file is expected after
\* STOPPING only, and the phase of a live process is the one it announced.
Protocol ==
  /\ batch # <<>> => pc \in {"read", "cread"}
  /\ Follows(batch, sup.state) /\ Follows(pipe, Known)
  /\ ~ropen => pipe = <<>> /\ sup.state = "STOPPING"
PhaseTold ==
  /\ proc.st = "live" =>
       /\ proc.phase = "run" => Told = "RUNNING" /\ proc.running
       /\ proc.phase = "start" => Told \in {"STARTING", "RESTARTING"}
       /\ proc.phase = "restart" => Told = "RESTARTING"
       /\ proc.wopen <=> proc.phase # "cleanup"
  /\ proc.running => proc.st = "live" /\ proc.phase = "run"
  /\ proc.due <= Beat
Talk == Watched => Protocol /\ PhaseTold

\* The client sends what the protocol allows.
LEMMA Push ==
  ASSUME TimeTypes, Protocol, NEW m \in After(Told), m \in Messages,
         pipe' = Append(pipe, m), UNCHANGED <<batch, sup>>
  PROVE  Follows(pipe', Known') /\ Told' = StateOf(m) /\ Known' = Known
<1>1. Known' = Known
  BY DEF Known
<1>2. pipe \in Seq(Messages) /\ Follows(pipe, Known) /\ m \in After(EndState(pipe, Known))
  BY DEF TimeTypes, StreamTypes, Protocol, Told
<1>3. Follows(pipe', Known) /\ EndState(pipe', Known) = StateOf(m)
  BY <1>2, FollowsAppend
<1> QED BY <1>1, <1>3 DEF Told

\* LinkG keeps to the protocol.
LEMMA TalkApp ==
  ASSUME TimeTypes, Watched, Protocol, PhaseTold, App, noise' = 0
  PROVE  Protocol' /\ PhaseTold'
<1>1. UNCHANGED <<pc, sup, batch, lag, ropen, idle, best, noise>>
  BY CleanApp
<1>2. Known' = Known
  BY <1>1 DEF Known
<1>3. ASSUME NEW m \in After(Told), m \in Messages, pipe' = Append(pipe, m), SendOk
      PROVE  Protocol' /\ Told' = StateOf(m)
  BY <1>1, <1>3, Push DEF Protocol, SendOk
<1>4. ASSUME pipe' = pipe
      PROVE  Protocol' /\ Told' = Told
  BY <1>1, <1>2, <1>4 DEF Protocol, Told
<1>b. Beat \in Nat
  BY ConstantTypes
<1>5. CASE AppReady /\ SendOk
  <2>1. proc.st = "live" /\ proc.phase = "start"
    BY <1>5 DEF AppReady, Alive
  <2>2. "READY" \in After(Told) /\ "READY" \in Messages /\ StateOf("READY") = "RUNNING"
    BY <2>1 DEF PhaseTold, After, Messages, StateOf
  <2>3. Protocol' /\ Told' = "RUNNING"
    BY <2>2, <1>3, <1>5, ProcFields
  <2> QED BY <2>1, <2>3, <1>5, <1>b, ProcFields DEF PhaseTold
<1>6. CASE AppRestarts /\ SendOk
  <2>1. proc.st = "live" /\ proc.phase = "run"
    BY <1>6 DEF AppRestarts, Alive
  <2>2. "RESTARTING" \in After(Told) /\ "RESTARTING" \in Messages /\ StateOf("RESTARTING") = "RESTARTING"
    BY <2>1 DEF PhaseTold, After, Messages, StateOf
  <2>3. Protocol' /\ Told' = "RESTARTING"
    BY <2>2, <1>3, <1>6, ProcFields
  <2> QED BY <2>1, <2>3, <1>6, ProcFields DEF PhaseTold
<1>7. CASE Left
  <2>1. proc.st = "live" /\ proc.phase \in {"start", "run", "restart"}
    BY <1>7, ProcFields DEF Alive
  <2>2. "STOPPING" \in After(Told) /\ "STOPPING" \in Messages
    BY <2>1 DEF PhaseTold, After, Messages
  <2>3. Protocol'
    BY <2>2, <1>3, <1>4, <1>7, ProcFields
  <2> QED BY <2>1, <2>3, <1>7, ProcFields DEF PhaseTold
<1>8. CASE AppResets
  <2>1. proc.st = "live" /\ proc.phase = "restart"
    BY <1>8 DEF AppResets, Alive
  <2>2. Protocol' /\ Told' = Told
    BY <1>4, <1>8, ProcFields
  <2> QED BY <2>1, <2>2, <1>8, ProcFields DEF PhaseTold
<1>9. CASE AppDies
  <2>2. Protocol' /\ Told' = Told
    BY <1>4, <1>9, ProcFields
  <2> QED BY <2>2, <1>9, ProcFields DEF PhaseTold
<1>10. CASE AppHangs
  <2>2. Protocol' /\ Told' = Told
    BY <1>4, <1>10, ProcFields
  <2> QED BY <2>2, <1>10, ProcFields DEF PhaseTold, AppHangs, Alive
<1>11. CASE AppBeats
  <2>1. proc.st = "live" /\ proc.phase = "run" /\ Told = "RUNNING"
    BY <1>11 DEF AppBeats, Alive, PhaseTold
  <2>2. ropen
    <3> SUFFICES ASSUME ~ropen PROVE FALSE
      OBVIOUS
    <3>1. pipe = <<>> /\ sup.state = "STOPPING"
      BY DEF Protocol
    <3>2. batch = <<>>
      BY <3>1 DEF Protocol, Follows, After
    <3> QED BY <3>1, <3>2, <2>1 DEF Told, Known, EndState
  <2>3. "HEARTBEAT" \in After(Told) /\ "HEARTBEAT" \in Messages /\ StateOf("HEARTBEAT") = "RUNNING"
    BY <2>1 DEF After, Messages, StateOf
  <2>4. Protocol' /\ Told' = "RUNNING"
    BY <2>1, <2>3, <1>3, <1>4, <1>11, ProcFields
  <2>5. /\ proc'.st = "live" /\ proc'.phase = "run" /\ proc'.running /\ proc'.due = Beat
        /\ proc'.wopen = proc.wopen
    BY <2>1, <2>2, <1>11, ProcFields
  <2>6. proc.wopen
    BY <2>1 DEF PhaseTold
  <2> QED BY <2>4, <2>5, <2>6, <1>b DEF PhaseTold
<1> QED BY CleanApp, <1>5, <1>6, <1>7, <1>8, <1>9, <1>10, <1>11

\* What the monitor's steps other than a read and a message leave alone.
LEMMA MonitorFrame ==
  ASSUME TimeTypes, MonitorStep, pc' \in Monitoring
  PROVE  /\ UNCHANGED <<proc, noise, served, best>>
         /\ Apply \/ (sup'.state = sup.state /\ sup'.deadline = sup.deadline
                        /\ sup'.runFor = sup.runFor)
         /\ Apply \/ PollReads \/ ConfirmReads \/ UNCHANGED <<pipe, ropen, batch>>
         /\ ~Apply => idle' = idle
<1> USE DEF SupSide, chan
<1>a. sup \in ChildType
  BY DEF TimeTypes, ClockTypes
<1>1. CASE MonitorChecks
  BY <1>1, <1>a DEF MonitorChecks, ChildType
<1>2. CASE PollIdle \/ PollLate \/ PollReads \/ ReadEnds \/ MonitorDecides \/ ConfirmCommits
  BY <1>2 DEF PollIdle, PollLate, PollReads, ReadEnds, MonitorDecides, ConfirmCommits
<1>3. CASE ConfirmStopped \/ ConfirmFails
  BY <1>3, <1>a DEF ConfirmStopped, ConfirmFails, ConfirmLater, ChildType
<1>4. CASE ConfirmReads \/ ConfirmGoesOn
  BY <1>4 DEF ConfirmReads, ConfirmGoesOn
<1>5. CASE Apply
  BY <1>5 DEF Apply
<1> QED BY <1>1, <1>2, <1>3, <1>4, <1>5 DEF MonitorStep

\* A read hands the whole pipe to the batch.
LEMMA ReadMoves ==
  ASSUME TimeTypes, Protocol, pc \in {"poll", "confirm"}, NEW p, Read(p), sup'.state = sup.state
  PROVE  /\ batch = <<>> /\ Known = sup.state
         /\ Follows(batch', sup'.state) /\ Follows(pipe', Known')
         /\ Known' = Told /\ Told' = Told
<1>1. batch = <<>> /\ Known = sup.state
  BY DEF Protocol, Known, EndState
<1>2. batch' = pipe /\ pipe' = <<>> /\ pipe # <<>>
  BY DEF Read
<1>3. Follows(pipe, sup.state) /\ Told = EndState(pipe, sup.state)
  BY <1>1 DEF Protocol, Told
<1>4. Known' = Told
  BY <1>2, <1>3 DEF Known
<1>5. Told' = Known'
  BY <1>2 DEF Told, EndState
<1>6. Follows(pipe', Known')
  BY <1>2 DEF Follows
<1> QED BY <1>1, <1>2, <1>3, <1>4, <1>5, <1>6

\* One message of the batch is applied.
LEMMA ApplyMoves ==
  ASSUME TimeTypes, Protocol, Apply
  PROVE  /\ Head(batch) \in After(sup.state) /\ Head(batch) \in Messages
         /\ sup'.state = StateOf(Head(batch)) /\ Head(batch) = batch[1]
         /\ Follows(batch', sup'.state) /\ Follows(pipe', Known')
         /\ Known' = Known /\ Told' = Told /\ pc' = pc
<1>1. batch \in Seq(Messages) /\ batch # <<>> /\ Follows(batch, sup.state) /\ batch' = Tail(batch)
      /\ sup \in ChildType /\ sup' = Message(sup, Head(batch)) /\ pipe' = pipe
  BY DEF Apply, TimeTypes, StreamTypes, ClockTypes, Protocol
<1>2. /\ Head(batch) \in After(sup.state) /\ Head(batch) \in Messages /\ Head(batch) = batch[1]
      /\ Follows(batch', StateOf(Head(batch)))
      /\ EndState(batch', StateOf(Head(batch))) = EndState(batch, sup.state)
  BY <1>1, FollowsTail
<1>3. sup'.state = StateOf(Head(batch))
  BY <1>1, <1>2, MessageFollows
<1>4. Known' = Known
  BY <1>2, <1>3 DEF Known
<1>5. Told' = Told /\ Follows(pipe', Known')
  BY <1>1, <1>4 DEF Told, Protocol
<1>6. Head(batch) # "other"
  BY <1>2 DEF After
<1>7. pc' = pc
  BY <1>6 DEF Apply
<1> QED BY <1>2, <1>3, <1>4, <1>5, <1>7

\* Reading and applying messages loses none and reorders none.
LEMMA TalkMonitor ==
  ASSUME TimeTypes, Watched, Protocol, PhaseTold, MonitorStep, pc' \in Monitoring
  PROVE  Protocol' /\ PhaseTold'
<1>1. UNCHANGED proc
  BY MonitorFrame
<1>2. Protocol' /\ Told' = Told
  <2>1. CASE Apply
    BY <2>1, ApplyMoves DEF Apply, Protocol, After
  <2>2. CASE PollReads
    <3>1. sup' = sup /\ pc = "poll" /\ (Read("read") \/ ReadEof("decide"))
      BY <2>2 DEF PollReads
    <3>2. CASE Read("read")
      BY <3>1, <3>2, ReadMoves DEF Read, Goto, Protocol
    <3>3. CASE ReadEof("decide")
      <4>1. sup.state = "STOPPING" /\ pipe' = <<>> /\ batch' = batch /\ pipe = <<>>
        BY <3>3 DEF ReadEof, MonitorEnds, Goto, Monitoring
      <4>2. batch = <<>>
        BY <3>1 DEF Protocol
      <4> QED BY <3>1, <4>1, <4>2 DEF Protocol, Follows, Told, Known, EndState
    <3> QED BY <3>1, <3>2, <3>3
  <2>3. CASE ConfirmReads
    <3>1. sup' = sup /\ pc = "confirm" /\ (Read("cread") \/ ReadEof("cread"))
      BY <2>3 DEF ConfirmReads
    <3>2. CASE Read("cread")
      BY <3>1, <3>2, ReadMoves DEF Read, Goto, Protocol
    <3>3. CASE ReadEof("cread")
      <4>1. sup.state = "STOPPING" /\ pipe' = <<>> /\ batch' = batch /\ pipe = <<>>
        BY <3>3 DEF ReadEof, MonitorEnds, Goto, Monitoring
      <4>2. batch = <<>>
        BY <3>1 DEF Protocol
      <4> QED BY <3>1, <4>1, <4>2 DEF Protocol, Follows, Told, Known, EndState
    <3> QED BY <3>1, <3>2, <3>3
  <2>4. CASE ~Apply /\ ~PollReads /\ ~ConfirmReads
    <3>1. UNCHANGED <<pipe, ropen, batch>> /\ sup'.state = sup.state
      BY <2>4, MonitorFrame
    <3>2. batch = <<>>
      <4>1. CASE pc \in {"read", "cread"}
        BY <2>4, <4>1 DEF MonitorStep, MonitorChecks, PollIdle, PollLate, ReadEnds,
             MonitorDecides, ConfirmStopped, ConfirmGoesOn, ConfirmFails, ConfirmCommits,
             ConfirmChecked
      <4> QED BY <4>1 DEF Protocol
    <3> QED BY <3>1, <3>2 DEF Protocol, Told, Known
  <2> QED BY <2>1, <2>2, <2>3, <2>4
<1> QED BY <1>1, <1>2 DEF PhaseTold

\* What a tick does to the process.
LEMMA TickProc ==
  ASSUME TimeTypes, Tick
  PROVE  /\ proc'.st = proc.st /\ proc'.phase = proc.phase /\ proc'.running = proc.running
         /\ proc'.hung = proc.hung /\ proc'.wopen = proc.wopen
         /\ proc'.due = Less(proc.due)
         /\ proc'.age = IF proc.phase = "restart" /\ proc.age < RestartMin
                        THEN proc.age + 1 ELSE proc.age
<1>1. proc \in ProcType
  BY DEF TimeTypes, ProcessInv, ControlTypes
<1> DEFINE aged == IF proc.phase = "restart" /\ proc.age < RestartMin
                   THEN proc.age + 1 ELSE proc.age
<1>2. proc' = [proc EXCEPT !.due = Less(proc.due), !.age = aged]
  BY <1>1 DEF Tick, ProcType
<1> HIDE DEF aged
<1>3. /\ proc'.st = proc.st /\ proc'.phase = proc.phase /\ proc'.running = proc.running
      /\ proc'.hung = proc.hung /\ proc'.wopen = proc.wopen
      /\ proc'.due = Less(proc.due) /\ proc'.age = aged
  BY <1>1, <1>2 DEF ProcType
<1> QED BY <1>3 DEF aged

\* Every step keeps to the protocol.
LEMMA TalkStep == TimeTypes /\ Talk /\ [Next]_vars => Talk'
<1> SUFFICES ASSUME TimeTypes, Talk, [Next]_vars, Watched' PROVE Protocol' /\ PhaseTold'
  BY DEF Talk
<1>a. proc.due \in Nat /\ Beat \in Nat
  BY ConstantTypes DEF TimeTypes, ProcessInv, ControlTypes, ProcType
<1>1. CASE App
  <2>1. noise' = 0 /\ Watched
    BY <1>1, CleanApp DEF Watched
  <2> QED BY <2>1, <1>1, TalkApp DEF Talk
<1>2. CASE Supervisor
  <2>1. CASE Spawn
    <3>1. /\ sup'.state = "STARTING" /\ pipe' = <<>> /\ batch' = <<>> /\ ropen'
          /\ proc'.st = "live" /\ proc'.phase = "start" /\ ~proc'.running /\ proc'.wopen
          /\ proc'.due = 0
      BY <2>1 DEF Spawn, NewChild, NoProc
    <3>2. Known' = "STARTING" /\ Told' = "STARTING"
      BY <3>1 DEF Known, Told, EndState
    <3>3. Protocol'
      BY <3>1 DEF Protocol, Follows
    <3> QED BY <3>1, <3>2, <3>3, <1>a DEF PhaseTold
  <2>2. CASE MonitorStep /\ pc \in Monitoring
    <3>1. Watched
      BY <2>2, MonitorFrame DEF Watched
    <3> QED BY <2>2, <3>1, TalkMonitor DEF Talk, Watched
  <2> QED BY <2>1, <2>2, <1>2, MonitorSteps DEF Watched
<1>3. CASE Signal \/ Installer \/ Tick \/ UNCHANGED vars
  <2>1. UNCHANGED <<pc, noise, pipe, batch, ropen>> /\ sup'.state = sup.state
    <3>1. CASE Tick
      BY <3>1, TickChild DEF Tick, chan, Watched
    <3>2. CASE Signal \/ Installer \/ UNCHANGED vars
      BY <3>2, InstallerFrame DEF Signal, vars, chan
    <3> QED BY <3>1, <3>2, <1>3
  <2>2. Watched /\ Protocol /\ PhaseTold
    BY <2>1 DEF Watched, Talk
  <2>3. Protocol' /\ Told' = Told
    BY <2>1, <2>2 DEF Protocol, Told, Known
  <2>4. CASE Tick
    BY <2>4, <2>2, <2>3, <1>a, TickProc DEF PhaseTold, Less
  <2>5. CASE Signal \/ Installer \/ UNCHANGED vars
    BY <2>5, <2>2, <2>3, InstallerFrame DEF Signal, vars, PhaseTold
  <2> QED BY <1>3, <2>3, <2>4, <2>5
<1> QED BY <1>1, <1>2, <1>3 DEF Next

------------------------------------------------------------------------------
(* A child that beats keeps its heartbeat window.                           *)

\* The heartbeat window outlasts a beat and two late looks of the Supervisor
\* (4000 ms against 1000 ms and twice the 100 ms of its poll).
Punctual == Heartbeat > Beat + 2 * Lag

\* How long the oldest message under way may have been waiting.
Slack == IF pc = "poll" \/ (pc \in {"read", "cread"} /\ batch # <<>>) THEN Lag + lag ELSE lag

\* With nothing under way the window has not lost more than the time since the
\* last beat; with something under way, no more than a beat and that waiting.
Prompt ==
  Watched /\ sup.state = "RUNNING" =>
    /\ batch = <<>> /\ pipe = <<>> /\ Alive /\ proc.running
         => sup.deadline + Beat >= Heartbeat + proc.due
    /\ batch # <<>> \/ pipe # <<>> => sup.deadline + Beat + Slack >= Heartbeat

\* The numbers of the proofs about time.
LEMMA Numbers ==
  ASSUME TimeTypes
  PROVE  /\ sup.deadline \in Nat /\ sup.runFor \in Nat /\ lag \in Nat /\ lag <= Lag
         /\ Lag \in Nat /\ Beat \in Nat /\ Beat > 0 /\ Heartbeat \in Nat /\ proc.due \in Nat
         /\ proc.age \in Nat /\ served \in Nat /\ best \in Nat
         /\ Slack \in Nat /\ Slack >= lag /\ Slack <= Lag + lag
BY ConstantTypes DEF TimeTypes, ClockTypes, ChildType, ProcessInv, ControlTypes, ProcType, Slack

\* LinkG beats in time.
LEMMA PromptApp ==
  ASSUME TimeTypes, Talk, Prompt, App, Watched', sup'.state = "RUNNING"
  PROVE  /\ batch' = <<>> /\ pipe' = <<>> /\ Alive' /\ proc'.running
              => sup'.deadline + Beat >= Heartbeat + proc'.due
         /\ batch' # <<>> \/ pipe' # <<>> => sup'.deadline + Beat + Slack' >= Heartbeat
<1> USE Numbers
<1>1. noise' = 0 /\ UNCHANGED <<pc, sup, batch, lag, ropen>>
  BY CleanApp DEF Watched
<1>2. Watched /\ sup.state = "RUNNING" /\ Protocol /\ PhaseTold /\ Slack' = Slack
  BY <1>1, CleanApp DEF Watched, Talk, Slack
<1>3. pipe \in Seq(Messages)
  BY DEF TimeTypes, StreamTypes
<1>4. CASE batch # <<>> \/ pipe # <<>>
  BY <1>1, <1>2, <1>4, <1>3, AppFrame DEF Prompt
<1>5. CASE batch = <<>> /\ pipe = <<>>
  <2>1. Told = "RUNNING"
    BY <1>2, <1>5 DEF Told, Known, EndState
  <2>2. CASE pipe' = pipe
    <3>1. CASE Alive' /\ proc'.running
      <4>1. Alive /\ proc.running /\ proc'.due = proc.due
        <5>1. AppHangs \/ AppDies \/ Left \/ AppResets => ~(Alive' /\ proc'.running)
          BY <1>2, ProcFields DEF Alive, PhaseTold, AppResets
        <5>2. ~(AppBeats \/ (AppReady /\ SendOk) \/ (AppRestarts /\ SendOk))
          <6>1. AppBeats => SendOk
            BY <1>5, <1>2, ConstantTypes DEF SendOk, Protocol
          <6> QED BY <6>1, <2>2, <1>3, <1>5, ProcFields
        <5> QED BY <1>1, <3>1, <5>1, <5>2, CleanApp
      <4> QED BY <1>1, <1>2, <1>5, <2>2, <4>1 DEF Prompt
    <3>2. CASE ~(Alive' /\ proc'.running)
      BY <3>2, <1>1, <1>5, <2>2
    <3> QED BY <3>1, <3>2
  <2>3. CASE pipe' # pipe
    <3>1. Alive /\ proc.running
      <4>1. ~AppResets /\ ~AppDies /\ ~AppHangs
        BY <2>3, ProcFields
      <4>2. Alive /\ proc.phase # "cleanup"
        <5>1. Left => Alive /\ proc.phase # "cleanup"
          BY ProcFields
        <5>2. AppReady \/ AppRestarts \/ AppBeats => Alive /\ proc.phase # "cleanup"
          BY <1>2 DEF AppReady, AppRestarts, AppBeats, PhaseTold
        <5> QED BY <4>1, <5>1, <5>2, <1>1, CleanApp
      <4> QED BY <4>2, <2>1, <1>2 DEF PhaseTold, Alive, TimeTypes, ProcessInv, ControlTypes, ProcType
    <3>2. sup.deadline + Beat >= Heartbeat + proc.due
      BY <3>1, <1>2, <1>5 DEF Prompt
    <3>3. pipe' # <<>>
      BY <2>3, <1>5
    <3> QED BY <3>2, <3>3, <1>1, <1>2, SMTT(30)
  <2> QED BY <2>2, <2>3
<1> QED BY <1>4, <1>5

\* A message that is read renews the deadline.
LEMMA PromptMonitor ==
  ASSUME Punctual, TimeTypes, Talk, Prompt, MonitorStep, pc \in Monitoring, Watched',
         sup'.state = "RUNNING"
  PROVE  /\ batch' = <<>> /\ pipe' = <<>> /\ Alive' /\ proc'.running
              => sup'.deadline + Beat >= Heartbeat + proc'.due
         /\ batch' # <<>> \/ pipe' # <<>> => sup'.deadline + Beat + Slack' >= Heartbeat
<1> USE Numbers
<1>1. UNCHANGED <<proc, noise>> /\ pc' \in Monitoring
  BY MonitorFrame DEF Watched
<1>2. Watched /\ Protocol /\ PhaseTold
  BY <1>1 DEF Watched, Talk
<1>3. Slack' \in Nat
  BY NextTypes, Numbers, SMTT(30) DEF Slack, TimeTypes, ClockTypes, Next, Supervisor, MonitorStep
<1>4. CASE Apply
  <2>1. sup'.deadline = Heartbeat
    <3>1. Head(batch) \in After(sup.state) /\ Head(batch) \in Messages
          /\ StateOf(Head(batch)) = "RUNNING" /\ sup' = Message(sup, Head(batch))
      BY <1>2, <1>4, ApplyMoves DEF Apply
    <3>2. sup \in ChildType
      BY DEF TimeTypes, ClockTypes
    <3>3. CASE Head(batch) = "READY"
      BY <3>1, <3>2, <3>3, MessageEffect DEF After, ChildType, States
    <3>4. CASE Head(batch) = "HEARTBEAT"
      BY <3>1, <3>2, <3>4, MessageEffect DEF After, ChildType, States, BeatDeadline
    <3> QED BY <3>1, <3>3, <3>4 DEF StateOf, Messages
  <2>2. proc'.due <= Beat
    BY <1>1, <1>2 DEF PhaseTold
  <2> QED BY <2>1, <2>2, <1>1, <1>3, SMTT(30)
<1>5. CASE ~Apply
  <2>1. sup'.state = sup.state /\ sup'.deadline = sup.deadline /\ sup.state = "RUNNING"
    BY <1>1, <1>5, MonitorFrame
  <2>2. ropen
    BY <2>1, <1>2 DEF Protocol
  <2>3. CASE PollReads \/ ConfirmReads
    <3>1. /\ pipe # <<>> /\ batch' = pipe /\ pipe' = <<>> /\ pc \in {"poll", "confirm"}
          /\ pc' \in {"read", "cread"} /\ ((pc = "confirm" /\ lag' = 0) \/ (pc = "poll" /\ lag' = lag))
      BY <2>3, <2>1, <1>1 DEF PollReads, ConfirmReads, Read, ReadEof, MonitorEnds, Goto, Monitoring
    <3>2. Slack' = Lag + lag' /\ sup.deadline + Beat + Slack >= Heartbeat
      BY <3>1, <2>1, <1>2 DEF Slack, Prompt
    <3>3. Slack <= Slack'
      BY <3>1, <3>2 DEF Slack
    <3> QED BY <3>1, <3>2, <3>3, <2>1
  <2>4. CASE ~PollReads /\ ~ConfirmReads
    <3>1. UNCHANGED <<pipe, batch>>
      BY <2>4, <1>1, <1>5, MonitorFrame
    <3>2. CASE batch = <<>> /\ pipe = <<>>
      BY <3>1, <3>2, <2>1, <1>1, <1>2 DEF Prompt, Alive
    <3>3. CASE batch # <<>> \/ pipe # <<>>
      <4>1. batch = <<>>
        BY <1>2, <1>5, <2>4 DEF Protocol, MonitorStep, MonitorChecks, PollIdle, PollLate, ReadEnds,
             MonitorDecides, ConfirmStopped, ConfirmGoesOn, ConfirmFails, ConfirmCommits,
             ConfirmChecked
      <4>2. pipe # <<>> /\ Readable
        BY <3>3, <4>1, <2>2 DEF Readable
      <4>3. sup.deadline + Beat + Slack >= Heartbeat
        BY <3>3, <2>1, <1>2 DEF Prompt
      <4>4. sup.deadline > 0
        BY <4>3 DEF Punctual
      <4>5. Slack <= Slack'
        <5>1. CASE MonitorChecks
          BY <5>1, <4>1 DEF MonitorChecks, Slack, Goto
        <5>2. CASE ReadEnds \/ MonitorDecides \/ ConfirmStopped \/ ConfirmFails \/ ConfirmCommits
          BY <5>2, <4>1, <3>1 DEF ReadEnds, MonitorDecides, ConfirmStopped, ConfirmFails,
               ConfirmCommits, ConfirmLater, ConfirmChecked, Slack, Goto
        <5>3. ~PollIdle /\ ~PollLate
          BY <4>2, <4>4 DEF PollIdle, PollLate
        <5>4. CASE ConfirmGoesOn
          BY <5>4, <4>1, <4>2, <3>1 DEF ConfirmGoesOn, ConfirmChecked, Slack
        <5> QED BY <5>1, <5>2, <5>3, <5>4, <1>5, <2>4 DEF MonitorStep
      <4> QED BY <4>1, <4>2, <4>3, <4>5, <3>1, <2>1, <1>3
    <3> QED BY <3>2, <3>3
  <2> QED BY <2>3, <2>4
<1> QED BY <1>4, <1>5

\* Every step leaves the deadline of a child that beats in time.
LEMMA PromptStep ==
  ASSUME Punctual
  PROVE  TimeTypes /\ Talk /\ Prompt /\ [Next]_vars => Prompt'
<1> SUFFICES ASSUME TimeTypes, Talk, Prompt, [Next]_vars, Watched', sup'.state = "RUNNING"
             PROVE  /\ batch' = <<>> /\ pipe' = <<>> /\ Alive' /\ proc'.running
                         => sup'.deadline + Beat >= Heartbeat + proc'.due
                    /\ batch' # <<>> \/ pipe' # <<>> => sup'.deadline + Beat + Slack' >= Heartbeat
  BY DEF Prompt
<1>1. CASE App
  BY <1>1, PromptApp
<1>2. CASE Supervisor
  <2>1. ~Spawn
    BY DEF Spawn, NewChild
  <2> QED BY <1>2, <2>1, MonitorSteps, PromptMonitor DEF Watched
<1>3. CASE Tick
  <2>1. Watched /\ UNCHANGED <<pc, pipe, batch>> /\ lag' = lag + 1
    BY <1>3 DEF Tick, Watched, chan
  <2>2. sup.state = "RUNNING" /\ sup'.deadline = Less(sup.deadline)
    BY <1>3, <2>1, TickChild DEF Watched
  <2>3. Slack' = Slack + 1
    BY <2>1, Numbers DEF Slack
  <2>4. ASSUME Alive', proc'.running
        PROVE  Alive /\ proc.running /\ proc.due > 0 /\ proc'.due = proc.due - 1
    <3>1. Alive /\ proc.running /\ proc'.due = Less(proc.due)
      BY <1>3, <2>4, TickProc DEF Alive
    <3>2. proc.due # 0
      BY <1>3, <3>1 DEF Tick
    <3> QED BY <3>1, <3>2, Numbers DEF Less
  <2>5. ASSUME batch' = <<>>, pipe' = <<>>, Alive', proc'.running
        PROVE  sup'.deadline + Beat >= Heartbeat + proc'.due
    <3>1. sup.deadline + Beat >= Heartbeat + proc.due
      BY <2>1, <2>2, <2>4, <2>5 DEF Prompt
    <3>2. proc.due > 0 /\ proc'.due = proc.due - 1
      BY <2>4, <2>5
    <3>3. sup.deadline > 0
      BY <3>1, <3>2, Numbers DEF Punctual
    <3>4. sup'.deadline = sup.deadline - 1
      BY <2>2, <3>3, Numbers DEF Less
    <3> QED BY <3>1, <3>2, <3>4, Numbers
  <2>6. ASSUME batch' # <<>> \/ pipe' # <<>>
        PROVE  sup'.deadline + Beat + Slack' >= Heartbeat
    <3>1. sup.deadline + Beat + Slack >= Heartbeat
      BY <2>1, <2>2, <2>6 DEF Prompt
    <3> QED BY <3>1, <2>2, <2>3, Numbers DEF Less
  <2> QED BY <2>5, <2>6
<1>4. CASE Signal \/ Installer \/ UNCHANGED vars
  BY <1>4, InstallerFrame DEF Signal, vars, chan, Prompt, Watched, Alive, Slack
<1> QED BY <1>1, <1>2, <1>3, <1>4 DEF Next

\* A child that serves and beats is never timed out, as long as its window
\* outlasts a beat and two late looks.
THEOREM HealthyAlwaysKept ==
  ASSUME Punctual
  PROVE  Spec => []HealthyChildKept
<1>1. Init => TimeTypes /\ Talk /\ Prompt
  BY InitTimes DEF Init, Talk, Prompt, Watched, Monitoring
<1>2. TimeTypes /\ Talk /\ Prompt /\ [Next]_vars => (TimeTypes /\ Talk /\ Prompt)'
  BY NextTypes, TalkStep, PromptStep
<1>3. TimeTypes /\ Talk /\ Prompt => HealthyChildKept
  <2> SUFFICES ASSUME TimeTypes, Prompt, Watched, sup.state = "RUNNING", Alive, proc.running
               PROVE  sup.deadline > 0
    BY DEF HealthyChildKept, Watched
  <2>1. CASE batch = <<>> /\ pipe = <<>>
    <3>1. sup.deadline + Beat >= Heartbeat + proc.due
      BY <2>1 DEF Prompt
    <3> QED BY <3>1, Numbers DEF Punctual
  <2>2. CASE batch # <<>> \/ pipe # <<>>
    <3>1. sup.deadline + Beat + Slack >= Heartbeat
      BY <2>2 DEF Prompt
    <3> QED BY <3>1, Numbers DEF Punctual
  <2> QED BY <2>1, <2>2
<1> QED BY <1>1, <1>2, <1>3, PTL DEF Spec

------------------------------------------------------------------------------
(* The Supervisor's windows of a RUN are earned by the child.               *)

\* The pipe holds the beats of the longest time the Supervisor does not read
\* it, and a service restart takes longer than that.
Roomy == PipeCap > Lag
\* A restart of LinkG takes longer than the Supervisor needs to look.
SlowRestart == RestartMin > Lag

\* Messages that are all beats, and messages of which one is m.
OnlyBeats(q) == \A i \in 1..Len(q) : q[i] = "HEARTBEAT"
Has(q, m) == \E i \in 1..Len(q) : q[i] = m

\* Beats and other messages at the end of a queue.
LEMMA BeatsAppend ==
  ASSUME NEW q \in Seq(Messages), NEW m \in Messages
  PROVE  /\ OnlyBeats(Append(q, m)) <=> OnlyBeats(q) /\ m = "HEARTBEAT"
         /\ \A x : Has(Append(q, m), x) <=> Has(q, x) \/ x = m
<1> DEFINE r == Append(q, m)
<1>1. Len(r) = Len(q) + 1 /\ r[Len(q) + 1] = m /\ Len(q) \in Nat
  OBVIOUS
<1>2. \A i \in 1..Len(q) : r[i] = q[i]
  OBVIOUS
<1> HIDE DEF r
<1>3. \A i \in 1..Len(r) : i \in 1..Len(q) \/ i = Len(q) + 1
  BY <1>1
<1>4. 1..Len(q) \subseteq 1..Len(r) /\ Len(q) + 1 \in 1..Len(r)
  BY <1>1
<1>5. OnlyBeats(r) <=> OnlyBeats(q) /\ m = "HEARTBEAT"
  BY <1>1, <1>2, <1>3, <1>4 DEF OnlyBeats
<1>6. ASSUME NEW x PROVE Has(r, x) <=> Has(q, x) \/ x = m
  BY <1>1, <1>2, <1>3, <1>4 DEF Has
<1> QED BY <1>5, <1>6 DEF r

\* Beats and other messages at the head of a queue.
LEMMA BeatsTail ==
  ASSUME NEW q \in Seq(Messages), q # <<>>
  PROVE  /\ OnlyBeats(q) <=> Head(q) = "HEARTBEAT" /\ OnlyBeats(Tail(q))
         /\ \A x : Has(q, x) <=> x = Head(q) \/ Has(Tail(q), x)
<1> DEFINE r == Tail(q)
<1>1. Len(r) = Len(q) - 1 /\ Len(q) \in Nat /\ Len(q) > 0 /\ Head(q) = q[1]
  OBVIOUS
<1>2. \A i \in 1..Len(r) : r[i] = q[i + 1]
  OBVIOUS
<1> HIDE DEF r
<1>3. \A i \in 1..Len(q) : i = 1 \/ (i - 1 \in 1..Len(r) /\ (i - 1) + 1 = i)
  BY <1>1
<1>4. 1 \in 1..Len(q) /\ \A i \in 1..Len(r) : i + 1 \in 1..Len(q)
  BY <1>1
<1>5. \A i \in 1..Len(q) : i = 1 \/ q[i] = r[i - 1]
  BY <1>2, <1>3
<1>6. OnlyBeats(q) <=> Head(q) = "HEARTBEAT" /\ OnlyBeats(r)
  BY <1>1, <1>2, <1>3, <1>4, <1>5 DEF OnlyBeats
<1>7. ASSUME NEW x PROVE Has(q, x) <=> x = Head(q) \/ Has(r, x)
  BY <1>1, <1>2, <1>3, <1>4, <1>5 DEF Has
<1> QED BY <1>6, <1>7 DEF r

\* The empty queue.
LEMMA BeatsEmpty == OnlyBeats(<<>>) /\ \A m : ~Has(<<>>, m)
BY DEF OnlyBeats, Has

\* A queue that ends in a state it did not start in holds the message for it.
LEMMA EndsWith ==
  ASSUME NEW q \in Seq(Messages), NEW s
  PROVE  /\ OnlyBeats(q) /\ s = "RUNNING" => EndState(q, s) = "RUNNING"
         /\ EndState(q, s) = "RESTARTING" /\ s # "RESTARTING" => Has(q, "RESTARTING")
         /\ EndState(q, s) # "STARTING" \/ q = <<>>
<1>1. CASE q = <<>>
  BY <1>1 DEF EndState
<1>2. CASE q # <<>>
  <2>1. Len(q) \in 1..Len(q) /\ q[Len(q)] \in Messages
    BY <1>2
  <2> QED BY <1>2, <2>1 DEF EndState, OnlyBeats, Has, StateOf, Messages
<1> QED BY <1>1, <1>2

\* While LinkG serves, the beats in the pipe are as many as the ticks since the
\* Supervisor last emptied it allow.
Serving == Alive /\ proc.running
PipeSlack == IF pc = "poll" THEN Lag + lag ELSE lag
Room ==
  Watched /\ Serving /\ OnlyBeats(pipe) =>
    /\ Len(pipe) <= PipeSlack + 1
    /\ proc.due = 0 => Len(pipe) <= PipeSlack

\* The steps of the monitor that do not touch the messages.
LEMMA QuietMoves ==
  ASSUME TimeTypes, Watched, Protocol, MonitorStep, pc' \in Monitoring,
         ~Apply, ~PollReads, ~ConfirmReads
  PROVE  /\ UNCHANGED <<pipe, ropen, batch>> /\ batch = <<>>
         /\ \/ pc = "check" /\ pc' = "poll" /\ lag' = 0 /\ proc.st = "live" /\ sup.deadline > 0
            \/ pc = "poll" /\ pc' = "decide" /\ lag' = lag /\ ~Readable
            \/ pc = "poll" /\ pc' = "check" /\ lag' = lag /\ sup.deadline = 0
            \/ pc = "decide" /\ pc' = "confirm" /\ lag' = lag /\ ConfirmDue
            \/ pc \notin {"poll", "check"} /\ pc' \in {"check", "decide"} /\ lag' = lag
            \/ pc = "confirm" /\ pc' \in {"confirm", "commit"} /\ lag' = 0 /\ ~Readable
                 /\ proc.st = "live" /\ sup.state = "RUNNING"
            \/ pc = "cread" /\ pc' \in {"confirm", "commit"} /\ lag' = lag
                 /\ sup.state = "RUNNING"
<1> USE DEF Goto
<1>1. UNCHANGED <<pipe, ropen, batch>>
  BY MonitorFrame
<1>2. CASE MonitorChecks \/ PollIdle \/ PollLate
  BY <1>1, <1>2 DEF MonitorChecks, PollIdle, PollLate, Protocol
<1>3. CASE ReadEnds \/ MonitorDecides
  BY <1>1, <1>3 DEF ReadEnds, MonitorDecides, Protocol
<1>4. CASE ConfirmStopped \/ ConfirmFails \/ ConfirmCommits
  BY <1>1, <1>4 DEF ConfirmStopped, ConfirmFails, ConfirmCommits, ConfirmLater, ConfirmChecked, Protocol
<1>5. CASE ConfirmGoesOn
  BY <1>1, <1>5 DEF ConfirmGoesOn, ConfirmChecked, Protocol
<1> QED BY <1>2, <1>3, <1>4, <1>5 DEF MonitorStep

\* The steps that read.
LEMMA ReadSteps ==
  ASSUME TimeTypes, Watched, Protocol, PollReads \/ ConfirmReads, pc' \in Monitoring
  PROVE  /\ pipe' = <<>> /\ sup' = sup /\ batch = <<>> /\ sup.deadline > 0
         /\ \/ pc = "poll" /\ lag' = lag /\ pc' \in {"read", "decide"}
            \/ pc = "confirm" /\ lag' = 0 /\ pc' = "cread" /\ proc.st = "live"
         /\ \/ pipe # <<>> /\ batch' = pipe /\ pc' \in {"read", "cread"}
            \/ sup.state = "STOPPING" /\ batch' = <<>>
<1> USE DEF Goto
<1>1. batch = <<>>
  BY DEF PollReads, ConfirmReads, Protocol
<1>2. CASE PollReads
  BY <1>1, <1>2 DEF PollReads, Read, ReadEof, MonitorEnds, Monitoring
<1>3. CASE ConfirmReads
  BY <1>1, <1>3 DEF ConfirmReads, Read, ReadEof, MonitorEnds, Monitoring
<1> QED BY <1>2, <1>3

\* A process that left while the pipe was full of beats: the Supervisor has not
\* read for Lag ticks.
Full ==
  Watched /\ proc.st = "live" /\ proc.phase = "cleanup" /\ OnlyBeats(pipe) /\ pipe # <<>> =>
    PipeSlack >= Lag

\* Between two reads the waiting time of a pipe of beats only grows.
LEMMA WaitGrows ==
  ASSUME Punctual, TimeTypes, Talk, Prompt, Watched, MonitorStep, pc' \in Monitoring,
         OnlyBeats(pipe'), pipe' # <<>>
  PROVE  pipe' = pipe /\ PipeSlack' >= PipeSlack
<1> USE Numbers
<1>a. pipe \in Seq(Messages) /\ Protocol
  BY DEF TimeTypes, StreamTypes, Talk
<1>1. ~PollReads /\ ~ConfirmReads
  BY <1>a, ReadSteps
<1>2. CASE Apply
  BY <1>2, <1>a, ApplyMoves DEF Apply, PipeSlack
<1>3. CASE ~Apply
  <2>1. pipe' = pipe /\ Readable
    BY <1>1, <1>3, <1>a, QuietMoves DEF Readable, Protocol
  <2>2. ~(pc = "poll" /\ sup.deadline = 0)
    <3> SUFFICES ASSUME pc = "poll", sup.deadline = 0 PROVE FALSE
      OBVIOUS
    <3>1. batch = <<>> /\ Known = sup.state
      BY <1>a DEF Protocol, Known, EndState
    <3>2. pipe[1] = "HEARTBEAT" /\ pipe # <<>>
      BY <2>1, <1>a DEF OnlyBeats
    <3>3. sup.state = "RUNNING"
      BY <3>1, <3>2, <1>a DEF Protocol, Follows, After
    <3>4. sup.deadline + Beat + Slack >= Heartbeat
      BY <3>2, <3>3 DEF Prompt
    <3> QED BY <3>4 DEF Punctual
  <2>3. PipeSlack' >= PipeSlack
    BY <2>1, <2>2, <1>1, <1>3, <1>a, QuietMoves DEF PipeSlack
  <2> QED BY <2>1, <2>3
<1> QED BY <1>2, <1>3

\* Every step keeps the pipe of a serving LinkG from filling up.
LEMMA RoomStep ==
  ASSUME Punctual
  PROVE  TimeTypes /\ Talk /\ Prompt /\ Room /\ [Next]_vars => Room'
<1> SUFFICES ASSUME TimeTypes, Talk, Prompt, Room, [Next]_vars, Watched', Serving',
                    OnlyBeats(pipe')
             PROVE  /\ Len(pipe') <= PipeSlack' + 1
                    /\ proc'.due = 0 => Len(pipe') <= PipeSlack'
  BY DEF Room
<1> USE Numbers
<1>a. pipe \in Seq(Messages) /\ Len(pipe) \in Nat
  BY DEF TimeTypes, StreamTypes
<1>b. TimeTypes'
  BY NextTypes
<1>c. lag' \in Nat /\ lag' <= Lag /\ proc'.due \in Nat /\ PipeSlack' \in Nat /\ PipeSlack \in Nat
  BY <1>b DEF TimeTypes, ClockTypes, ProcessInv, ControlTypes, ProcType, PipeSlack
<1>d. PICK n \in Nat : n = PipeSlack'
  BY <1>c
<1> SUFFICES Len(pipe') <= n + 1 /\ (proc'.due = 0 => Len(pipe') <= n)
  BY <1>d
<1>1. CASE App
  <2>1. Watched /\ UNCHANGED <<pc, lag>> /\ noise' = 0 /\ Protocol /\ PhaseTold
    BY <1>1, CleanApp DEF Watched, Talk
  <2>2. PipeSlack' = PipeSlack
    BY <2>1 DEF PipeSlack
  <2>3. ~Left /\ ~AppDies /\ ~AppHangs /\ ~(AppRestarts /\ SendOk)
    BY ProcFields DEF Alive, Serving
  <2>4. ~AppResets
    BY <2>1, ProcFields DEF AppResets, PhaseTold, Alive, Serving
  <2>5. ~(AppReady /\ SendOk)
    <3>1. AppReady /\ SendOk => pipe' = Append(pipe, "READY")
      BY ProcFields
    <3> QED BY <3>1, <1>a, BeatsAppend DEF Messages
  <2>6. AppBeats
    BY <1>1, <2>1, <2>3, <2>4, <2>5, CleanApp
  <2>7. Serving /\ proc.due = 0 /\ proc'.due = Beat
    BY <2>6, ProcFields DEF AppBeats, Serving
  <2>8. OnlyBeats(pipe) /\ Len(pipe') <= Len(pipe) + 1
    <3>1. CASE pipe' = Append(pipe, "HEARTBEAT")
      BY <3>1, <1>a, BeatsAppend DEF Messages
    <3>2. CASE pipe' = pipe
      BY <3>2, <1>a
    <3> QED BY <2>6, <3>1, <3>2, ProcFields
  <2>9. Len(pipe) <= PipeSlack
    BY <2>1, <2>7, <2>8, <1>c DEF Room
  <2> QED BY <2>2, <2>7, <2>8, <2>9, <1>c, <1>a, <1>d, SMTT(30)
<1>2. CASE Supervisor
  <2>1. CASE Spawn
    BY <2>1 DEF Spawn, NoProc, Serving
  <2>2. CASE MonitorStep /\ pc \in Monitoring
    <3>1. Watched /\ proc' = proc /\ pc' \in Monitoring /\ Protocol /\ PhaseTold
      BY <2>2, MonitorFrame DEF Watched, Talk
    <3>4. CASE pipe' = <<>>
      BY <3>4
    <3>5. CASE pipe' # <<>>
      <4>1. pipe' = pipe /\ PipeSlack' >= PipeSlack
        BY <2>2, <3>1, <3>5, WaitGrows
      <4> QED BY <4>1, <3>1, <1>a, <1>c, <1>d, SMTT(30) DEF Room, Alive, Serving
    <3> QED BY <3>4, <3>5
  <2> QED BY <2>1, <2>2, <1>2, MonitorSteps DEF Watched
<1>3. CASE Tick
  <2>1. Watched /\ UNCHANGED <<pc, pipe>> /\ lag' = lag + 1
    BY <1>3 DEF Tick, Watched, chan
  <2>2. Serving
    BY <1>3, TickProc DEF Alive, Serving
  <2>3. Len(pipe) <= PipeSlack + 1
    BY <2>1, <2>2, <1>a, <1>c DEF Room
  <2>4. PipeSlack' = PipeSlack + 1
    BY <2>1 DEF PipeSlack
  <2> QED BY <2>1, <2>3, <2>4, <1>a, <1>c, <1>d
<1>4. CASE Signal \/ Installer \/ UNCHANGED vars
  BY <1>4, <1>d, InstallerFrame DEF Signal, vars, chan, Room, Watched, Alive, Serving, PipeSlack
<1> QED BY <1>1, <1>2, <1>3, <1>4 DEF Next

\* Every step keeps that only a late Supervisor leaves the pipe full.
LEMMA FullStep ==
  ASSUME Punctual, Roomy
  PROVE  TimeTypes /\ Talk /\ Prompt /\ Room /\ Full /\ [Next]_vars => Full'
<1> SUFFICES ASSUME TimeTypes, Talk, Prompt, Room, Full, [Next]_vars, Watched',
                    proc'.st = "live", proc'.phase = "cleanup", OnlyBeats(pipe'), pipe' # <<>>
             PROVE  PipeSlack' >= Lag
  BY DEF Full
<1> USE Numbers
<1>a. pipe \in Seq(Messages) /\ Len(pipe) \in Nat /\ PipeSlack \in Nat
  BY SMTT(30) DEF TimeTypes, StreamTypes, PipeSlack
<1>b. ASSUME Watched, proc.st = "live", proc.phase = "cleanup", pipe' = pipe
      PROVE  PipeSlack >= Lag
  BY <1>b DEF Full
<1>1. CASE App
  <2>1. Watched /\ UNCHANGED <<pc, lag, batch, sup, ropen>> /\ noise' = 0 /\ Protocol /\ PhaseTold
    BY <1>1, CleanApp DEF Watched, Talk
  <2>2. PipeSlack' = PipeSlack
    BY <2>1 DEF PipeSlack
  <2>3. CASE Left
    <3>1. Alive /\ proc.phase # "cleanup" /\ proc.st = "live"
      BY <2>3, ProcFields DEF Alive
    <3>2. ~SendOk
      <4> SUFFICES ASSUME SendOk PROVE FALSE
        OBVIOUS
      <4>1. pipe' = Append(pipe, "STOPPING")
        BY <2>3, ProcFields
      <4> QED BY <4>1, <1>a, BeatsAppend DEF Messages
    <3>3. pipe' = pipe
      BY <2>3, <3>2, ProcFields
    <3>4. Told = "RUNNING"
      <4>1. Len(pipe) \in 1..Len(pipe) /\ pipe[Len(pipe)] = "HEARTBEAT" /\ pipe # <<>>
        BY <3>3, <1>a DEF OnlyBeats
      <4> QED BY <4>1 DEF Told, EndState, StateOf
    <3>5. proc.phase = "run"
      BY <3>1, <3>4, <2>1 DEF PhaseTold, TimeTypes, ProcessInv, ControlTypes, ProcType
    <3>6. Serving
      BY <3>1, <3>5, <2>1 DEF Serving, PhaseTold
    <3>7. Len(pipe) <= PipeSlack + 1
      BY <3>3, <3>6, <2>1 DEF Room
    <3>8. ropen
      BY <3>3, <2>1 DEF Protocol
    <3>9. Len(pipe) >= PipeCap /\ PipeCap \in Nat
      BY <3>2, <3>8, <1>a, ConstantTypes DEF SendOk
    <3> QED BY <3>7, <3>9, <2>2, <1>a DEF Roomy
  <2>4. CASE ~Left
    <3>1. ~(AppReady /\ SendOk) /\ ~(AppRestarts /\ SendOk) /\ ~AppResets /\ ~AppDies
      BY ProcFields
    <3>2. AppHangs \/ AppBeats
      BY <2>4, <3>1, <1>1, <2>1, CleanApp
    <3>3. ~AppBeats
      BY <2>1, ProcFields DEF AppBeats, PhaseTold
    <3>4. pipe' = pipe /\ proc.phase = "cleanup" /\ proc.st = "live"
      BY <3>2, <3>3, ProcFields DEF AppHangs, Alive
    <3> QED BY <3>4, <2>1, <2>2, <1>b
  <2> QED BY <2>3, <2>4
<1>2. CASE Supervisor
  <2>1. CASE Spawn
    BY <2>1 DEF Spawn
  <2>2. CASE MonitorStep /\ pc \in Monitoring
    <3>1. Watched /\ proc' = proc /\ pc' \in Monitoring
      BY <2>2, MonitorFrame DEF Watched
    <3>2. pipe' = pipe /\ PipeSlack' >= PipeSlack
      BY <2>2, <3>1, WaitGrows
    <3>3. PipeSlack >= Lag
      BY <3>1, <3>2, <1>b
    <3>4. PICK n \in Nat : n = PipeSlack'
      BY NextTypes, Numbers DEF TimeTypes, ClockTypes, PipeSlack
    <3> QED BY <3>2, <3>3, <3>4, <1>a
  <2> QED BY <2>1, <2>2, <1>2, MonitorSteps DEF Watched
<1>3. CASE Tick
  <2>1. Watched /\ UNCHANGED <<pc, pipe>> /\ lag' = lag + 1
    BY <1>3 DEF Tick, Watched, chan
  <2>2. PipeSlack >= Lag
    BY <2>1, <1>3, <1>b, TickProc
  <2>3. PipeSlack' = PipeSlack + 1
    BY <2>1 DEF PipeSlack
  <2> QED BY <2>2, <2>3, <1>a
<1>4. CASE Signal \/ Installer \/ UNCHANGED vars
  BY <1>4, InstallerFrame DEF Signal, vars, chan, Full, Watched, PipeSlack
<1> QED BY <1>1, <1>2, <1>3, <1>4 DEF Next

\* The window the Supervisor counts is the time LinkG has served in its current
\* RUN, plus at most the time its last messages have been waiting to be read.
\* A deadline that has passed is never taken back (Dead).
Dead == pc = "check" /\ sup.deadline = 0
Counted == sup.state = "RUNNING" /\ proc.st = "live" /\ ~Dead /\ OnlyBeats(batch)
Earned ==
  /\ ~OnlyBeats(pipe) => sup.runFor <= best + PipeSlack
  /\ OnlyBeats(pipe) /\ proc.phase = "run" => sup.runFor <= served
  /\ OnlyBeats(pipe) /\ proc.phase # "run" /\ pipe # <<>> =>
       sup.runFor + Lag <= best + PipeSlack
  /\ pipe = <<>> /\ proc.phase # "run" /\ pc # "poll" => sup.runFor <= best + lag
Credit == Watched => served <= best /\ (Counted => Earned)

\* A child in RUNNING of which only beats are under way serves, or has left
\* with a full pipe.
LEMMA OnlyServing ==
  ASSUME TimeTypes, Protocol, PhaseTold, Counted, OnlyBeats(pipe)
  PROVE  /\ Told = "RUNNING" /\ Known = "RUNNING" /\ ropen
         /\ proc.phase \in {"run", "cleanup"}
         /\ proc.phase = "run" <=> proc.wopen
<1>1. batch \in Seq(Messages) /\ pipe \in Seq(Messages)
  BY DEF TimeTypes, StreamTypes
<1>2. Known = "RUNNING" /\ Told = "RUNNING"
  BY <1>1, EndsWith DEF Counted, Known, Told
<1>3. ropen
  BY DEF Counted, Protocol
<1>4. proc.phase \in {"start", "run", "restart", "cleanup"} /\ proc.wopen \in BOOLEAN
  BY DEF TimeTypes, ProcessInv, ControlTypes, ProcType
<1> QED BY <1>2, <1>3, <1>4 DEF PhaseTold, Counted

\* LinkG does not take back what it served.
LEMMA CreditApp ==
  ASSUME Roomy, TimeTypes, Talk, Room, Credit, App, Watched'
  PROVE  served' <= best' /\ (Counted' => Earned')
<1> USE Numbers
<1>a. pipe \in Seq(Messages)
  BY DEF TimeTypes, StreamTypes
<1>1. noise' = 0 /\ UNCHANGED <<pc, sup, batch, lag, ropen, best, noise>>
  BY CleanApp DEF Watched
<1>2. Watched /\ Protocol /\ PhaseTold /\ PipeSlack' = PipeSlack /\ served <= best
  BY <1>1 DEF Watched, Talk, PipeSlack, Credit
<1>3. served' <= best'
  BY <1>1, <1>2, AppFrame
<1>4. ASSUME Counted' PROVE Earned'
  <2>1. Counted
    <3>1. proc.st = "live"
      <4>1. proc'.st = "live"
        BY <1>4 DEF Counted
      <4> QED BY <4>1, <1>1, CleanApp DEF AppReady, AppRestarts, AppResets, AppHangs,
            AppBeats, AppDies, Left, AppFails, AppLeaves, Alive
    <3> QED BY <3>1, <1>1, <1>4 DEF Counted, Dead
  <2>2. Earned
    BY <2>1, <1>2 DEF Credit
  <2>3. PipeSlack \in Nat
    BY DEF PipeSlack
  <2>4. OnlyBeats(pipe) => Told = "RUNNING" /\ proc.phase \in {"run", "cleanup"} /\ ropen
    BY <2>1, <1>2, OnlyServing
  <2>5. OnlyBeats(pipe) /\ proc.phase = "run" => sup.runFor <= best
    BY <2>2, <1>2 DEF Earned
  <2>6. ASSUME NEW m \in Messages, pipe' = Append(pipe, m), m # "HEARTBEAT",
               OnlyBeats(pipe) => proc.phase = "run"
        PROVE  Earned'
    <3>1. ~OnlyBeats(pipe') /\ pipe' # <<>>
      BY <2>6, <1>a, BeatsAppend, SMTT(30)
    <3>2. sup.runFor <= best + PipeSlack
      BY <2>2, <2>3, <2>5, <2>6 DEF Earned
    <3> QED BY <3>1, <3>2, <1>1, <1>2 DEF Earned
  <2>7. ASSUME pipe' = pipe, proc'.phase = proc.phase, served' = served
        PROVE  Earned'
    BY <2>2, <2>7, <1>1, <1>2 DEF Earned
  <2>8. CASE AppReady /\ SendOk
    BY <2>8, <2>6, <2>4, ProcFields DEF AppReady, Messages
  <2>9. CASE AppRestarts /\ SendOk
    BY <2>9, <2>6, ProcFields DEF AppRestarts, Messages
  <2>10. CASE Left
    <3>1. proc.phase # "cleanup" /\ Alive /\ proc'.phase = "cleanup"
      BY <2>10, ProcFields
    <3>2. CASE SendOk
      BY <2>10, <3>1, <3>2, <2>6, <2>4, ProcFields DEF Messages
    <3>3. CASE ~SendOk
      <4>1. pipe' = pipe
        BY <2>10, <3>3, ProcFields
      <4>2. CASE ~OnlyBeats(pipe)
        <5>1. pipe # <<>>
          BY <4>2, BeatsEmpty
        <5> QED BY <4>1, <4>2, <5>1, <2>2, <1>1, <1>2 DEF Earned
      <4>3. CASE OnlyBeats(pipe)
        <5>1. proc.phase = "run" /\ ropen
          BY <3>1, <2>4, <4>3
        <5>2. Serving
          BY <5>1, <3>1, <1>2 DEF Serving, Alive, PhaseTold
        <5>3. Len(pipe) <= PipeSlack + 1 /\ Len(pipe) \in Nat
          BY <5>2, <4>3, <1>2, <1>a DEF Room
        <5>4. Len(pipe) >= PipeCap /\ PipeCap \in Nat /\ PipeCap > 0
          BY <3>3, <5>1, <5>3, ConstantTypes DEF SendOk
        <5>5. PipeSlack >= Lag
          BY <5>3, <5>4, <2>3 DEF Roomy
        <5>6. sup.runFor + Lag <= best + PipeSlack
          BY <5>5, <5>1, <2>3, <2>5, <4>3
        <5>7. pipe # <<>>
          BY <5>4
        <5> QED BY <4>1, <4>3, <5>6, <5>7, <3>1, <1>1, <1>2 DEF Earned
      <4> QED BY <4>2, <4>3
    <3> QED BY <3>2, <3>3
  <2>11. CASE AppResets
    <3>1. proc.phase = "restart" /\ pipe' = pipe
      BY <2>11, ProcFields DEF AppResets
    <3>2. ~OnlyBeats(pipe) /\ pipe # <<>>
      BY <3>1, <2>4, BeatsEmpty
    <3> QED BY <3>1, <3>2, <2>2, <1>1, <1>2 DEF Earned
  <2>12. CASE AppHangs
    BY <2>12, <2>7, ProcFields
  <2>13. CASE AppDies
    BY <2>13, <1>4, ProcFields DEF Counted
  <2>14. CASE AppBeats
    <3>1. proc'.phase = proc.phase /\ served' = served /\ proc.phase = "run"
      BY <2>14, <1>2, ProcFields DEF AppBeats, PhaseTold
    <3>2. CASE pipe' = pipe
      BY <3>1, <3>2, <2>7
    <3>3. CASE pipe' = Append(pipe, "HEARTBEAT")
      <4>1. OnlyBeats(pipe') <=> OnlyBeats(pipe)
        BY <3>3, <1>a, BeatsAppend DEF Messages
      <4> QED BY <4>1, <3>1, <2>2, <1>1, <1>2 DEF Earned
    <3> QED BY <2>14, <3>2, <3>3, ProcFields
  <2> QED BY <1>1, <2>8, <2>9, <2>10, <2>11, <2>12, <2>13, <2>14, CleanApp
<1> QED BY <1>3, <1>4

\* The monitor counts no time that was not served.
LEMMA CreditMonitor ==
  ASSUME Punctual, TimeTypes, Talk, Prompt, Full, Credit, MonitorStep, pc \in Monitoring,
         Watched', Counted'
  PROVE  Earned'
<1> USE Numbers
<1>a. pipe \in Seq(Messages) /\ batch \in Seq(Messages) /\ sup \in ChildType
  BY DEF TimeTypes, StreamTypes, ClockTypes
<1>1. UNCHANGED <<proc, noise, served, best>> /\ pc' \in Monitoring
  BY MonitorFrame DEF Watched
<1>2. Watched /\ Protocol /\ PhaseTold /\ served <= best /\ (Counted => Earned)
  BY <1>1 DEF Watched, Talk, Credit
<1>3. proc.st = "live" /\ sup'.state = "RUNNING" /\ OnlyBeats(batch') /\ ~Dead'
  BY <1>1 DEF Counted
<1>4. PipeSlack \in Nat
  BY DEF PipeSlack
<1>5. CASE Apply
  <2>1. pc' = pc /\ lag' = lag /\ pipe' = pipe /\ batch # <<>> /\ batch' = Tail(batch)
        /\ Head(batch) \in After(sup.state) /\ Head(batch) \in Messages
        /\ StateOf(Head(batch)) = "RUNNING" /\ sup' = Message(sup, Head(batch))
        /\ pc \in {"read", "cread"}
    BY <1>2, <1>3, <1>5, ApplyMoves DEF Apply
  <2>2. PipeSlack' = PipeSlack
    BY <2>1 DEF PipeSlack
  <2>3. CASE Head(batch) = "READY"
    <3>1. sup'.runFor = 0
      BY <2>1, <2>3, <1>a, MessageEffect, ZenonT(40) DEF After, ChildType, States
    <3>2. CASE OnlyBeats(pipe) /\ proc.phase # "run" /\ pipe # <<>>
      <4>1. proc.phase = "cleanup"
        <5>1. TimeTypes' /\ Protocol' /\ PhaseTold'
          BY <1>1, <1>2, NextTypes, TalkMonitor DEF Next, Supervisor, MonitorStep
        <5>2. Told' = "RUNNING"
          <6>1. batch' \in Seq(Messages) /\ pipe' \in Seq(Messages)
            BY <5>1 DEF TimeTypes, StreamTypes
          <6>2. Known' = "RUNNING"
            BY <6>1, <1>3, EndsWith DEF Known
          <6> QED BY <6>1, <6>2, <3>2, <2>1, EndsWith DEF Told
        <5> QED BY <5>1, <5>2, <3>2, <1>1, <1>3
               DEF PhaseTold, TimeTypes, ProcessInv, ControlTypes, ProcType
      <4>2. PipeSlack >= Lag
        BY <4>1, <3>2, <1>2, <1>3 DEF Full
      <4> QED BY <4>2, <3>1, <3>2, <2>1, <2>2, <1>1, <1>4 DEF Earned
    <3>3. CASE ~(OnlyBeats(pipe) /\ proc.phase # "run" /\ pipe # <<>>)
      BY <3>1, <3>3, <2>1, <2>2, <1>1, <1>4, SMTT(30) DEF Earned
    <3> QED BY <3>2, <3>3
  <2>4. CASE Head(batch) = "HEARTBEAT"
    <3>1. sup'.runFor = sup.runFor /\ sup.state = "RUNNING"
      BY <2>1, <2>4, <1>a, MessageEffect DEF After
    <3>2. OnlyBeats(batch) /\ ~Dead
      BY <2>1, <2>4, <1>a, <1>3, BeatsTail DEF Dead
    <3>3. Earned
      BY <3>1, <3>2, <1>2, <1>3 DEF Counted
    <3> QED BY <3>1, <3>3, <2>1, <2>2, <1>1 DEF Earned
  <2> QED BY <2>1, <2>3, <2>4 DEF StateOf, Messages
<1>6. CASE PollReads \/ ConfirmReads
  <2>1. /\ pipe' = <<>> /\ sup' = sup /\ batch = <<>> /\ pipe # <<>> /\ batch' = pipe
        /\ (pc = "poll" /\ lag' = lag) \/ (pc = "confirm" /\ lag' = 0)
        /\ pc' \in {"read", "cread"}
    BY <1>1, <1>2, <1>3, <1>6, ReadSteps
  <2>2. OnlyBeats(pipe) /\ Counted /\ OnlyBeats(pipe')
    BY <2>1, <1>3, BeatsEmpty DEF Counted, Dead
  <2>3. Earned
    BY <2>2, <1>2
  <2>4. proc.phase # "run" => sup.runFor <= best + lag'
    <3>1. proc.phase # "run" => sup.runFor + Lag <= best + PipeSlack
      BY <2>1, <2>2, <2>3 DEF Earned
    <3> QED BY <3>1, <2>1 DEF PipeSlack
  <2> QED BY <2>1, <2>2, <2>3, <2>4, <1>1 DEF Earned
<1>7. CASE ~Apply /\ ~PollReads /\ ~ConfirmReads
  <2>1. UNCHANGED <<pipe, ropen, batch>> /\ batch = <<>>
    BY <1>1, <1>2, <1>7, QuietMoves
  <2>2. sup'.state = sup.state /\ sup'.deadline = sup.deadline /\ sup'.runFor = sup.runFor
    BY <1>1, <1>7, MonitorFrame
  <2>3. ~(pc = "poll" /\ pc' = "check" /\ sup.deadline = 0)
    BY <2>2, <1>3 DEF Dead
  <2>4. ~Dead
    BY <1>1, <1>2, <1>7, QuietMoves DEF Dead
  <2>5. Counted /\ Earned
    BY <2>1, <2>2, <2>4, <1>2, <1>3 DEF Counted
  <2>6. ropen
    BY <2>2, <1>2, <1>3 DEF Protocol
  <2>7. CASE pipe = <<>>
    <3>1. OnlyBeats(pipe)
      BY <2>7, BeatsEmpty
    <3>2. proc.phase # "run" => ~proc.wopen
      BY <3>1, <2>5, <1>2, OnlyServing
    <3>3. proc.phase # "run" => Readable
      BY <3>2, <2>6 DEF Readable
    <3>4. proc.phase # "run" /\ pc' # "poll" => sup.runFor <= best + lag /\ lag' = lag
      <4> SUFFICES ASSUME proc.phase # "run", pc' # "poll"
                   PROVE  sup.runFor <= best + lag /\ lag' = lag
        OBVIOUS
      <4>1. pc # "poll" /\ lag' = lag
        BY <3>3, <2>3, <1>1, <1>2, <1>7, QuietMoves
      <4> QED BY <4>1, <2>5, <2>7 DEF Earned
    <3> QED BY <3>1, <3>4, <2>1, <2>2, <2>5, <2>7, <1>1 DEF Earned
  <2>8. CASE pipe # <<>>
    <3>1. Readable
      BY <2>6, <2>8 DEF Readable
    <3>2. PipeSlack' >= PipeSlack
      BY <3>1, <2>3, <1>1, <1>2, <1>7, QuietMoves DEF PipeSlack
    <3>3. PICK n \in Nat : n = PipeSlack'
      BY <1>1, NextTypes, Numbers DEF TimeTypes, ClockTypes, PipeSlack, Next, Supervisor, MonitorStep
    <3>4. n >= PipeSlack
      BY <3>2, <3>3
    <3>5. ~OnlyBeats(pipe) => sup.runFor <= best + n
      BY <3>4, <2>5, <1>4, SMTT(30) DEF Earned
    <3>6. OnlyBeats(pipe) /\ proc.phase # "run" => sup.runFor + Lag <= best + n
      BY <3>4, <2>5, <2>8, <1>4, SMTT(30) DEF Earned
    <3> QED BY <3>3, <3>5, <3>6, <2>1, <2>2, <2>5, <2>8, <1>1 DEF Earned
  <2> QED BY <2>7, <2>8
<1> QED BY <1>5, <1>6, <1>7

\* No step does.
LEMMA CreditStep ==
  ASSUME Punctual, Roomy
  PROVE  TimeTypes /\ Talk /\ Prompt /\ Room /\ Full /\ Credit /\ [Next]_vars => Credit'
<1> SUFFICES ASSUME TimeTypes, Talk, Prompt, Room, Full, Credit, [Next]_vars, Watched'
             PROVE  served' <= best' /\ (Counted' => Earned')
  BY DEF Credit
<1>1. CASE App
  BY <1>1, CreditApp
<1>2. CASE Supervisor
  <2>1. CASE Spawn
    BY <2>1 DEF Spawn, Counted, NewChild
  <2>2. CASE MonitorStep /\ pc \in Monitoring
    <3>1. UNCHANGED <<noise, served, best>>
      BY <2>2, MonitorFrame DEF Watched
    <3>2. served <= best
      BY <2>2, <3>1 DEF Credit, Watched
    <3> QED BY <2>2, <3>1, <3>2, CreditMonitor
  <2> QED BY <2>1, <2>2, <1>2, MonitorSteps DEF Watched
<1>3. CASE Tick
  <2>1. Watched /\ UNCHANGED <<pc, pipe, batch, noise>> /\ lag' = lag + 1 /\ pc \in Monitoring
    BY <1>3 DEF Tick, Watched, chan
  <2>2. served <= best /\ (Counted => Earned)
    BY <2>1 DEF Credit
  <2>3. best' \in Nat /\ served' \in Nat /\ best' >= best /\ served' <= best'
        /\ served' = IF proc.st = "live" /\ proc.phase = "run" /\ noise = 0 THEN More(served) ELSE served
    BY <1>3, Numbers, ConstantTypes DEF Tick, Larger, More, Window
  <2>4. ASSUME Counted' PROVE Earned'
    <3>1. sup'.state = sup.state /\ sup'.deadline = Less(sup.deadline)
          /\ sup'.runFor = IF sup.state = "RUNNING" THEN More(sup.runFor) ELSE sup.runFor
      BY <1>3, <2>1, TickChild
    <3>2. proc'.st = proc.st /\ proc'.phase = proc.phase
      BY <1>3, TickProc
    <3>3. Counted
      BY <2>1, <2>4, <3>1, <3>2 DEF Counted, Dead, Less
    <3>4. Earned
      BY <2>2, <3>3
    <3>5. PipeSlack' = PipeSlack + 1 /\ PipeSlack \in Nat
      BY <2>1, Numbers DEF PipeSlack
    <3>6. sup'.runFor = More(sup.runFor) /\ sup'.runFor <= sup.runFor + 1 /\ sup'.runFor \in Nat
      BY <3>1, <3>3, Numbers, ConstantTypes DEF Counted, More, Window
    <3>7. ~OnlyBeats(pipe') => sup'.runFor <= best' + PipeSlack'
      <4>1. ~OnlyBeats(pipe') => sup.runFor <= best + PipeSlack
        BY <2>1, <3>4 DEF Earned
      <4> QED BY <4>1, <3>5, <3>6, <2>3, Numbers
    <3>8. OnlyBeats(pipe') /\ proc'.phase = "run" => sup'.runFor <= served'
      <4> SUFFICES ASSUME OnlyBeats(pipe'), proc'.phase = "run" PROVE sup'.runFor <= served'
        OBVIOUS
      <4>1. sup.runFor <= served
        BY <2>1, <3>2, <3>4 DEF Earned
      <4>2. served' = More(served)
        BY <2>1, <2>3, <3>2, <3>3 DEF Watched, Counted
      <4> QED BY <4>1, <4>2, <3>6, Numbers, ConstantTypes DEF More, Window
    <3>9. OnlyBeats(pipe') /\ proc'.phase # "run" /\ pipe' # <<>> =>
            sup'.runFor + Lag <= best' + PipeSlack'
      <4>1. sup.runFor + Lag <= best + PipeSlack =>
              sup'.runFor + Lag <= best' + (PipeSlack + 1)
        BY <3>5, <3>6, <2>3, Numbers
      <4> QED BY <4>1, <2>1, <3>2, <3>4, <3>5 DEF Earned
    <3>10. pipe' = <<>> /\ proc'.phase # "run" /\ pc' # "poll" => sup'.runFor <= best' + lag'
      <4>1. sup.runFor <= best + lag => sup'.runFor <= best' + (lag + 1)
        BY <3>6, <2>3, Numbers
      <4> QED BY <4>1, <2>1, <3>2, <3>4 DEF Earned
    <3> QED BY <3>7, <3>8, <3>9, <3>10 DEF Earned
  <2> QED BY <2>3, <2>4
<1>4. CASE Signal \/ Installer \/ UNCHANGED vars
  BY <1>4, InstallerFrame DEF Signal, vars, chan, hist, Credit, Watched, Counted, Dead, Earned, PipeSlack
<1> QED BY <1>1, <1>2, <1>3, <1>4 DEF Next

\* Everything about time so far.
TimeInv == TimeTypes /\ Talk /\ Prompt /\ Room /\ Full /\ Credit

\* The facts about time hold before the first child.
LEMMA InitTime == Init => TimeInv
BY InitTimes DEF Init, TimeInv, Talk, Prompt, Room, Full, Credit, Watched, Monitoring

\* Every step keeps them.
LEMMA TimeStep ==
  ASSUME Punctual, Roomy
  PROVE  TimeInv /\ [Next]_vars => TimeInv'
BY NextTypes, TalkStep, PromptStep, RoomStep, FullStep, CreditStep DEF TimeInv

\* The failure counter is cleared only after a rollback, or when the child has
\* served for the stable window, up to the Supervisor's own lag.
THEOREM BackoffForgetsHolds ==
  ASSUME Punctual, Roomy
  PROVE  Spec => BackoffForgets
<1>1. TimeInv /\ [Next]_vars =>
        [(noise = 0 /\ failures' < failures)
            => (pc = "rollback" \/ best + Lag >= StableWindow)]_vars
  <2> SUFFICES ASSUME TimeInv, Next, noise = 0, failures' < failures, pc # "rollback"
               PROVE  best + Lag >= StableWindow
    BY DEF vars
  <2>a. TimeTypes /\ failures \in Nat
    BY DEF TimeInv, TimeTypes, ClockTypes
  <2>1. failures' # failures /\ failures' # NextFailures
    BY <2>a DEF NextFailures
  <2>2. ~App
    BY <2>1, AppFrame DEF supv
  <2>3. ~Signal /\ ~Tick /\ ~Installer
    BY <2>1, InstallerFrame DEF Signal, Tick, supv
  <2>4. MonitorChecks
    <3>1. ~(LoopEnds \/ LoopTerminates \/ Prepare \/ PrepareFails \/ SpawnStopped \/ Spawn \/ SpawnFails)
      BY <2>1 DEF LoopEnds, LoopTerminates, Prepare, PrepareFails, SpawnStopped, Spawn,
           SpawnFails, Backoff, supv
    <3>2. ~(MonitorStopped \/ MonitorReaps \/ MonitorExpires \/ Terminate \/ TerminateFails
              \/ GraceReaps \/ GraceKills \/ Stopped \/ Rollback \/ RollbackFails \/ BackoffEnds)
      BY <2>1 DEF MonitorStopped, MonitorReaps, MonitorExpires, Terminate, TerminateFails,
           GraceReaps, GraceKills, Stopped, Rollback, RollbackFails, BackoffEnds, Backoff, supv
    <3>3. ~(PollIdle \/ PollLate \/ PollReads \/ Apply \/ ReadEnds \/ MonitorDecides)
      BY <2>1 DEF PollIdle, PollLate, PollReads, Apply, ReadEnds, MonitorDecides, supv
    <3>4. ~(ConfirmStopped \/ ConfirmReads \/ ConfirmGoesOn \/ ConfirmFails \/ ConfirmCommits)
      BY <2>1 DEF ConfirmStopped, ConfirmReads, ConfirmGoesOn, ConfirmFails, ConfirmCommits, supv
    <3> QED BY <2>2, <2>3, <3>1, <3>2, <3>3, <3>4 DEF Next, Supervisor
  <2>5. MonitorStable /\ pc = "check" /\ proc.st = "live" /\ sup.deadline > 0
    BY <2>1, <2>4 DEF MonitorChecks
  <2>6. Watched /\ Protocol /\ PhaseTold /\ served <= best /\ (Counted => Earned)
    BY <2>5 DEF Watched, Monitoring, TimeInv, Talk, Credit
  <2>7. batch = <<>>
    BY <2>5, <2>6 DEF Protocol
  <2>8. Earned /\ sup.runFor >= StableWindow
    BY <2>5, <2>6, <2>7, <2>a, Numbers, BeatsEmpty DEF Counted, Dead, MonitorStable
  <2>9. PipeSlack = lag
    BY <2>5 DEF PipeSlack
  <2>10. sup.runFor <= best + Lag
    <3>1. CASE ~OnlyBeats(pipe)
      BY <3>1, <2>8, <2>9, <2>a, Numbers DEF Earned
    <3>2. CASE OnlyBeats(pipe) /\ proc.phase = "run"
      BY <3>2, <2>8, <2>6, <2>a, Numbers DEF Earned
    <3>3. CASE OnlyBeats(pipe) /\ proc.phase # "run" /\ pipe # <<>>
      BY <3>3, <2>8, <2>9, <2>a, Numbers, SMTT(30) DEF Earned
    <3>4. CASE proc.phase # "run" /\ pipe = <<>>
      BY <3>4, <2>8, <2>5, <2>a, Numbers, SMTT(30) DEF Earned
    <3> QED BY <3>1, <3>2, <3>3, <3>4
  <2> QED BY <2>8, <2>10, <2>a, Numbers, ConstantTypes
<1> QED BY <1>1, InitTime, TimeStep, PTL DEF Spec, BackoffForgets

\* Between two reads no child restarts and comes back: a RESTARTING in the pipe
\* belongs to a restart that is going on, and nothing in it starts a new RUN.
Fresh ==
  Watched /\ pc # "poll" /\ ~Dead =>
    /\ Has(pipe, "RESTARTING") /\ proc.st = "live" =>
         /\ proc.phase \in {"restart", "cleanup"}
         /\ proc.phase = "restart" => proc.age <= lag
    /\ Known = "RUNNING" => ~Has(pipe, "READY")

\* LinkG cannot restart and be back before the Supervisor looks.
LEMMA FreshApp ==
  ASSUME SlowRestart, TimeTypes, Watched, Protocol, PhaseTold, App, noise' = 0,
         pc # "poll", ~Dead, Fresh
  PROVE  /\ Has(pipe', "RESTARTING") /\ proc'.st = "live" =>
              /\ proc'.phase \in {"restart", "cleanup"}
              /\ proc'.phase = "restart" => proc'.age <= lag
         /\ Known' = "RUNNING" => ~Has(pipe', "READY")
<1> USE Numbers
<1>a. pipe \in Seq(Messages) /\ RestartMin \in Nat
  BY ConstantTypes DEF TimeTypes, StreamTypes
<1>1. UNCHANGED <<pc, sup, batch, lag, ropen, best, noise>>
  BY CleanApp
<1>2. Known' = Known
  BY <1>1 DEF Known
<1>3. /\ Has(pipe, "RESTARTING") /\ proc.st = "live" =>
           /\ proc.phase \in {"restart", "cleanup"}
           /\ proc.phase = "restart" => proc.age <= lag
      /\ Known = "RUNNING" => ~Has(pipe, "READY")
  BY DEF Fresh
<1>4. CASE AppReady /\ SendOk
  <2>1. proc.phase = "start" /\ proc.st = "live"
    BY <1>4 DEF AppReady, Alive
  <2>2. ~Has(pipe, "RESTARTING")
    BY <2>1, <1>3
  <2>3. pipe' = Append(pipe, "READY") /\ proc'.phase = "run"
    BY <1>4, ProcFields
  <2>4. ~Has(pipe', "RESTARTING")
    BY <2>2, <2>3, <1>a, BeatsAppend DEF Messages
  <2>5. Known # "RUNNING"
    <3> SUFFICES ASSUME Known = "RUNNING" PROVE FALSE
      OBVIOUS
    <3>1. Told \in {"STARTING", "RESTARTING"} /\ Told = EndState(pipe, Known)
      BY <2>1 DEF PhaseTold, Told
    <3>2. Told # "STARTING"
      BY <3>1, <1>a, EndsWith DEF EndState
    <3> QED BY <3>1, <3>2, <2>2, <1>a, EndsWith
  <2> QED BY <2>4, <2>5, <1>2
<1>5. CASE AppRestarts /\ SendOk
  <2>1. pipe' = Append(pipe, "RESTARTING") /\ proc'.phase = "restart" /\ proc'.age = 0
    BY <1>5, ProcFields
  <2>2. Has(pipe', "READY") <=> Has(pipe, "READY")
    BY <2>1, <1>a, BeatsAppend DEF Messages
  <2> QED BY <2>1, <2>2, <1>2, <1>3
<1>6. CASE Left
  <2>1. proc'.phase = "cleanup"
    BY <1>6, ProcFields
  <2>2. Has(pipe', "READY") <=> Has(pipe, "READY")
    <3>1. CASE pipe' = Append(pipe, "STOPPING")
      BY <3>1, <1>a, BeatsAppend DEF Messages
    <3> QED BY <3>1, <1>6, ProcFields
  <2> QED BY <2>1, <2>2, <1>2, <1>3
<1>7. CASE AppResets
  <2>1. proc.phase = "restart" /\ proc.st = "live" /\ proc.age >= RestartMin /\ pipe' = pipe
    BY <1>7, ProcFields DEF AppResets, Alive
  <2>2. ~Has(pipe, "RESTARTING")
    BY <2>1, <1>3, <1>a DEF SlowRestart
  <2> QED BY <2>1, <2>2, <1>2, <1>3
<1>8. CASE AppDies
  BY <1>8, <1>2, <1>3, ProcFields
<1>9. CASE AppHangs
  <2>1. pipe' = pipe /\ proc'.phase = proc.phase /\ proc'.age = proc.age /\ proc.st = "live"
    BY <1>9, ProcFields DEF AppHangs, Alive
  <2> QED BY <2>1, <1>2, <1>3
<1>10. CASE AppBeats
  <2>1. proc'.phase = proc.phase /\ proc.phase = "run" /\ proc.st = "live"
    BY <1>10, ProcFields DEF AppBeats, PhaseTold, Alive
  <2>2. \A x \in {"READY", "RESTARTING"} : Has(pipe', x) <=> Has(pipe, x)
    <3>1. CASE pipe' = Append(pipe, "HEARTBEAT")
      BY <3>1, <1>a, BeatsAppend DEF Messages
    <3> QED BY <3>1, <1>10, ProcFields
  <2> QED BY <2>1, <2>2, <1>2, <1>3
<1> QED BY <1>4, <1>5, <1>6, <1>7, <1>8, <1>9, <1>10, CleanApp

\* No step lets a second RUN into one read.
LEMMA FreshStep ==
  ASSUME SlowRestart
  PROVE  TimeTypes /\ Talk /\ Fresh /\ [Next]_vars => Fresh'
<1> SUFFICES ASSUME TimeTypes, Talk, Fresh, [Next]_vars, Watched', pc' # "poll", ~Dead'
             PROVE  /\ Has(pipe', "RESTARTING") /\ proc'.st = "live" =>
                         /\ proc'.phase \in {"restart", "cleanup"}
                         /\ proc'.phase = "restart" => proc'.age <= lag'
                    /\ Known' = "RUNNING" => ~Has(pipe', "READY")
  BY DEF Fresh
<1>a. ASSUME pipe' = <<>>
      PROVE  ~Has(pipe', "RESTARTING") /\ ~Has(pipe', "READY")
  BY <1>a, BeatsEmpty
<1>1. CASE App
  <2>1. Watched /\ UNCHANGED <<pc, lag, sup>> /\ noise' = 0 /\ Protocol /\ PhaseTold
    BY <1>1, CleanApp DEF Watched, Talk
  <2>2. pc # "poll" /\ ~Dead
    BY <2>1 DEF Dead
  <2> QED BY <2>1, <2>2, <1>1, FreshApp
<1>2. CASE Supervisor
  <2>1. CASE Spawn
    BY <2>1, <1>a DEF Spawn
  <2>2. CASE MonitorStep /\ pc \in Monitoring
    <3>1. Watched /\ proc' = proc /\ pc' \in Monitoring /\ Protocol
      BY <2>2, MonitorFrame DEF Watched, Talk
    <3>2. CASE Apply
      <4>1. pc' = pc /\ lag' = lag /\ pipe' = pipe /\ Known' = Known /\ pc \in {"read", "cread"}
        BY <3>1, <3>2, ApplyMoves DEF Apply
      <4> QED BY <4>1, <3>1 DEF Fresh, Dead
    <3>3. CASE PollReads \/ ConfirmReads
      BY <3>1, <3>3, <1>a, ReadSteps
    <3>4. CASE ~Apply /\ ~PollReads /\ ~ConfirmReads
      <4>1. UNCHANGED <<pipe, batch, ropen>> /\ sup'.state = sup.state
            /\ sup'.deadline = sup.deadline
        BY <2>2, <3>1, <3>4, QuietMoves, MonitorFrame
      <4>2. CASE pipe = <<>>
        BY <4>1, <4>2, <1>a
      <4>3. CASE pipe # <<>>
        <5>1. Readable
          BY <4>3, <3>1 DEF Readable, Protocol
        <5>2. pc # "poll" /\ lag' = lag /\ ~Dead
          BY <5>1, <4>1, <2>2, <3>1, <3>4, QuietMoves DEF Dead
        <5>3. Known' = Known
          BY <4>1 DEF Known
        <5> QED BY <5>2, <5>3, <4>1, <3>1 DEF Fresh
      <4> QED BY <4>2, <4>3
    <3> QED BY <3>2, <3>3, <3>4
  <2> QED BY <2>1, <2>2, <1>2, MonitorSteps DEF Watched
<1>3. CASE Tick
  <2>1. Watched /\ UNCHANGED <<pc, pipe, batch>> /\ lag' = lag + 1
    BY <1>3 DEF Tick, Watched, chan
  <2>2. sup'.state = sup.state /\ sup'.deadline = Less(sup.deadline)
    BY <1>3, <2>1, TickChild DEF Watched
  <2>3. pc # "poll" /\ ~Dead /\ Known' = Known
    BY <2>1, <2>2 DEF Dead, Less, Known
  <2>4. proc'.phase = proc.phase /\ proc'.st = proc.st /\ proc'.age <= proc.age + 1
    BY <1>3, Numbers, TickProc
  <2>5. proc'.age \in Nat
    BY <1>3, Numbers, TickProc
  <2>6. proc.age <= lag => proc'.age <= lag'
    BY <2>1, <2>4, <2>5, Numbers
  <2> QED BY <2>1, <2>3, <2>4, <2>6 DEF Fresh
<1>4. CASE Signal \/ Installer \/ UNCHANGED vars
  BY <1>4, InstallerFrame DEF Signal, vars, chan, Fresh, Watched, Dead, Known
<1> QED BY <1>1, <1>2, <1>3, <1>4 DEF Next

\* A confirmation under way belongs to one RUN whose window is full, and has
\* seen that the child served it.
Trial ==
  Watched =>
    /\ pc \in {"confirm", "commit"} => sup.state = "RUNNING"
    /\ pc = "cread" => ~Has(batch, "READY")
    /\ pc \in {"confirm", "cread", "commit"} /\ sup.state = "RUNNING" =>
         sup.runFor >= TrialWindow
    /\ pc = "commit" \/ (pc = "cread" /\ sup.state = "RUNNING" /\ OnlyBeats(batch)) =>
         best >= TrialWindow

\* A confirmation is begun and finished for one RUN.
LEMMA TrialMonitor ==
  ASSUME TimeTypes, Talk, Credit, Fresh, Trial, MonitorStep, pc \in Monitoring, Watched'
  PROVE  Trial'
<1> USE Numbers
<1>a. pipe \in Seq(Messages) /\ batch \in Seq(Messages) /\ sup \in ChildType
      /\ TrialWindow \in Nat
  BY ConstantTypes DEF TimeTypes, StreamTypes, ClockTypes
<1>1. UNCHANGED <<proc, noise, served, best>> /\ pc' \in Monitoring
  BY MonitorFrame DEF Watched
<1>2. Watched /\ Protocol /\ PhaseTold /\ served <= best /\ (Counted => Earned)
  BY <1>1 DEF Watched, Talk, Credit
<1>3. CASE Apply
  <2>1. pc' = pc /\ batch # <<>> /\ batch' = Tail(batch) /\ pc \in {"read", "cread"}
        /\ Head(batch) \in After(sup.state) /\ Head(batch) \in Messages
        /\ sup'.state = StateOf(Head(batch)) /\ sup' = Message(sup, Head(batch))
    BY <1>2, <1>3, ApplyMoves DEF Apply
  <2>2. CASE pc = "cread"
    <3>1. ~Has(batch', "READY") /\ Head(batch) # "READY"
      BY <2>1, <2>2, <1>2, <1>a, BeatsTail DEF Trial
    <3>2. ASSUME sup'.state = "RUNNING"
          PROVE  /\ sup.state = "RUNNING" /\ sup'.runFor = sup.runFor
                 /\ OnlyBeats(batch') => OnlyBeats(batch)
      <4>1. Head(batch) = "HEARTBEAT"
        BY <2>1, <3>1, <3>2 DEF StateOf, Messages
      <4>2. sup.state = "RUNNING" /\ sup'.runFor = sup.runFor
        BY <2>1, <4>1, <1>a, MessageEffect DEF After
      <4> QED BY <4>1, <4>2, <2>1, <1>a, BeatsTail
    <3> QED BY <2>1, <2>2, <3>1, <3>2, <1>1, <1>2 DEF Trial
  <2>3. CASE pc = "read"
    BY <2>1, <2>3 DEF Trial
  <2> QED BY <2>1, <2>2, <2>3
<1>4. CASE PollReads \/ ConfirmReads
  <2>1. /\ pipe' = <<>> /\ sup' = sup /\ batch = <<>> /\ sup.deadline > 0
        /\ \/ pc = "poll" /\ lag' = lag /\ pc' \in {"read", "decide"}
           \/ pc = "confirm" /\ lag' = 0 /\ pc' = "cread" /\ proc.st = "live"
        /\ \/ pipe # <<>> /\ batch' = pipe /\ pc' \in {"read", "cread"}
           \/ sup.state = "STOPPING" /\ batch' = <<>>
    BY <1>1, <1>2, <1>4, ReadSteps
  <2>2. CASE pc = "poll"
    BY <2>1, <2>2 DEF Trial
  <2>3. CASE pc = "confirm"
    <3>1. sup.state = "RUNNING" /\ sup.runFor >= TrialWindow /\ batch' = pipe /\ pc' = "cread"
          /\ pipe # <<>> /\ proc.st = "live"
      BY <2>1, <2>3, <1>2 DEF Trial
    <3>2. Known = "RUNNING" /\ ~Dead
      BY <2>1, <2>3, <3>1 DEF Known, EndState, Dead
    <3>3. ~Has(batch', "READY")
      BY <2>3, <3>1, <3>2, <1>2 DEF Fresh
    <3>4. OnlyBeats(pipe) => best >= TrialWindow
      <4> SUFFICES ASSUME OnlyBeats(pipe) PROVE best >= TrialWindow
        OBVIOUS
      <4>1. Earned /\ PipeSlack = lag
        BY <2>1, <2>3, <3>1, <3>2, <1>2, BeatsEmpty DEF Counted, PipeSlack
      <4>2. CASE proc.phase = "run"
        BY <4>1, <4>2, <3>1, <1>2, <1>a DEF Earned
      <4>3. CASE proc.phase # "run"
        BY <4>1, <4>3, <3>1, <1>a, SMTT(30) DEF Earned
      <4> QED BY <4>2, <4>3
    <3> QED BY <2>1, <3>1, <3>3, <3>4, <1>1 DEF Trial
  <2> QED BY <2>1, <2>2, <2>3
<1>5. CASE ~Apply /\ ~PollReads /\ ~ConfirmReads
  <2>1. UNCHANGED <<pipe, ropen, batch>> /\ batch = <<>>
    BY <1>1, <1>2, <1>5, QuietMoves
  <2>2. sup'.state = sup.state /\ sup'.deadline = sup.deadline /\ sup'.runFor = sup.runFor
    BY <1>1, <1>5, MonitorFrame
  <2>3. pc' # "cread"
    BY <1>1, <1>2, <1>5, QuietMoves
  <2>4. CASE pc' \notin {"confirm", "commit"}
    BY <2>3, <2>4 DEF Trial
  <2>5. CASE pc' \in {"confirm", "commit"}
    <3>1. sup.state = "RUNNING" /\ sup.runFor >= TrialWindow
      BY <2>5, <1>1, <1>2, <1>5, QuietMoves DEF Trial, ConfirmDue
    <3>2. CASE pc = "decide" /\ pc' = "confirm"
      BY <3>1, <3>2, <2>2 DEF Trial
    <3>3. CASE pc = "cread"
      <4>1. best >= TrialWindow
        BY <3>1, <3>3, <2>1, <1>2, BeatsEmpty DEF Trial
      <4> QED BY <4>1, <3>1, <2>2, <2>3, <1>1 DEF Trial
    <3>4. CASE pc = "confirm" /\ proc.st = "live" /\ ~Readable
      <4>1. ropen
        BY <3>1, <1>2 DEF Protocol
      <4>2. pipe = <<>> /\ proc.wopen
        BY <4>1, <3>4 DEF Readable
      <4>3. Counted /\ OnlyBeats(pipe)
        BY <4>2, <3>1, <3>4, <2>1, BeatsEmpty DEF Counted, Dead
      <4>4. proc.phase = "run" /\ Earned
        BY <4>2, <4>3, <1>2, OnlyServing
      <4>5. best >= TrialWindow
        BY <4>3, <4>4, <3>1, <1>2, <1>a DEF Earned
      <4> QED BY <4>5, <3>1, <2>2, <2>3, <1>1 DEF Trial
    <3> QED BY <2>5, <3>2, <3>3, <3>4, <1>1, <1>2, <1>5, QuietMoves
  <2> QED BY <2>4, <2>5
<1> QED BY <1>3, <1>4, <1>5

\* Every step keeps that.
LEMMA TrialStep == TimeTypes /\ Talk /\ Credit /\ Fresh /\ Trial /\ [Next]_vars => Trial'
<1> SUFFICES ASSUME TimeTypes, Talk, Credit, Fresh, Trial, [Next]_vars, Watched' PROVE Trial'
  BY DEF Trial
<1>1. CASE App
  <2>1. Watched /\ UNCHANGED <<pc, sup, batch, best>>
    BY <1>1, CleanApp DEF Watched
  <2> QED BY <2>1 DEF Trial
<1>2. CASE Supervisor
  <2>1. CASE Spawn
    BY <2>1 DEF Spawn, Goto, Trial
  <2> QED BY <2>1, <1>2, MonitorSteps, TrialMonitor DEF Watched
<1>3. CASE Tick
  <2>1. Watched /\ UNCHANGED <<pc, batch>>
    BY <1>3 DEF Tick, Watched, chan
  <2>2. sup'.state = sup.state
        /\ sup'.runFor = IF sup.state = "RUNNING" THEN More(sup.runFor) ELSE sup.runFor
    BY <1>3, <2>1, TickChild DEF Watched
  <2>3. sup'.runFor >= sup.runFor /\ sup'.runFor \in Nat
    BY <2>2, Numbers, ConstantTypes DEF More, Window
  <2>4. best' >= best /\ best' \in Nat
    BY <1>3, Numbers, ConstantTypes DEF Tick, Larger, More, Window
  <2>5. /\ sup.runFor >= TrialWindow => sup'.runFor >= TrialWindow
        /\ best >= TrialWindow => best' >= TrialWindow
    BY <2>3, <2>4, Numbers, ConstantTypes
  <2> QED BY <2>1, <2>2, <2>5 DEF Trial
<1>4. CASE Signal \/ Installer \/ UNCHANGED vars
  BY <1>4, InstallerFrame DEF Signal, vars, chan, hist, Trial, Watched
<1> QED BY <1>1, <1>2, <1>3, <1>4 DEF Next

\* A candidate becomes stable only after it served a full window.
THEOREM ConfirmEarnedHolds ==
  ASSUME Punctual, Roomy, SlowRestart
  PROVE  Spec => ConfirmEarned
<1> DEFINE Inv == TimeInv /\ Fresh /\ Trial
<1>1. Init => Inv
  BY InitTime DEF Init, Fresh, Trial, Watched, Monitoring
<1>2. Inv /\ [Next]_vars => Inv'
  BY TimeStep, FreshStep, TrialStep DEF TimeInv
<1>3. Inv /\ [Next]_vars =>
        [(noise = 0 /\ pc = "commit" /\ trial /\ ~trial')
            => (best >= TrialWindow /\ sup.runFor >= TrialWindow)]_vars
  BY DEF vars, Trial, Watched, Monitoring
<1> QED BY <1>1, <1>2, <1>3, PTL DEF Spec, ConfirmEarned

==============================================================================
