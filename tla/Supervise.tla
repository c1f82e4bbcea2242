------------------------------ MODULE Supervise ------------------------------
(***************************************************************************)
(* The Supervisor's process monitor (supervisor_process.c) and the LinkG   *)
(* process it watches (linkg_supervisor_client.c and the main loop of      *)
(* linkg_main.c), which talk over one pipe of single-byte messages.        *)
(*                                                                         *)
(* Time is counted in ticks.  An absolute time of the code (deadline_ms,   *)
(* running_ms, confirm_ms) is kept as the ticks that remain or have passed.*)
(* What a release transaction does to flash is module Ota: here            *)
(* preparing, committing and rolling back succeed or fail.                 *)
(***************************************************************************)
EXTENDS Naturals, Sequences

CONSTANTS
  StartTimeout, Heartbeat, RestartTimeout, TerminateWait, RetryInitial,
  RetryMax, StableWindow, TrialWindow, ConfirmRetry,  \* supervisor_config.h
  MaxFailures, \* saturation of the failure counter, 32 in the code
  Beat,        \* period of the client's heartbeat worker
  Lag,         \* longest time between two looks of the Supervisor at its child
  RestartMin,  \* shortest time a service restart takes
  PipeCap,     \* bound: messages the pipe holds
  MaxNoise     \* bound: messages one child sends that its client would not send

ASSUME SuperviseAssumption ==
  /\ {StartTimeout, Heartbeat, RestartTimeout, TerminateWait, RetryInitial,
      RetryMax, StableWindow, TrialWindow, ConfirmRetry, MaxFailures, Beat,
      PipeCap} \subseteq Nat \ {0}
  /\ {Lag, RestartMin, MaxNoise} \subseteq Nat

VARIABLES
  \* _supervisor_process_run
  pc,        \* where its loop, the monitor or the termination is
  pid,       \* child.child_pid > 0
  failures,
  trial,     \* release.trial: the Supervisor's belief, read from version.json
  json,      \* what version.json selects now
  rollbackPending,
  stop,      \* g_supervisor_stop
  delay,     \* ticks left of a back-off or of the SIGTERM grace
  \* supervisor_child_t
  sup,       \* state, deadline, runFor (since running_ms), confirmIn, stable
  batch,     \* bytes of the last read that are not applied yet
  lag,       \* ticks since the last look at the child
  \* the pipe and the process
  pipe, ropen,
  proc,      \* process: st, phase of main, client.running, and so on
  noise,
  \* history
  idle,      \* ticks since the Supervisor last had the child in RUNNING
  served,    \* ticks of the process's current RUN phase
  best,      \* longest RUN phase of the process
  tries      \* times the newest candidate was given to spawn

supv == <<pid, failures, trial, json, rollbackPending>>
chan == <<pipe, ropen, batch>>
hist == <<idle, served, best, tries>>
vars == <<pc, pid, failures, trial, json, rollbackPending, stop, delay, sup,
          batch, lag, pipe, ropen, proc, noise, idle, served, best, tries>>

\* version.json selects the stable release, a candidate, or what an installer
\* made of it while the Supervisor still held an earlier candidate on trial.
Selections == {"stable", "candidate", "newer"}
Messages == {"READY", "HEARTBEAT", "RESTARTING", "STOPPING", "other"}
States == {"STARTING", "RUNNING", "RESTARTING", "STOPPING"}
Monitoring == {"check", "poll", "read", "decide", "confirm", "cread", "commit"}
Pcs == Monitoring \cup {"loop", "spawn", "terminate", "grace", "stopped",
                        "rollback", "backoff", "retry", "done"}
Window == IF StableWindow > TrialWindow THEN StableWindow ELSE TrialWindow
Less(n) == IF n = 0 THEN 0 ELSE n - 1
More(n) == IF n < Window THEN n + 1 ELSE n
Larger(a, b) == IF a > b THEN a ELSE b

NewChild == [state |-> "STARTING", deadline |-> StartTimeout, runFor |-> 0,
             confirmIn |-> 0, stable |-> FALSE]
NoProc == [st |-> "none", phase |-> "start", running |-> FALSE, hung |-> FALSE,
           wopen |-> FALSE, term |-> FALSE, due |-> 0, age |-> 0]

Init ==
  /\ pc = "loop" /\ pid = FALSE /\ failures = 0
  /\ trial = FALSE /\ json \in {"stable", "candidate"}
  /\ rollbackPending = FALSE /\ stop = FALSE /\ delay = 0
  /\ sup = NewChild /\ batch = <<>> /\ lag = 0
  /\ pipe = <<>> /\ ropen = FALSE /\ proc = NoProc /\ noise = 0
  /\ idle = 0 /\ served = 0 /\ best = 0 /\ tries = 0

------------------------------------------------------------------------------
(* LinkG: every action needs a live process that is not hung.               *)

Alive == proc.st = "live" /\ ~proc.hung
SendOk == ropen /\ Len(pipe) < PipeCap
Send(m) == pipe' = IF SendOk THEN Append(pipe, m) ELSE pipe

AppSide == UNCHANGED <<pc, supv, stop, delay, sup, batch, lag, ropen, idle, best, tries>>
InstallerSide == UNCHANGED <<pc, pid, failures, trial, rollbackPending, stop, delay, sup,
                             batch, lag, pipe, ropen, proc, noise, idle, served, best>>

\* linkg_supervisor_client_deinit, then the last cleanup of main
Leave ==
  /\ Send("STOPPING")
  /\ proc' = [proc EXCEPT !.phase = "cleanup", !.running = FALSE, !.wopen = FALSE]
  /\ served' = 0

\* Initialization and start succeed; a READY that is not sent ends the process.
AppReady ==
  /\ Alive /\ proc.phase = "start"
  /\ IF SendOk
     THEN /\ Send("READY")
          /\ proc' = [proc EXCEPT !.phase = "run", !.running = TRUE, !.due = Beat]
          /\ served' = 0
     ELSE Leave
  /\ AppSide /\ UNCHANGED noise

\* Initialization, start or the cleanup of a restart fails.
AppFails ==
  /\ Alive /\ proc.phase \in {"start", "restart"}
  /\ Leave
  /\ AppSide /\ UNCHANGED noise

\* LINKG_EXIT_ACTION_RESTART_SERVICES: heartbeats stop before the message.
AppRestarts ==
  /\ Alive /\ proc.phase = "run"
  /\ IF SendOk
     THEN /\ Send("RESTARTING")
          /\ proc' = [proc EXCEPT !.phase = "restart", !.running = FALSE, !.age = 0]
          /\ served' = 0
     ELSE Leave
  /\ AppSide /\ UNCHANGED noise

\* The cleanup of a restart is over and linkg_lifecycle_reset drains every
\* pending signal.
AppResets ==
  /\ Alive /\ proc.phase = "restart" /\ proc.age >= RestartMin
  /\ proc' = [proc EXCEPT !.phase = "start", !.term = FALSE]
  /\ AppSide /\ UNCHANGED <<pipe, noise, served>>

\* wait_for_exit returns EXIT or REBOOT_SYSTEM, on request or on SIGTERM.
AppLeaves ==
  /\ Alive /\ proc.phase = "run"
  /\ Leave
  /\ AppSide /\ UNCHANGED noise

\* The process ends: after its cleanup, or crashed in any phase.
AppDies ==
  /\ proc.st = "live"
  /\ proc' = [proc EXCEPT !.st = "zombie", !.running = FALSE, !.hung = FALSE,
                          !.wopen = FALSE, !.term = FALSE]
  /\ served' = 0
  /\ AppSide /\ UNCHANGED <<pipe, noise>>

AppHangs ==
  /\ Alive
  /\ proc' = [proc EXCEPT !.hung = TRUE]
  /\ AppSide /\ UNCHANGED <<pipe, noise, served>>

\* _supervisor_client_worker: a full pipe costs one beat, a closed one ends them.
AppBeats ==
  /\ Alive /\ proc.running /\ proc.due = 0
  /\ Send("HEARTBEAT")
  /\ proc' = [proc EXCEPT !.due = Beat, !.running = ropen]
  /\ AppSide /\ UNCHANGED <<noise, served>>

\* A program that does not follow the protocol (supervisor_process_run starts
\* any program); how long it has served means nothing from then on.
AppWrites(m) ==
  /\ Alive /\ proc.wopen /\ SendOk
  /\ noise < MaxNoise /\ noise' = noise + 1
  /\ Send(m)
  /\ served' = 0 /\ best' = 0
  /\ UNCHANGED <<pc, supv, stop, delay, sup, batch, lag, ropen, proc, idle, tries>>

\* upgrade_commit_candidate: LinkG's upgrade thread makes a new release the
\* candidate, in a JSON that selects the stable one.
AppInstalls ==
  /\ proc.st = "live" /\ json = "stable"
  /\ json' = IF trial THEN "newer" ELSE "candidate"
  /\ tries' = 0
  /\ InstallerSide

\* upgrade_commit_fail: the same thread takes its candidate back.
AppAbandons ==
  /\ proc.st = "live" /\ json = "candidate" /\ ~trial
  /\ json' = "stable"
  /\ UNCHANGED tries
  /\ InstallerSide

------------------------------------------------------------------------------
(* Supervisor.                                                              *)

SupSide == UNCHANGED <<stop, noise, served, best>>
Goto(p) == pc' = p

\* Mutants of the parts of Message: a repeated RESTARTING is taken again, a
\* heartbeat does not renew its window.
TakesRestartingAgain(c) == c.state \in {"RUNNING", "RESTARTING"}
BeatDeadlineKept(c) == c.deadline

\* _supervisor_message: only RUNNING earns a cleanup window, only RUNNING may
\* restart, and no repeated control message extends a deadline.
StoppingDeadline(c) == IF c.state = "RUNNING" THEN RestartTimeout ELSE c.deadline
TakesRestarting(c) == c.state = "RUNNING"
BeatDeadline(c) == IF c.state = "RUNNING" THEN Heartbeat ELSE c.deadline
Message(c, m) ==
  CASE m = "READY" /\ c.state \in {"STARTING", "RESTARTING"} ->
         [c EXCEPT !.state = "RUNNING", !.deadline = Heartbeat, !.runFor = 0]
    [] m = "HEARTBEAT" -> [c EXCEPT !.deadline = BeatDeadline(c)]
    [] m = "RESTARTING" /\ TakesRestarting(c) ->
         [c EXCEPT !.state = "RESTARTING", !.deadline = RestartTimeout, !.stable = FALSE]
    [] m = "STOPPING" ->
         [c EXCEPT !.state = "STOPPING", !.deadline = StoppingDeadline(c)]
    [] OTHER -> c

\* _supervisor_backoff: the delay doubles with every failure in a row.
RetryDelay[f \in Nat] ==
  IF f <= 1 THEN RetryInitial
  ELSE IF 2 * RetryDelay[f - 1] > RetryMax THEN RetryMax ELSE 2 * RetryDelay[f - 1]

NextFailures == IF failures < MaxFailures THEN failures + 1 ELSE failures
Backoff(p) ==
  /\ pc' = p /\ failures' = NextFailures /\ delay' = RetryDelay[NextFailures]

\* The monitor returns an error: a candidate is rolled back, unless stopped.
MonitorEnds ==
  /\ Goto("terminate")
  /\ rollbackPending' = (trial /\ ~stop)

LoopEndsUnlessPending ==
  /\ pc = "loop" /\ stop /\ ~pid /\ ~rollbackPending
  /\ Goto("done")
  /\ SupSide /\ UNCHANGED <<supv, delay, sup, lag, chan, proc, idle, tries>>

\* Top of the loop of _supervisor_process_run.
LoopEnds ==
  /\ pc = "loop" /\ stop /\ ~pid
  /\ Goto("done")
  /\ SupSide /\ UNCHANGED <<supv, delay, sup, lag, chan, proc, idle, tries>>

LoopTerminates ==
  /\ pc = "loop" /\ (pid \/ (rollbackPending /\ ~stop))
  /\ Goto("terminate")
  /\ SupSide /\ UNCHANGED <<supv, delay, sup, lag, chan, proc, idle, tries>>

\* Every prepare reads the JSON anew.  A candidate goes on trial or is settled,
\* rolled back or completed after an ENV that was confirmed without the JSON.
Prepare ==
  /\ pc = "loop" /\ ~stop /\ ~pid /\ ~rollbackPending
  /\ Goto("spawn")
  /\ \/ trial' = (json # "stable") /\ UNCHANGED json
     \/ json # "stable" /\ trial' = FALSE /\ json' = "stable"
  /\ SupSide /\ UNCHANGED <<pid, failures, rollbackPending, delay, sup, lag, chan,
                           proc, idle, tries>>

\* It fails before the load, after it, or with the candidate settled in the
\* JSON and perhaps not yet in the ENV.
PrepareFails ==
  /\ pc = "loop" /\ ~stop /\ ~pid /\ ~rollbackPending
  /\ Backoff("backoff")
  /\ \/ UNCHANGED <<trial, json>>
     \/ trial' = (json # "stable") /\ UNCHANGED json
     \/ json # "stable" /\ trial' \in BOOLEAN /\ json' = "stable"
  /\ SupSide /\ UNCHANGED <<pid, rollbackPending, sup, lag, chan, proc, idle, tries>>

SpawnStopped ==
  /\ pc = "spawn" /\ stop
  /\ Goto("done")
  /\ SupSide /\ UNCHANGED <<supv, delay, sup, lag, chan, proc, idle, tries>>

\* _supervisor_spawn
Spawn ==
  /\ pc = "spawn" /\ ~stop
  /\ Goto("check")
  /\ pid' = TRUE
  /\ sup' = NewChild /\ lag' = 0
  /\ pipe' = <<>> /\ ropen' = TRUE /\ batch' = <<>>
  /\ proc' = [NoProc EXCEPT !.st = "live", !.wopen = TRUE]
  /\ idle' = 0 /\ served' = 0 /\ best' = 0
  /\ tries' = IF trial THEN tries + 1 ELSE tries
  /\ UNCHANGED <<failures, trial, json, rollbackPending, stop, delay, noise>>

SpawnFails ==
  /\ pc = "spawn" /\ ~stop
  /\ MonitorEnds
  /\ tries' = IF trial THEN tries + 1 ELSE tries
  /\ SupSide /\ UNCHANGED <<pid, failures, trial, json, delay, sup, lag, chan, proc, idle>>

\* _supervisor_monitor, first half of an iteration: exit flag, waitpid, deadline,
\* stable window.
MonitorStopped ==
  /\ pc = "check" /\ stop
  /\ MonitorEnds
  /\ SupSide /\ UNCHANGED <<pid, failures, trial, json, delay, sup, lag, chan, proc, idle, tries>>

\* _supervisor_reap
MonitorReaps ==
  /\ pc \in {"check", "confirm"} /\ ~stop /\ proc.st = "zombie"
  /\ MonitorEnds
  /\ pid' = FALSE /\ proc' = NoProc
  /\ SupSide /\ UNCHANGED <<failures, trial, json, delay, sup, lag, chan, idle, tries>>

\* Mutant of MonitorExpires: only heartbeats have a deadline.
MonitorExpiresRunning ==
  /\ pc \in {"check", "confirm"} /\ ~stop /\ proc.st = "live" /\ sup.deadline = 0
  /\ sup.state = "RUNNING"
  /\ MonitorEnds
  /\ SupSide /\ UNCHANGED <<pid, failures, trial, json, delay, sup, lag, chan, proc, idle, tries>>

MonitorExpires ==
  /\ pc \in {"check", "confirm"} /\ ~stop /\ proc.st = "live" /\ sup.deadline = 0
  /\ MonitorEnds
  /\ SupSide /\ UNCHANGED <<pid, failures, trial, json, delay, sup, lag, chan, proc, idle, tries>>

\* Mutant of MonitorStable: READY counts as stable.
MonitorStableAtReady == sup.state = "RUNNING" /\ ~sup.stable

MonitorStable == sup.state = "RUNNING" /\ ~sup.stable /\ sup.runFor >= StableWindow

MonitorChecks ==
  /\ pc = "check" /\ ~stop /\ proc.st = "live" /\ sup.deadline > 0
  /\ Goto("poll") /\ lag' = 0
  /\ failures' = IF MonitorStable THEN 0 ELSE failures
  /\ sup' = [sup EXCEPT !.stable = @ \/ MonitorStable]
  /\ SupSide /\ UNCHANGED <<pid, trial, json, rollbackPending, delay, chan, proc, idle, tries>>

Readable == ropen /\ (pipe # <<>> \/ ~proc.wopen)

\* poll finds nothing to read before it times out or a signal wakes it.
PollIdle ==
  /\ pc = "poll" /\ ~Readable
  /\ Goto("decide")
  /\ SupSide /\ UNCHANGED <<supv, delay, sup, lag, chan, proc, idle, tries>>

\* A message that arrives after the deadline is not read.
PollLate ==
  /\ pc = "poll" /\ Readable /\ sup.deadline = 0
  /\ Goto("check")
  /\ SupSide /\ UNCHANGED <<supv, delay, sup, lag, chan, proc, idle, tries>>

\* _supervisor_receive: one read takes everything the pipe holds.
Read(p) ==
  /\ pipe # <<>> /\ Goto(p)
  /\ batch' = pipe /\ pipe' = <<>> /\ UNCHANGED <<rollbackPending, ropen>>

\* End of file: expected after STOPPING only.
ReadEof(p) ==
  /\ pipe = <<>> /\ ~proc.wopen
  /\ ropen' = FALSE /\ UNCHANGED <<pipe, batch>>
  /\ IF sup.state = "STOPPING" THEN Goto(p) /\ UNCHANGED rollbackPending ELSE MonitorEnds

PollReads ==
  /\ pc = "poll" /\ ropen /\ sup.deadline > 0
  /\ Read("read") \/ ReadEof("decide")
  /\ SupSide /\ UNCHANGED <<pid, failures, trial, json, delay, sup, lag, proc, idle, tries>>

\* One byte of the batch; an unknown one is a protocol error.
Apply ==
  /\ pc \in {"read", "cread"} /\ batch # <<>>
  /\ batch' = Tail(batch)
  /\ sup' = Message(sup, Head(batch))
  /\ idle' = IF sup'.state = "RUNNING" THEN 0 ELSE idle
  /\ IF Head(batch) = "other" THEN MonitorEnds ELSE UNCHANGED <<pc, rollbackPending>>
  /\ SupSide /\ UNCHANGED <<pid, failures, trial, json, delay, lag, pipe, ropen, proc, tries>>

ReadEnds ==
  /\ pc = "read" /\ batch = <<>>
  /\ Goto("decide")
  /\ SupSide /\ UNCHANGED <<supv, delay, sup, lag, chan, proc, idle, tries>>

\* Second half of an iteration: is the candidate's window complete?
ConfirmDue ==
  /\ trial /\ sup.state = "RUNNING" /\ sup.deadline > 0
  /\ sup.confirmIn = 0 /\ sup.runFor >= TrialWindow

MonitorDecides ==
  /\ pc = "decide"
  /\ Goto(IF ConfirmDue THEN "confirm" ELSE "check")
  /\ SupSide /\ UNCHANGED <<supv, delay, sup, lag, chan, proc, idle, tries>>

\* supervisor_release_confirm gives up; the monitor goes on and tries again.
ConfirmLater ==
  /\ Goto("check")
  /\ sup' = [sup EXCEPT !.confirmIn = ConfirmRetry]

\* _supervisor_confirmation_progress, called before, during and after the tools
\* that confirm the ENV.  A dead child and an expired deadline are MonitorReaps
\* and MonitorExpires.
ConfirmStopped ==
  /\ pc = "confirm" /\ stop
  /\ ConfirmLater
  /\ SupSide /\ UNCHANGED <<supv, delay, lag, chan, proc, idle, tries>>

ConfirmReads ==
  /\ pc = "confirm" /\ ~stop /\ proc.st = "live" /\ sup.deadline > 0 /\ Readable
  /\ Read("cread") \/ ReadEof("cread")
  /\ lag' = 0
  /\ SupSide /\ UNCHANGED <<pid, failures, trial, json, delay, sup, proc, idle, tries>>

ConfirmChecked ==
  \/ pc = "confirm" /\ ~stop /\ proc.st = "live" /\ sup.deadline > 0 /\ ~Readable
  \/ pc = "cread" /\ batch = <<>>

\* Mutant of ConfirmGoesOn: the state of the child is not looked at.
ConfirmGoesOnBlindly ==
  /\ ConfirmChecked
  /\ pc' \in {"confirm", "commit"} /\ lag' = IF pc = "confirm" THEN 0 ELSE lag
  /\ SupSide /\ UNCHANGED <<supv, delay, sup, chan, proc, idle, tries>>

\* The child is RUNNING: another tool runs, or the last check before the JSON.
ConfirmGoesOn ==
  /\ ConfirmChecked /\ sup.state = "RUNNING"
  /\ pc' \in {"confirm", "commit"} /\ lag' = IF pc = "confirm" THEN 0 ELSE lag
  /\ SupSide /\ UNCHANGED <<supv, delay, sup, chan, proc, idle, tries>>

\* A replacement of the JSON that fails may have renamed it already.
Torn == json' = json \/ (json = "candidate" /\ json' = "stable")

\* It is not (-EAGAIN), or a tool or the JSON write fails.
ConfirmFails ==
  /\ \/ pc = "commit" /\ Torn
     \/ ConfirmChecked /\ sup.state # "RUNNING" /\ UNCHANGED json
  /\ ConfirmLater
  /\ SupSide /\ UNCHANGED <<pid, failures, trial, rollbackPending, delay, lag, chan,
                           proc, idle, tries>>

\* _supervisor_release_commit writes the JSON, or finds its own write there.
ConfirmCommits ==
  /\ pc = "commit" /\ json # "newer"
  /\ Goto("check") /\ trial' = FALSE /\ json' = "stable"
  /\ SupSide /\ UNCHANGED <<pid, failures, rollbackPending, delay, sup, lag, chan,
                           proc, idle, tries>>

\* _supervisor_terminate: close the pipe; SIGTERM unless the child is a zombie.
Terminate ==
  /\ pc = "terminate"
  /\ ropen' = FALSE /\ pipe' = <<>> /\ batch' = <<>>
  /\ IF pid
     THEN /\ Goto("grace") /\ delay' = TerminateWait
          /\ proc' = [proc EXCEPT !.term = (proc.st = "live")]
     ELSE Goto("stopped") /\ UNCHANGED <<delay, proc>>
  /\ SupSide /\ UNCHANGED <<supv, sup, lag, idle, tries>>

\* waitid, kill or waitpid fails: the child is kept and the lock stays held.
TerminateFails ==
  /\ pc \in {"terminate", "grace"} /\ pid
  /\ Backoff("retry")
  /\ ropen' = FALSE /\ pipe' = <<>> /\ batch' = <<>>
  /\ SupSide /\ UNCHANGED <<pid, trial, json, rollbackPending, sup, lag, proc, idle, tries>>

GraceReaps ==
  /\ pc = "grace" /\ delay > 0 /\ proc.st = "zombie"
  /\ Goto("stopped") /\ pid' = FALSE /\ proc' = NoProc /\ delay' = 0
  /\ SupSide /\ UNCHANGED <<failures, trial, json, rollbackPending, sup, lag, chan, idle, tries>>

\* Mutant of GraceKills: the wait for the killed process is left out.
GraceKillsNoWait ==
  /\ pc = "grace" /\ delay = 0
  /\ Goto("stopped") /\ pid' = FALSE
  /\ SupSide /\ UNCHANGED <<failures, trial, json, rollbackPending, delay, sup, lag, chan,
                           proc, idle, tries>>

\* SIGKILL, then a blocking waitpid.
GraceKills ==
  /\ pc = "grace" /\ delay = 0
  /\ Goto("stopped") /\ pid' = FALSE /\ proc' = NoProc
  /\ SupSide /\ UNCHANGED <<failures, trial, json, rollbackPending, delay, sup, lag, chan,
                           idle, tries>>

\* The child is gone: end, roll the candidate back, or start again after a pause.
Stopped ==
  /\ pc = "stopped"
  /\ IF stop \/ rollbackPending
     THEN Goto(IF stop THEN "done" ELSE "rollback") /\ UNCHANGED <<failures, delay>>
     ELSE Backoff("backoff")
  /\ idle' = 0 /\ best' = 0 /\ noise' = 0
  /\ UNCHANGED <<pid, trial, json, rollbackPending, stop, sup, lag, chan, proc, served, tries>>

\* Mutant of Rollback: the pending rollback is not cleared.
RollbackKeepsPending ==
  /\ pc = "rollback" /\ json # "newer"
  /\ Goto("loop")
  /\ failures' = 0 /\ trial' = FALSE /\ json' = "stable"
  /\ SupSide /\ UNCHANGED <<pid, rollbackPending, delay, sup, lag, chan, proc, idle, tries>>

\* supervisor_release_rollback; a JSON of an installer is left alone (-ESTALE).
Rollback ==
  /\ pc = "rollback" /\ json # "newer"
  /\ Goto("loop")
  /\ rollbackPending' = FALSE /\ failures' = 0 /\ trial' = FALSE /\ json' = "stable"
  /\ SupSide /\ UNCHANGED <<pid, delay, sup, lag, chan, proc, idle, tries>>

\* Mutant of RollbackFails: a rollback that fails is forgotten.
RollbackFailsForgets ==
  /\ pc = "rollback"
  /\ Backoff("backoff") /\ rollbackPending' = FALSE /\ Torn
  /\ SupSide /\ UNCHANGED <<pid, trial, sup, lag, chan, proc, idle, tries>>

RollbackFails ==
  /\ pc = "rollback"
  /\ Backoff("backoff") /\ Torn
  /\ SupSide /\ UNCHANGED <<pid, trial, rollbackPending, sup, lag, chan, proc, idle,
                           tries>>

\* A pause ends; an exit signal ends it early unless a child is left over.
BackoffEnds ==
  /\ pc \in {"backoff", "retry"}
  /\ delay = 0 \/ (pc = "backoff" /\ stop)
  /\ Goto("loop") /\ delay' = 0
  /\ SupSide /\ UNCHANGED <<supv, sup, lag, chan, proc, idle, tries>>

\* _supervisor_signal
Signal ==
  /\ ~stop /\ pc # "done" /\ stop' = TRUE
  /\ UNCHANGED <<pc, supv, delay, sup, lag, chan, proc, noise, hist>>

------------------------------------------------------------------------------
(* Time.  The Supervisor looks at its child at least every Lag ticks, and   *)
(* the heartbeat worker of a process that is not hung is punctual.          *)

Tick ==
  /\ pc \in Monitoring => lag < Lag
  /\ ~(Alive /\ proc.running /\ proc.due = 0)
  /\ pc # "done"
  /\ lag' = IF pc \in Monitoring THEN lag + 1 ELSE lag
  /\ delay' = Less(delay)
  /\ sup' = IF pc \in Monitoring
            THEN [sup EXCEPT !.deadline = Less(@), !.confirmIn = Less(@),
                             !.runFor = IF sup.state = "RUNNING" THEN More(@) ELSE @]
            ELSE sup
  /\ proc' = [proc EXCEPT !.due = Less(@),
              !.age = IF proc.phase = "restart" /\ @ < RestartMin THEN @ + 1 ELSE @]
  /\ idle' = IF pid /\ pc \in Monitoring /\ sup.state # "RUNNING" THEN idle + 1 ELSE idle
  /\ served' = IF proc.st = "live" /\ proc.phase = "run" /\ noise = 0 THEN More(served) ELSE served
  /\ best' = Larger(best, served')
  /\ UNCHANGED <<pc, supv, stop, chan, noise, tries>>

App ==
  \/ AppReady \/ AppFails \/ AppRestarts \/ AppResets \/ AppLeaves
  \/ AppDies \/ AppHangs \/ AppBeats \/ \E m \in Messages : AppWrites(m)

Installer == AppInstalls \/ AppAbandons

Supervisor ==
  \/ LoopEnds \/ LoopTerminates \/ Prepare \/ PrepareFails
  \/ SpawnStopped \/ Spawn \/ SpawnFails
  \/ MonitorStopped \/ MonitorReaps \/ MonitorExpires \/ MonitorChecks
  \/ PollIdle \/ PollLate \/ PollReads \/ Apply \/ ReadEnds \/ MonitorDecides
  \/ ConfirmStopped \/ ConfirmReads \/ ConfirmGoesOn \/ ConfirmFails \/ ConfirmCommits
  \/ Terminate \/ TerminateFails \/ GraceReaps \/ GraceKills \/ Stopped
  \/ Rollback \/ RollbackFails \/ BackoffEnds

Next == App \/ Installer \/ Supervisor \/ Signal \/ Tick

Spec == Init /\ [][Next]_vars

\* The Supervisor's single thread is scheduled and the clock advances.  Errors of
\* the system calls, the JSON and the ENV do not go on for ever.  Of LinkG only
\* the heartbeat worker is assumed to run, which Tick waits for; a process that
\* is hung or dead has none.
Fails == PrepareFails \/ SpawnFails \/ TerminateFails \/ RollbackFails

Fairness ==
  /\ WF_vars(Tick) /\ WF_vars(Supervisor) /\ WF_vars(AppBeats)
  /\ <>[][~Fails]_vars

FairSpec == Spec /\ Fairness

------------------------------------------------------------------------------
(* Properties.                                                              *)

ProcType == [st : {"none", "live", "zombie"},
             phase : {"start", "run", "restart", "cleanup"}, running : BOOLEAN,
             hung : BOOLEAN, wopen : BOOLEAN, term : BOOLEAN, due : Nat, age : Nat]

\* The inductive invariant of the proofs about processes: the PID the Supervisor
\* remembers is a process that exists, each control state knows whether there
\* is one, and a candidate that was tried, or that an installer has replaced since,
\* is watched, or its rollback is owed.
ControlTypes ==
  /\ pc \in Pcs /\ pid \in BOOLEAN /\ trial \in BOOLEAN
  /\ json \in Selections
  /\ rollbackPending \in BOOLEAN /\ stop \in BOOLEAN /\ ropen \in BOOLEAN
  /\ proc \in ProcType
PidKnown == IF pid THEN proc.st # "none" ELSE proc.st = "none"
PlaceKnown ==
  /\ pc \in Monitoring \cup {"grace", "retry"} => pid
  /\ pc \in {"spawn", "stopped", "rollback", "backoff", "done"} => ~pid
  /\ pc \in Monitoring \cup {"spawn"} => ~rollbackPending
TriedOnce ==
  /\ tries \in {0, 1}
  /\ trial \/ json # "stable" =>
       tries = 0 \/ pc \in Monitoring \/ rollbackPending \/ stop
  /\ json # "stable" /\ ~trial => tries = 0
  /\ trial /\ pid => pc \in Monitoring \/ rollbackPending \/ stop
  /\ json = "newer" => trial /\ (pc \in Monitoring \/ rollbackPending \/ stop)

ProcessInv == ControlTypes /\ PidKnown /\ PlaceKnown /\ TriedOnce

\* A process is created only when no earlier one is left, not even an
\* unreaped one, whatever failed while that one was terminated
\* (_supervisor_terminate, _supervisor_process_run).
OneChild ==
  [][(proc'.st = "live" /\ proc.st # "live") => (proc.st = "none" /\ ~pid)]_vars

\* The Supervisor exits only when its child is dead and reaped.
ExitsAlone == pc = "done" => proc.st = "none" /\ ~pid

\* A candidate gets one process in the life of a Supervisor, whenever it was
\* installed: once it failed, could not be created, or was replaced by an installer,
\* it is not started again.
CandidateRunsOnce == tries <= 1 /\ (json = "newer" /\ pc = "spawn" => stop)

\* A LinkG that serves and beats is never timed out: reading, scheduling and
\* confirming leave it enough of its heartbeat window.  Like the next two, about
\* children whose messages all came from the LinkG client.
HealthyChildKept ==
  (noise = 0 /\ pc \in Monitoring /\ sup.state = "RUNNING" /\ Alive /\ proc.running)
    => sup.deadline > 0

\* A candidate is made stable only after it served for a full window without
\* a restart, and the Supervisor's own window is full at that moment.
ConfirmEarned ==
  [][(noise = 0 /\ pc = "commit" /\ trial /\ ~trial')
       => (best >= TrialWindow /\ sup.runFor >= TrialWindow)]_vars

\* The failure counter forgets only after a rollback or a full stable window of
\* one RUN, of which the Supervisor has not yet seen at most the last Lag ticks.
BackoffForgets ==
  [][(noise = 0 /\ failures' < failures)
       => (pc = "rollback" \/ best + Lag >= StableWindow)]_vars

\* No sequence of messages keeps a child that is not RUNNING alive for longer
\* than the one window of its start, restart or cleanup.
AttemptBounded ==
  pc \in Monitoring => idle <= Larger(StartTimeout, RestartTimeout) + Lag

\* A process that hangs, in whatever phase, is removed.
HungRemoved == (proc.st = "live" /\ proc.hung) ~> (proc.st # "live")

\* An exit signal ends the Supervisor.
StopCompletes == stop ~> pc = "done"

\* As long as no exit is requested LinkG is always started again.
ChildReturns == (proc.st = "none" /\ ~stop) ~> (proc.st = "live" \/ stop)
==============================================================================
