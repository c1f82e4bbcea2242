------------------------------- MODULE AppMain -------------------------------
(***************************************************************************)
(* The LinkG process: the main loop of linkg_main.c, which initializes,    *)
(* starts, stops and deinitializes every module in a fixed order, and the  *)
(* exit requests of linkg_lifecycle.c, which Web, the Upgrade worker, the  *)
(* GPIO worker and signals raise while it runs.                            *)
(***************************************************************************)
EXTENDS Naturals, Sequences, SequencesExt

CONSTANT MaxErrors  \* bound: calls that fail in a behaviour

ASSUME AppAssumption == MaxErrors \in Nat

\* The order of the calls of _linkg_app_init, _start, _stop and _deinit.
InitOrder == <<"config", "gpio", "pool", "links", "network", "node", "switch",
  "transport", "scheduler", "tun", "route", "nat", "discovery", "probe", "udhcp",
  "uart", "diagnostic", "upgrade", "web">>
StartOrder == <<"network", "tun", "route", "nat", "switch", "discovery", "probe",
  "udhcp", "gpio", "uart", "diagnostic", "upgrade", "web">>
StopOrder == <<"web", "upgrade", "diagnostic", "uart", "gpio", "udhcp", "probe",
  "discovery", "switch", "nat", "route", "tun", "network">>
DeinitOrder == <<"web", "upgrade", "diagnostic", "uart", "udhcp", "probe", "discovery",
  "nat", "route", "tun", "scheduler", "transport", "switch", "node", "network",
  "links", "pool", "gpio", "config">>
Modules == ToSet(InitOrder)

\* Modules whose start leaves nothing behind when it fails: all it does is to
\* create their thread.
AllOrNothing == {"diagnostic", "upgrade"}

\* Mutant of FlaggedFirst: a flag is set once the start has succeeded.
FlaggedLate == {}

\* Modules whose flag is set before their start is called, so that cleanup
\* stops them even if it fails half way.
FlaggedFirst == ToSet(StartOrder) \ {"diagnostic", "upgrade"}

\* linkg_exit_action_t: a larger action takes precedence.
Level == [NONE |-> 0, EXIT |-> 1, RESTART |-> 2, REBOOT |-> 3]
Actions == DOMAIN Level
Threads == {"web", "upgrade", "gpio"}

VARIABLES
  phase,     \* where main is
  next,      \* index in the order the phase walks through
  inited, started,   \* the flags of g_app
  open,      \* history: modules with something running that a start left behind
  action, failed,    \* main's action and shutdown_ret # 0
  act, requested, event, signal,  \* g_lifecycle, its eventfd and its signalfd
  thread,    \* requesting thread -> how far its request is
  wish,      \* requesting thread -> the action it will request
  errors

life == <<act, requested, event, signal>>
work == <<thread, wish>>
vars == <<phase, next, inited, started, open, action, failed, act, requested, event,
          signal, thread, wish, errors>>

Init ==
  /\ phase = "init" /\ next = 1 /\ inited = {} /\ started = {} /\ open = {}
  /\ action = "NONE" /\ failed = FALSE
  /\ act = "NONE" /\ requested = FALSE /\ event = FALSE /\ signal = FALSE
  /\ thread = [t \in Threads |-> "idle"] /\ wish = [t \in Threads |-> "NONE"]
  /\ errors = 0

Goto(p) == phase' = p /\ next' = 1
Err == errors < MaxErrors /\ errors' = errors + 1

\* A phase fails: main leaves the loop by way of a cleanup.
Abort(p) == Goto(p) /\ action' = "EXIT" /\ failed' = TRUE

------------------------------------------------------------------------------
(* INIT, START and RUN.                                                     *)

InitModule ==
  /\ phase = "init" /\ next <= Len(InitOrder)
  /\ inited' = inited \cup {InitOrder[next]} /\ next' = next + 1
  /\ UNCHANGED <<phase, started, open, action, failed, life, work, errors>>

InitFails ==
  /\ phase = "init" /\ next <= Len(InitOrder)
  /\ Err /\ Abort("notify")
  /\ UNCHANGED <<inited, started, open, life, work>>

InitDone ==
  /\ phase = "init" /\ next > Len(InitOrder)
  /\ Goto("start")
  /\ UNCHANGED <<inited, started, open, action, failed, life, work, errors>>

StartModule ==
  /\ phase = "start" /\ next <= Len(StartOrder)
  /\ started' = started \cup {StartOrder[next]} /\ next' = next + 1
  /\ open' = open \cup {StartOrder[next]}
  /\ UNCHANGED <<phase, inited, action, failed, life, work, errors>>

StartFails ==
  /\ phase = "start" /\ next <= Len(StartOrder)
  /\ Err /\ Abort("notify")
  /\ started' = started \cup ({StartOrder[next]} \cap FlaggedFirst)
  /\ open' \in {open, open \cup ({StartOrder[next]} \ AllOrNothing)}
  /\ UNCHANGED <<inited, life, work>>

\* linkg_supervisor_client_ready
Ready ==
  /\ phase = "start" /\ next > Len(StartOrder)
  /\ \/ Goto("wait") /\ UNCHANGED <<action, failed, errors>>
     \/ Err /\ Abort("notify")
  /\ UNCHANGED <<inited, started, open, life, work>>

\* linkg_lifecycle_wait_for_exit: the flag, then eventfd before signalfd.
WaitEnter ==
  /\ phase = "wait"
  /\ IF requested THEN Goto("notify") /\ action' = act
     ELSE Goto("poll") /\ UNCHANGED action
  /\ UNCHANGED <<inited, started, open, failed, life, work, errors>>

PollEvent ==
  /\ phase = "poll" /\ event
  /\ event' = FALSE /\ action' = act /\ Goto("notify")
  /\ UNCHANGED <<inited, started, open, failed, act, requested, signal, work, errors>>

\* _lifecycle_action_raise
Raised(a) == IF Level[act] < Level[a] THEN a ELSE act

PollSignal ==
  /\ phase = "poll" /\ ~event /\ signal
  /\ signal' = FALSE /\ act' = Raised("EXIT") /\ requested' = TRUE
  /\ action' = act' /\ Goto("notify")
  /\ UNCHANGED <<inited, started, open, failed, event, work, errors>>

------------------------------------------------------------------------------
(* CLEANUP, RESTART and the end.                                            *)

\* linkg_supervisor_client_restarting, or client_deinit when not restarting
Notify ==
  /\ phase = "notify"
  /\ \/ Goto("stop") /\ UNCHANGED <<action, failed, errors>>
     \/ action = "RESTART" /\ ~failed /\ Err /\ Abort("stop")
  /\ UNCHANGED <<inited, started, open, life, work>>

\* Mutant of StopModule: the worker thread is not waited for.
StopModuleNoJoin ==
  /\ phase = "stop" /\ next <= Len(StopOrder)
  /\ started' = started \ {StopOrder[next]} /\ next' = next + 1
  /\ open' = open \ ({StopOrder[next]} \cap started)
  /\ UNCHANGED <<phase, inited, action, failed, life, work, errors>>

\* One module of _linkg_app_stop; a module with a thread is joined.
StopModule ==
  /\ phase = "stop" /\ next <= Len(StopOrder)
  /\ StopOrder[next] \in Threads => thread[StopOrder[next]] = "idle"
  /\ started' = started \ {StopOrder[next]} /\ next' = next + 1
  /\ open' = open \ ({StopOrder[next]} \cap started)
  /\ UNCHANGED <<phase, inited, action, failed, life, work, errors>>

StopFails ==
  /\ phase = "stop" /\ next <= Len(StopOrder) /\ StopOrder[next] \in started
  /\ Err /\ Abort("exit")
  /\ UNCHANGED <<inited, started, open, life, work>>

StopDone ==
  /\ phase = "stop" /\ next > Len(StopOrder)
  /\ Goto("deinit")
  /\ UNCHANGED <<inited, started, open, action, failed, life, work, errors>>

DeinitModule ==
  /\ phase = "deinit" /\ next <= Len(DeinitOrder)
  /\ inited' = inited \ {DeinitOrder[next]} /\ next' = next + 1
  /\ UNCHANGED <<phase, started, open, action, failed, life, work, errors>>

DeinitFails ==
  /\ phase = "deinit" /\ next <= Len(DeinitOrder) /\ DeinitOrder[next] \in inited
  /\ DeinitOrder[next] # "config"   \* linkg_config_deinit returns nothing
  /\ Err /\ Abort("exit")
  /\ UNCHANGED <<inited, started, open, life, work>>

DeinitDone ==
  /\ phase = "deinit" /\ next > Len(DeinitOrder)
  /\ Goto(IF failed \/ action # "RESTART" THEN "exit" ELSE "reset")
  /\ UNCHANGED <<inited, started, open, action, failed, life, work, errors>>

\* linkg_lifecycle_reset, then the next turn of the loop
Reset ==
  /\ phase = "reset"
  /\ act' = "NONE" /\ requested' = FALSE /\ event' = FALSE /\ signal' = FALSE
  /\ action' = "NONE" /\ Goto("init")
  /\ UNCHANGED <<inited, started, open, failed, work, errors>>

\* _linkg_app_execute_exit_action
Exit ==
  /\ phase = "exit"
  /\ \/ action = "REBOOT" /\ Goto("rebooted") /\ UNCHANGED errors
     \/ action = "REBOOT" /\ Err /\ Goto("exited")
     \/ action # "REBOOT" /\ Goto("exited") /\ UNCHANGED errors
  /\ UNCHANGED <<inited, started, open, action, failed, life, work>>

------------------------------------------------------------------------------
(* The requesting threads and signals.                                      *)

\* Mutant of ThreadDecides: a module takes tasks while it is being stopped.
ThreadDecidesWhileStopping(t, a) ==
  /\ t \in started /\ thread[t] = "idle"
  /\ phase \notin {"exit", "exited", "rebooted"}
  /\ a \in IF t = "web" THEN {"RESTART", "REBOOT"} ELSE {"REBOOT"}
  /\ thread' = [thread EXCEPT ![t] = "decided"] /\ wish' = [wish EXCEPT ![t] = a]
  /\ UNCHANGED <<phase, next, inited, started, open, action, failed, life, errors>>

\* A Web command, a button held long enough or an accepted package.  Web and
\* GPIO look at the flag first; what they decide is requested later.  A module
\* that is being stopped takes no new task.
ThreadDecides(t, a) ==
  /\ t \in started /\ thread[t] = "idle"
  /\ phase \notin {"exit", "exited", "rebooted"}
  /\ t # "upgrade" => ~requested
  /\ phase = "stop" => StopOrder[next] # t
  /\ a \in IF t = "web" THEN {"RESTART", "REBOOT"} ELSE {"REBOOT"}
  /\ thread' = [thread EXCEPT ![t] = "decided"] /\ wish' = [wish EXCEPT ![t] = a]
  /\ UNCHANGED <<phase, next, inited, started, open, action, failed, life, errors>>

\* The decision is not carried out: no answer sent, restore or install failed.
ThreadGivesUp(t) ==
  /\ thread[t] = "decided"
  /\ thread' = [thread EXCEPT ![t] = "idle"]
  /\ UNCHANGED <<phase, next, inited, started, open, action, failed, life, wish, errors>>

\* linkg_lifecycle_request_exit: raise the action, set the flag, write the event.
RequestRaise(t) ==
  /\ thread[t] = "decided"
  /\ act' = Raised(wish[t])
  /\ thread' = [thread EXCEPT ![t] = "raised"]
  /\ UNCHANGED <<phase, next, inited, started, open, action, failed, requested, event,
                 signal, wish, errors>>

RequestFlag(t) ==
  /\ thread[t] = "raised"
  /\ requested' = TRUE
  /\ thread' = [thread EXCEPT ![t] = "flagged"]
  /\ UNCHANGED <<phase, next, inited, started, open, action, failed, act, event, signal,
                 wish, errors>>

\* Mutant of RequestNotify: the event is not written.
RequestNotifyMissed(t) ==
  /\ thread[t] = "flagged"
  /\ thread' = [thread EXCEPT ![t] = "idle"]
  /\ UNCHANGED <<phase, next, inited, started, open, action, failed, life, wish, errors>>

RequestNotify(t) ==
  /\ thread[t] = "flagged"
  /\ event' = TRUE
  /\ thread' = [thread EXCEPT ![t] = "idle"]
  /\ UNCHANGED <<phase, next, inited, started, open, action, failed, act, requested,
                 signal, wish, errors>>

\* SIGTERM, SIGINT or SIGQUIT, blocked in every thread
SignalArrives ==
  /\ ~signal /\ phase \notin {"exited", "rebooted"}
  /\ signal' = TRUE
  /\ UNCHANGED <<phase, next, inited, started, open, action, failed, act, requested,
                 event, work, errors>>

Main ==
  \/ InitModule \/ InitFails \/ InitDone \/ StartModule \/ StartFails \/ Ready
  \/ WaitEnter \/ PollEvent \/ PollSignal \/ Notify
  \/ StopModule \/ StopFails \/ StopDone \/ DeinitModule \/ DeinitFails \/ DeinitDone
  \/ Reset \/ Exit

Request(t) == RequestRaise(t) \/ RequestFlag(t) \/ RequestNotify(t)

Next ==
  \/ Main \/ SignalArrives
  \/ \E t \in Threads :
       (\E a \in Actions : ThreadDecides(t, a)) \/ ThreadGivesUp(t) \/ Request(t)

Spec == Init /\ [][Next]_vars

\* Threads are scheduled, and a task that was accepted ends one way or the other:
\* linkg_upgrade_stop and the other stops wait for it without a bound.  A call
\* that fails is never what makes main go on.
Fairness ==
  /\ WF_vars(Main /\ errors' = errors)
  /\ \A t \in Threads : WF_vars(Request(t) \/ ThreadGivesUp(t))
FairSpec == Spec /\ Fairness

------------------------------------------------------------------------------
(* Properties.                                                              *)

\* Every variable has its type, and the position in a list of calls lies inside
\* that list.
TypeOK ==
  /\ phase \in {"init", "start", "wait", "poll", "notify", "stop", "deinit", "reset",
                "exit", "exited", "rebooted"}
  /\ next \in 1..((IF phase \in {"start", "stop"} THEN Len(StartOrder)
                   ELSE IF phase \in {"init", "deinit"} THEN Len(InitOrder) ELSE 0) + 1)
  /\ inited \subseteq Modules
  /\ started \subseteq ToSet(StartOrder) /\ open \subseteq ToSet(StartOrder)
  /\ action \in Actions /\ failed \in BOOLEAN /\ act \in Actions
  /\ {requested, event, signal} \subseteq BOOLEAN
  /\ thread \in [Threads -> {"idle", "decided", "raised", "flagged"}]
  /\ wish \in [Threads -> Actions] /\ errors \in 0..MaxErrors

\* Types hold and, whatever fails and wherever a stop gives up, main tears down
\* only what nothing rests on: nothing is deinitialized while anything a start has
\* begun still runs, even if that start failed half way, and what was started or
\* initialized before a module is there as long as the module is.
LayersHold ==
  /\ TypeOK
  /\ open # {} => inited = Modules
  /\ \A i, j \in DOMAIN StartOrder :
       i < j /\ StartOrder[j] \in open => StartOrder[i] \in open
  /\ \A i, j \in DOMAIN InitOrder :
       i < j /\ InitOrder[j] \in inited => InitOrder[i] \in inited

\* linkg_lifecycle_reset runs only after every service is gone and no thread is
\* left that could still submit a request (its @note).
ResetQuiet ==
  phase = "reset" => inited = {} /\ open = {} /\ \A t \in Threads : thread[t] = "idle"

\* An install that has set the JSON to rebooting and asked for the reboot, or a
\* restored factory configuration, is not answered by a mere service restart:
\* REBOOT_SYSTEM has precedence (linkg_lifecycle_request_exit).
RebootNotDiscarded == phase = "reset" => act # "REBOOT"

\* A request always ends the RUN phase.
RequestServed == requested ~> phase \notin {"wait", "poll"}

\* Leaving RUN always ends: in a new start, or with the process gone.
CleanupEnds == phase = "notify" ~> phase \in {"init", "exited", "rebooted"}
==============================================================================
