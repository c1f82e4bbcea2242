---------------------------- MODULE AppMainProofs ----------------------------
(***************************************************************************)
(* Proofs about the main loop of linkg_main.c.  What is initialized and    *)
(* what runs is always a prefix of the order of the calls, whichever call  *)
(* failed and however far a cleanup got, and what runs without its flag    *)
(* set is nothing.                                                         *)
(***************************************************************************)
EXTENDS AppMain, TLAPS

\* The first n modules of _linkg_app_init and of _linkg_app_start.
InitPrefix(n) == {InitOrder[i] : i \in 1..n}
StartPrefix(n) == {StartOrder[i] : i \in 1..n}

\* The orders as functions: lengths and ranges.
LEMMA Orders ==
  /\ Len(InitOrder) = 19 /\ DOMAIN InitOrder = 1..19
  /\ Len(StartOrder) = 13 /\ DOMAIN StartOrder = 1..13
  /\ Modules = InitPrefix(19) /\ ToSet(StartOrder) = StartPrefix(13)
<1>1. Len(InitOrder) = 19 /\ DOMAIN InitOrder = 1..19
  BY DEF InitOrder
<1>2. Len(StartOrder) = 13 /\ DOMAIN StartOrder = 1..13
  BY DEF StartOrder
<1>3. Modules = InitPrefix(19) /\ ToSet(StartOrder) = StartPrefix(13)
  BY <1>1, <1>2 DEF Modules, ToSet, InitPrefix, StartPrefix
<1> QED
  BY <1>1, <1>2, <1>3

\* No module is initialized or started twice.
LEMMA Distinct ==
  /\ \A i, j \in 1..19 : InitOrder[i] = InitOrder[j] => i = j
  /\ \A i, j \in 1..13 : StartOrder[i] = StartOrder[j] => i = j
BY DEF InitOrder, StartOrder

\* Stopping and deinitializing go through the same modules backwards.
LEMMA Reversed ==
  /\ Len(StopOrder) = 13 /\ \A i \in 1..13 : StopOrder[i] = StartOrder[14 - i]
  /\ Len(DeinitOrder) = 19 /\ \A i \in 1..19 : DeinitOrder[i] = InitOrder[20 - i]
BY DEF StopOrder, DeinitOrder, StartOrder, InitOrder

\* Every module that is started has been initialized.
LEMMA StartSubset == StartPrefix(13) \subseteq InitPrefix(19)
BY DEF StartPrefix, InitPrefix, StartOrder, InitOrder

\* One more module.
LEMMA Grow ==
  /\ \A n \in 0..18 : InitPrefix(n) \cup {InitOrder[n + 1]} = InitPrefix(n + 1)
  /\ \A m \in 0..12 : StartPrefix(m) \cup {StartOrder[m + 1]} = StartPrefix(m + 1)
BY DEF InitPrefix, StartPrefix

\* One module less: a call for a module beyond the prefix does nothing.
LEMMA Shrink ==
  /\ \A n \in 0..19, k \in 1..19 :
       n <= k => InitPrefix(n) \ {InitOrder[k]} = InitPrefix(IF n = k THEN k - 1 ELSE n)
  /\ \A m \in 0..13, k \in 1..13 :
       m <= k => StartPrefix(m) \ {StartOrder[k]} = StartPrefix(IF m = k THEN k - 1 ELSE m)
<1>1. ASSUME NEW n \in 0..19, NEW k \in 1..19, n <= k
      PROVE  InitPrefix(n) \ {InitOrder[k]} = InitPrefix(IF n = k THEN k - 1 ELSE n)
  BY <1>1, Distinct DEF InitPrefix
<1>2. ASSUME NEW m \in 0..13, NEW k \in 1..13, m <= k
      PROVE  StartPrefix(m) \ {StartOrder[k]} = StartPrefix(IF m = k THEN k - 1 ELSE m)
  BY <1>2, Distinct DEF StartPrefix
<1> QED
  BY <1>1, <1>2

\* The flags of g_app with n modules initialized and m started, as far as main's
\* place tells them.  Of the last module a failed start may have left nothing.
At(n, m) ==
  /\ inited = InitPrefix(n) /\ started = StartPrefix(m)
  /\ open = StartPrefix(m) \/ (m > 0 /\ open = StartPrefix(m - 1))
  /\ m > 0 => n = 19
  /\ phase = "init" => m = 0 /\ n = next - 1
  /\ phase = "start" => n = 19 /\ m = next - 1 /\ open = StartPrefix(m)
  /\ phase \in {"wait", "poll"} => n = 19
  /\ phase = "stop" => m + next <= 14
  /\ phase = "deinit" => m = 0 /\ n + next <= 20
  /\ phase = "reset" => n = 0 /\ m = 0

\* The inductive invariant: types, the prefixes, and a module with a request under
\* way is started.
AppInv ==
  /\ TypeOK
  /\ \E n \in 0..19, m \in 0..13 : At(n, m)
  /\ \A t \in Threads : thread[t] # "idle" => t \in started

\* linkg_exit_action_t and its order.
LEMMA ActionSet ==
  /\ Actions = {"NONE", "EXIT", "RESTART", "REBOOT"}
  /\ \A a \in Actions : Level[a] \in 0..3
BY DEF Actions, Level

\* Main starts with nothing initialized.
LEMMA InitApp == Init => AppInv
<1> SUFFICES ASSUME Init PROVE AppInv
  OBVIOUS
<1>1. TypeOK
  <2>1. next \in 1..((IF phase \in {"start", "stop"} THEN Len(StartOrder)
                     ELSE IF phase \in {"init", "deinit"} THEN Len(InitOrder) ELSE 0) + 1)
    BY Orders DEF Init
  <2>2. errors \in 0..MaxErrors
    BY AppAssumption DEF Init
  <2>3. {requested, event, signal} \subseteq BOOLEAN
    BY DEF Init
  <2> QED
    BY <2>1, <2>2, <2>3, ActionSet DEF Init, TypeOK
<1>2. At(0, 0)
  BY DEF Init, At, InitPrefix, StartPrefix
<1>3. \A t \in Threads : thread[t] = "idle"
  BY DEF Init
<1> QED
  BY <1>1, <1>2, <1>3 DEF AppInv

\* How far the counter of main may get in phase p.
Bound(p) == (IF p \in {"start", "stop"} THEN Len(StartOrder)
             ELSE IF p \in {"init", "deinit"} THEN Len(InitOrder) ELSE 0) + 1

\* Calls of main keep the types.
LEMMA MainTypes == TypeOK /\ Main => TypeOK'
<1> SUFFICES ASSUME TypeOK, Main PROVE TypeOK'
  OBVIOUS
<1> USE AppAssumption, Orders
<1>a. next \in 1..Bound(phase)
  BY DEF TypeOK, Bound
<1>b. \A p : 1 \in 1..Bound(p)
  BY DEF Bound
<1>c. ASSUME next' \in 1..Bound(phase'), phase' \in {"init", "start", "wait", "poll", "notify",
               "stop", "deinit", "reset", "exit", "exited", "rebooted"},
             inited' \subseteq Modules, started' \subseteq StartPrefix(13), open' \subseteq StartPrefix(13),
             action' \in Actions, failed' \in BOOLEAN, act' \in Actions,
             {requested', event', signal'} \subseteq BOOLEAN,
             UNCHANGED work, errors' \in 0..MaxErrors
      PROVE  TypeOK'
  BY <1>c DEF TypeOK, Bound, work
<1>d. Raised("EXIT") \in Actions
  BY ActionSet DEF TypeOK, Raised
<1>1. CASE InitModule
  <2>1. InitOrder[next] \in Modules /\ next' \in 1..Bound(phase')
    BY <1>a, <1>1 DEF InitModule, InitPrefix, Bound
  <2> QED
    BY <1>c, <1>1, <2>1, ActionSet DEF TypeOK, InitModule, life, work
<1>2. CASE InitFails
  BY <1>a, <1>b, <1>c, <1>2, ActionSet DEF TypeOK, InitFails, Goto, Err, Abort, life, work
<1>3. CASE InitDone
  BY <1>a, <1>b, <1>c, <1>3, ActionSet DEF TypeOK, InitDone, Goto, Err, Abort, life, work
<1>4. CASE StartModule
  <2>1. StartOrder[next] \in StartPrefix(13) /\ next' \in 1..Bound(phase')
    BY <1>a, <1>4 DEF StartModule, StartPrefix, Bound
  <2> QED
    BY <1>c, <1>4, <2>1, ActionSet DEF TypeOK, StartModule, life, work
<1>5. CASE StartFails
  <2>1. StartOrder[next] \in StartPrefix(13)
    BY <1>a, <1>5 DEF StartFails, StartPrefix, Bound
  <2> QED
    BY <1>a, <1>b, <1>c, <1>5, <2>1, ActionSet DEF TypeOK, StartFails, Goto, Err, Abort, life, work
<1>6. CASE Ready
  <2>1. CASE Goto("wait") /\ UNCHANGED <<action, failed, errors>>
    BY <1>b, <1>c, <1>6, <2>1, ActionSet DEF TypeOK, Ready, Goto, life, work
  <2>2. CASE Err /\ Abort("notify")
    BY <1>b, <1>c, <1>6, <2>2, ActionSet DEF TypeOK, Ready, Goto, Err, Abort, life, work
  <2> QED
    BY <1>6, <2>1, <2>2 DEF Ready
<1>7. CASE WaitEnter
  BY <1>a, <1>b, <1>c, <1>7, ActionSet DEF TypeOK, WaitEnter, Goto, Err, Abort, life, work
<1>8. CASE PollEvent
  BY <1>a, <1>b, <1>c, <1>8, ActionSet DEF TypeOK, PollEvent, Goto, Err, Abort, life, work
<1>9. CASE PollSignal
  BY <1>a, <1>b, <1>c, <1>d, <1>9, ActionSet DEF TypeOK, PollSignal, Goto, Err, Abort, life, work
<1>10. CASE Notify
  <2>1. CASE Goto("stop") /\ UNCHANGED <<action, failed, errors>>
    BY <1>b, <1>c, <1>10, <2>1, ActionSet DEF TypeOK, Notify, Goto, life, work
  <2>2. CASE Err /\ Abort("stop")
    BY <1>b, <1>c, <1>10, <2>2, ActionSet DEF TypeOK, Notify, Goto, Err, Abort, life, work
  <2> QED
    BY <1>10, <2>1, <2>2 DEF Notify
<1>11. CASE StopModule
  <2>1. next' \in 1..Bound(phase')
    BY <1>a, <1>11, Reversed DEF StopModule, Bound
  <2> QED
    BY <1>c, <1>11, <2>1, ActionSet DEF TypeOK, StopModule, life, work
<1>12. CASE StopFails
  BY <1>a, <1>b, <1>c, <1>12, ActionSet DEF TypeOK, StopFails, Goto, Err, Abort, life, work
<1>13. CASE StopDone
  BY <1>a, <1>b, <1>c, <1>13, ActionSet DEF TypeOK, StopDone, Goto, Err, Abort, life, work
<1>14. CASE DeinitModule
  <2>1. next' \in 1..Bound(phase')
    BY <1>a, <1>14, Reversed DEF DeinitModule, Bound
  <2> QED
    BY <1>c, <1>14, <2>1, ActionSet DEF TypeOK, DeinitModule, life, work
<1>15. CASE DeinitFails
  BY <1>a, <1>b, <1>c, <1>15, ActionSet DEF TypeOK, DeinitFails, Goto, Err, Abort, life, work
<1>16. CASE DeinitDone
  BY <1>a, <1>b, <1>c, <1>16, ActionSet DEF TypeOK, DeinitDone, Goto, Err, Abort, life, work
<1>17. CASE Reset
  BY <1>a, <1>b, <1>c, <1>17, ActionSet DEF TypeOK, Reset, Goto, Err, Abort, life, work
<1>18. CASE Exit
  BY <1>a, <1>b, <1>c, <1>18, ActionSet DEF TypeOK, Exit, Goto, Err, Abort, life, work
<1> QED
  BY <1>1, <1>2, <1>3, <1>4, <1>5, <1>6, <1>7, <1>8, <1>9, <1>10, <1>11, <1>12, <1>13, <1>14, <1>15, <1>16, <1>17, <1>18 DEF Main

\* Calls of main move the two prefixes by at most one module.
LEMMA MainMoves ==
  ASSUME AppInv, Main
  PROVE  \E n \in 0..19, m \in 0..13 : At(n, m)'
<1> USE Orders, Reversed
<1>a. PICK n \in 0..19, m \in 0..13 : At(n, m)
  BY DEF AppInv
<1>b. next \in 1..Bound(phase)
  BY DEF AppInv, TypeOK, Bound
<1>c. ASSUME UNCHANGED <<inited, started, open>>, phase' \in {"notify", "exit", "exited", "rebooted"}
      PROVE  At(n, m)'
  BY <1>a, <1>c DEF At
<1>1. CASE InitModule
  <2>1. At(n + 1, 0)' /\ n + 1 \in 0..19
    BY <1>1, <1>a, <1>b, Grow DEF InitModule, At, StartPrefix
  <2> QED
    BY <2>1
<1>2. CASE InitFails
  BY <1>2, <1>c DEF InitFails, Abort, Goto
<1>3. CASE InitDone
  BY <1>3, <1>a, <1>b DEF InitDone, Goto, At, Bound
<1>4. CASE StartModule
  <2>1. At(19, m + 1)' /\ m + 1 \in 0..13
    BY <1>4, <1>a, <1>b, Grow DEF StartModule, At
  <2> QED
    BY <2>1
<1>5. CASE StartFails
  <2>a. next = m + 1 /\ m \in 0..12 /\ n = 19 /\ open = StartPrefix(m) /\ phase' = "notify"
    BY <1>5, <1>a, <1>b DEF StartFails, At, Abort, Goto
  <2>b. StartPrefix(m) \cup {StartOrder[next]} = StartPrefix(m + 1)
    BY <2>a, Grow
  <2>1. CASE StartOrder[next] \in FlaggedFirst
    <3>1. started' = StartPrefix(m + 1) /\ inited' = InitPrefix(19)
      BY <1>5, <1>a, <2>1, <2>a, <2>b DEF StartFails, At
    <3>2. open' = StartPrefix(m) \/ open' = StartPrefix(m + 1)
      BY <1>5, <2>1, <2>a, <2>b DEF StartFails, FlaggedFirst, AllOrNothing
    <3>3. At(19, m + 1)' /\ m + 1 \in 0..13
      BY <2>a, <3>1, <3>2 DEF At
    <3> QED
      BY <3>3
  <2>2. CASE StartOrder[next] \notin FlaggedFirst
    <3>1. started' = StartPrefix(m) /\ inited' = InitPrefix(19)
      BY <1>5, <1>a, <2>2, <2>a DEF StartFails, At
    <3>2. StartOrder[next] \in AllOrNothing
      BY <2>2, <2>a DEF FlaggedFirst, AllOrNothing, StartPrefix
    <3>3. open' = StartPrefix(m)
      BY <1>5, <2>a, <3>2 DEF StartFails
    <3>4. At(19, m)'
      BY <2>a, <3>1, <3>3 DEF At
    <3> QED
      BY <3>4
  <2> QED
    BY <2>1, <2>2
<1>6. CASE Ready
  BY <1>6, <1>a, <1>c DEF Ready, Abort, Goto, At
<1>7. CASE WaitEnter
  BY <1>7, <1>a, <1>c DEF WaitEnter, Goto, At
<1>8. CASE PollEvent
  BY <1>8, <1>c DEF PollEvent, Goto
<1>9. CASE PollSignal
  BY <1>9, <1>c DEF PollSignal, Goto
<1>10. CASE Notify
  BY <1>10, <1>a DEF Notify, Goto, Abort, At
<1>11. CASE StopModule
  <2>1. PICK k \in 1..13 : k + next = 14
    BY <1>11, <1>b DEF StopModule, Bound
  <2>2. StopOrder[next] = StartOrder[k] /\ next \in 1..13 /\ k = 14 - next
    BY <1>11, <1>b, <2>1 DEF StopModule, Bound
  <2>3. m <= k /\ (m > 0 => n = 19) /\ phase' = "stop" /\ next' = next + 1
    BY <1>11, <1>a, <2>2 DEF StopModule, At
  <2>4. /\ inited' = InitPrefix(n) /\ started = StartPrefix(m)
        /\ started' = StartPrefix(m) \ {StartOrder[k]}
        /\ open' = open \ ({StartOrder[k]} \cap StartPrefix(m))
    BY <1>11, <1>a, <2>2 DEF StopModule, At
  <2>5. open = StartPrefix(m) \/ (m > 0 /\ open = StartPrefix(m - 1))
    BY <1>a DEF At
  <2>6. CASE m = k
    <3>1. StartOrder[k] \in StartPrefix(m)
      BY <2>6 DEF StartPrefix
    <3>2. StartPrefix(m) \ {StartOrder[k]} = StartPrefix(m - 1)
      BY <2>6, Shrink
    <3>3. StartPrefix(m - 1) \ {StartOrder[k]} = StartPrefix(m - 1)
      BY <2>6, Shrink
    <3>4. started' = StartPrefix(m - 1) /\ open' = StartPrefix(m - 1)
      BY <2>4, <2>5, <3>1, <3>2, <3>3
    <3>5. m - 1 \in 0..13 /\ m > 0 /\ (m - 1) + next' <= 14
      BY <2>2, <2>3, <2>6
    <3>6. At(n, m - 1)'
      BY <2>3, <2>4, <3>4, <3>5 DEF At
    <3> QED
      BY <3>5, <3>6
  <2>7. CASE m # k
    <3>1. StartOrder[k] \notin StartPrefix(m)
      BY <2>3, <2>7, Distinct DEF StartPrefix
    <3>2. started' = StartPrefix(m) /\ open' = open
      BY <2>4, <3>1
    <3>3. m + next' <= 14
      BY <2>2, <2>3, <2>7
    <3>4. At(n, m)'
      BY <2>3, <2>4, <2>5, <3>2, <3>3 DEF At
    <3> QED
      BY <3>4
  <2> QED
    BY <2>6, <2>7
<1>12. CASE StopFails
  BY <1>12, <1>c DEF StopFails, Abort, Goto
<1>13. CASE StopDone
  BY <1>13, <1>a, <1>b DEF StopDone, Goto, At, Bound
<1>14. CASE DeinitModule
  <2>1. inited' = InitPrefix(n) \ {InitOrder[20 - next]} /\ n <= 20 - next /\ next <= 19
    BY <1>14, <1>a, <1>b DEF DeinitModule, At
  <2>2. PICK k \in 0..19 : k = IF n = 20 - next THEN n - 1 ELSE n
    BY <2>1, <1>b
  <2>3. inited' = InitPrefix(k)
    BY <1>a, <1>b, <2>1, <2>2, Shrink
  <2>4. At(k, m)'
    BY <1>14, <1>a, <1>b, <2>1, <2>2, <2>3 DEF DeinitModule, At
  <2> QED
    BY <2>4
<1>15. CASE DeinitFails
  BY <1>15, <1>c DEF DeinitFails, Abort, Goto
<1>16. CASE DeinitDone
  BY <1>16, <1>a, <1>b DEF DeinitDone, Goto, At, Bound
<1>17. CASE Reset
  BY <1>17, <1>a DEF Reset, Goto, At
<1>18. CASE Exit
  BY <1>18, <1>c DEF Exit, Goto
<1> QED
  BY <1>1, <1>2, <1>3, <1>4, <1>5, <1>6, <1>7, <1>8, <1>9, <1>10, <1>11, <1>12, <1>13,
     <1>14, <1>15, <1>16, <1>17, <1>18 DEF Main

\* A module is stopped only when its thread has no request under way.
LEMMA MainJoins ==
  ASSUME AppInv, Main
  PROVE  \A t \in Threads : thread'[t] # "idle" => t \in started'
<1>1. UNCHANGED thread
  BY DEF Main, InitModule, InitFails, InitDone, StartModule, StartFails, Ready, WaitEnter,
         PollEvent, PollSignal, Notify, StopModule, StopFails, StopDone, DeinitModule,
         DeinitFails, DeinitDone, Reset, Exit, work
<1>2. CASE StopModule
  BY <1>1, <1>2 DEF AppInv, StopModule
<1>3. CASE ~StopModule
  <2>1. started \subseteq started'
    BY <1>3 DEF Main, InitModule, InitFails, InitDone, StartModule, StartFails, Ready,
         WaitEnter, PollEvent, PollSignal, Notify, StopFails, StopDone, DeinitModule,
         DeinitFails, DeinitDone, Reset, Exit
  <2> QED
    BY <1>1, <2>1 DEF AppInv
<1> QED
  BY <1>2, <1>3

\* Requests and signals leave main and the flags alone.
LEMMA OthersKeep ==
  ASSUME AppInv,
         \/ SignalArrives
         \/ \E t \in Threads :
              (\E a \in Actions : ThreadDecides(t, a)) \/ ThreadGivesUp(t) \/ Request(t)
  PROVE  AppInv'
<1>1. UNCHANGED <<phase, next, inited, started, open, action, failed, errors>>
  BY DEF SignalArrives, ThreadDecides, ThreadGivesUp, Request, RequestRaise, RequestFlag,
         RequestNotify
<1>2. \A n, m : At(n, m)' <=> At(n, m)
  BY <1>1 DEF At
<1>3. ASSUME act' \in Actions, {requested', event', signal'} \subseteq BOOLEAN,
             thread' \in [Threads -> {"idle", "decided", "raised", "flagged"}],
             wish' \in [Threads -> Actions],
             \A u \in Threads : thread'[u] # "idle" => u \in started
      PROVE  AppInv'
  <2>1. TypeOK'
    BY <1>1, <1>3 DEF AppInv, TypeOK
  <2> QED
    BY <1>1, <1>2, <1>3, <2>1 DEF AppInv
<1>4. CASE SignalArrives
  BY <1>3, <1>4 DEF SignalArrives, AppInv, TypeOK, work
<1>5. ASSUME NEW t \in Threads, NEW a \in Actions, ThreadDecides(t, a) PROVE AppInv'
  BY <1>3, <1>5, ActionSet DEF ThreadDecides, AppInv, TypeOK, life
<1>6. ASSUME NEW t \in Threads, ThreadGivesUp(t) PROVE AppInv'
  BY <1>3, <1>6 DEF ThreadGivesUp, AppInv, TypeOK, life
<1>7. ASSUME NEW t \in Threads, RequestRaise(t) PROVE AppInv'
  <2>1. act' \in Actions
    BY <1>7 DEF RequestRaise, Raised, AppInv, TypeOK
  <2>2. thread' \in [Threads -> {"idle", "decided", "raised", "flagged"}]
    BY <1>7 DEF RequestRaise, AppInv, TypeOK
  <2>3. \A u \in Threads : thread'[u] # "idle" => u \in started
    BY <1>7 DEF RequestRaise, AppInv, TypeOK
  <2> QED
    BY <1>3, <1>7, <2>1, <2>2, <2>3 DEF RequestRaise, AppInv, TypeOK
<1>8. ASSUME NEW t \in Threads, RequestFlag(t) PROVE AppInv'
  BY <1>3, <1>8 DEF RequestFlag, AppInv, TypeOK
<1>9. ASSUME NEW t \in Threads, RequestNotify(t) PROVE AppInv'
  BY <1>3, <1>9 DEF RequestNotify, AppInv, TypeOK
<1> QED
  BY <1>4, <1>5, <1>6, <1>7, <1>8, <1>9 DEF Request

\* AppInv is an invariant of every behaviour, however many calls fail.
THEOREM AppInvariant == Spec => []AppInv
<1>1. AppInv /\ [Next]_vars => AppInv'
  <2> SUFFICES ASSUME AppInv, [Next]_vars PROVE AppInv'
    OBVIOUS
  <2>1. CASE Main
    BY <2>1, MainTypes, MainMoves, MainJoins DEF AppInv
  <2>2. CASE UNCHANGED vars
    <3>1. TypeOK' <=> TypeOK
      BY <2>2 DEF vars, TypeOK
    <3>2. \A n, m : At(n, m)' <=> At(n, m)
      BY <2>2 DEF vars, At
    <3> QED
      BY <2>2, <3>1, <3>2 DEF vars, AppInv
  <2> QED
    BY <2>1, <2>2, OthersKeep DEF Next
<1> QED
  BY <1>1, InitApp, PTL DEF Spec

\* Whichever of the init, start, stop and deinit calls of linkg_main.c fail, nothing
\* is deinitialized while anything runs, and nothing is stopped or deinitialized
\* before what was built on it.
THEOREM LayersAlwaysHold == Spec => []LayersHold
<1>1. AppInv => LayersHold
  <2> SUFFICES ASSUME AppInv PROVE LayersHold
    OBVIOUS
  <2>1. PICK n \in 0..19, m \in 0..13 : At(n, m)
    BY DEF AppInv
  <2>2. PICK k \in 0..13 : open = StartPrefix(k) /\ k <= m
    BY <2>1 DEF At
  <2>3. open # {} => inited = Modules
    <3> SUFFICES ASSUME open # {} PROVE inited = Modules
      OBVIOUS
    <3>1. m > 0
      BY <2>2 DEF StartPrefix
    <3> QED
      BY <2>1, <3>1, Orders DEF At
  <2>4. ASSUME NEW i \in DOMAIN StartOrder, NEW j \in DOMAIN StartOrder,
               i < j, StartOrder[j] \in open
        PROVE  StartOrder[i] \in open
    <3>1. i \in 1..13 /\ j \in 1..13
      BY Orders
    <3>2. PICK x \in 1..k : StartOrder[j] = StartOrder[x]
      BY <2>2, <2>4 DEF StartPrefix
    <3>3. j <= k
      BY <3>1, <3>2, Distinct
    <3> QED
      BY <2>2, <2>4, <3>1, <3>3 DEF StartPrefix
  <2>5. ASSUME NEW i \in DOMAIN InitOrder, NEW j \in DOMAIN InitOrder,
               i < j, InitOrder[j] \in inited
        PROVE  InitOrder[i] \in inited
    <3>1. i \in 1..19 /\ j \in 1..19 /\ inited = InitPrefix(n)
      BY <2>1, Orders DEF At
    <3>2. PICK x \in 1..n : InitOrder[j] = InitOrder[x]
      BY <2>5, <3>1 DEF InitPrefix
    <3>3. j <= n
      BY <3>1, <3>2, Distinct
    <3> QED
      BY <2>5, <3>1, <3>3 DEF InitPrefix
  <2> QED
    BY <2>3, <2>4, <2>5 DEF AppInv, LayersHold
<1> QED
  BY <1>1, AppInvariant, PTL

\* When linkg_lifecycle_reset runs, every service is gone and no thread is left in the
\* middle of linkg_lifecycle_request_exit.
THEOREM ResetAlwaysQuiet == Spec => []ResetQuiet
<1>1. AppInv => ResetQuiet
  BY DEF AppInv, At, ResetQuiet, InitPrefix, StartPrefix
<1> QED
  BY <1>1, AppInvariant, PTL
==============================================================================
