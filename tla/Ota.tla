--------------------------------- MODULE Ota ---------------------------------
(***************************************************************************)
(* The OTA release transaction of LinkG: the Upgrade worker inside LinkG   *)
(* installs the release that is not stable and makes it the candidate; the *)
(* Supervisor selects, starts, confirms or rolls back releases; U-Boot     *)
(* chooses the Kernel slot.  The three share two persistent records that   *)
(* cannot be written together: the version JSON and the U-Boot ENV.        *)
(*                                                                         *)
(* One action is the code between two effects that a crash, a failure or   *)
(* another process can separate: one JSON replacement (atomic under its    *)
(* .lock), the start, the end and the read-back of one fw_setenv, one link *)
(* rename, one erase or write of flash.  Clocks are abstracted: deadlines  *)
(* expire, and the healthy window of a candidate elapses, at any time.     *)
(***************************************************************************)
EXTENDS BootEnv

CONSTANTS
  MaxFaults,   \* bound: crashes, power losses and I/O errors in a behaviour
  SyncFaults   \* BOOLEAN: may a rename take effect and its directory sync fail?

ASSUME OtaAssumption == MaxFaults \in Nat /\ SyncFaults \in BOOLEAN

VARIABLES
  \* flash
  json,      \* /app/version_state.json as every process reads it
  durable,   \* the contents a power loss may leave in that file
  env,       \* U-Boot environment
  image,     \* Kernel slot -> "blank", "new" (flashed, verified), "proven"
  files,     \* release -> "partial", "new" (complete), "proven"
  links,     \* /app/current and /www/current
  \* the machine
  up,        \* slot of the running Kernel, or NoSlot while it is off
  tool,      \* environment that a running fw_setenv will write, or Idle
  waiter,    \* process that waits for that tool and then reads back
  \* Supervisor
  sup,       \* its control state
  ver,       \* release->version: its snapshot of the JSON
  trial,     \* release->trial
  why,       \* what a rollback, a commit or a reboot was started by
  old,       \* target of /app/current before links_select
  \* LinkG and the Upgrade worker in it
  app,       \* the child process as the Supervisor sees it
  orphan,    \* a LinkG that outlived its Supervisor
  ins,       \* control state of the Upgrade worker's transaction
  owner,     \* process the transaction runs in
  st,        \* transaction.state
  slot,      \* Kernel slot chosen for the candidate
  faults     \* crashes and errors so far

Idle == [target |-> NoSlot]

disk  == <<json, durable>>
envs  == <<env, tool, waiter>>
flash == <<image, files, links>>
supv  == <<sup, ver, trial, why, old>>
procs == <<app, orphan>>
insv  == <<ins, owner, st, slot>>
vars  == <<json, durable, env, image, files, links, up, tool, waiter, sup, ver,
           trial, why, old, app, orphan, ins, owner, st, slot, faults>>

\* supervisor_release_prepare runs under the nonblocking .ota.lock, and so does
\* the whole install transaction.
PreparePcs == {"rb_json", "rb_env", "cm_env", "cm_json", "env_stable",
               "env_trial", "links_app", "links_web", "testing", "reboot"}
SupPcs == PreparePcs \cup {"down", "prepare", "spawn", "monitor", "reap"}
InsPcs == {"idle", "lease", "verifying", "extract", "installing", "clear",
           "copy", "kernel", "flashing", "erase", "write", "system",
           "cand_json", "cand_env", "reboot", "fail_json", "fail_env"}
SupHoldsLease == sup \in PreparePcs /\ why \in {"prep", "fail"}
InsHoldsLease == ins \notin {"idle", "lease"}

Factory == [target |-> "v1", stable |-> "v1", upgrade |-> "idle",
            kernel |-> [r \in Rel |-> IF r = "v1" THEN "boot_a" ELSE NoSlot]]

Init ==
  /\ json = Factory /\ durable = {Factory}
  /\ env = StableEnv("boot_a")
  /\ image = [k \in Slot |-> IF k = "boot_a" THEN "proven" ELSE "blank"]
  /\ files = [r \in Rel |-> IF r = "v1" THEN "proven" ELSE "partial"]
  /\ links = [app |-> "v1", web |-> "v1"]
  /\ up = NoSlot /\ tool = Idle /\ waiter = "none"
  /\ sup = "down" /\ ver = Factory /\ trial = FALSE /\ why = "prep" /\ old = "v1"
  /\ app = "none" /\ orphan = "none"
  /\ ins = "idle" /\ owner = "child" /\ st = Factory /\ slot = "boot_a"
  /\ faults = 0

------------------------------------------------------------------------------
(* Persistent writes.                                                       *)

\* A crash or an error: at most MaxFaults of them in one behaviour.
Fault == faults < MaxFaults /\ faults' = faults + 1

\* linkg_release_replace over linkg_atomic_write: compare the file with the
\* expected and the desired snapshot, then save.  The save may fail without
\* effect, or after the rename when only the directory sync fails.
Replace(expected, desired, Ok, Bad) ==
  \/ /\ json \in {expected, desired}
     /\ json' = desired /\ durable' = {desired} /\ UNCHANGED faults
     /\ Ok
  \/ /\ json \in {expected, desired}
     /\ Fault
     /\ \/ UNCHANGED disk
        \/ SyncFaults /\ json' = desired /\ durable' = durable \cup {desired}
     /\ Bad
  \/ /\ json \notin {expected, desired}
     /\ UNCHANGED <<disk, faults>>
     /\ Bad

\* The flock on the environment: its holder, or the tool that inherited it.
EnvFree == tool = Idle /\ waiter = "none"

\* _linkg_boot_write by process p: nothing if the four variables already have
\* their values, otherwise fw_setenv and a read-back.
WriteEnv(p, want, Ok, Bad, Wait) ==
  /\ UNCHANGED env
  /\ \/ /\ EnvFree /\ env = want
        /\ UNCHANGED <<tool, waiter, faults>> /\ Ok
     \/ /\ EnvFree /\ env # want
        /\ tool' = want /\ waiter' = p /\ UNCHANGED faults /\ Wait
     \/ /\ EnvFree /\ Fault
        /\ UNCHANGED <<tool, waiter>> /\ Bad
     \/ /\ waiter = p /\ tool = Idle
        /\ waiter' = "none" /\ UNCHANGED <<tool, faults>>
        /\ IF env = want THEN Ok ELSE Bad
     \/ /\ waiter = p /\ tool = Idle /\ Fault
        /\ waiter' = "none" /\ UNCHANGED tool /\ Bad

\* fw_setenv ends: the batch is written, or the tool fails without effect.  It
\* is never killed, and goes on when the process that started it is gone.
ToolEnds ==
  /\ tool # Idle
  /\ \/ env' = tool /\ UNCHANGED faults
     \/ UNCHANGED env /\ Fault
  /\ tool' = Idle
  /\ UNCHANGED <<disk, flash, up, waiter, supv, procs, insv>>

------------------------------------------------------------------------------
(* Supervisor: supervisor_release.c and the loop of supervisor_process.c.   *)

SupGoto(pc) == sup' = pc /\ UNCHANGED <<ver, trial, why, old>>

\* The two ways a failed step of prepare, confirm or rollback ends: prepare
\* backs off and starts again; a pending rollback is retried as it stands.
RollbackFails ==
  /\ sup' = IF why = "run" THEN "rb_json" ELSE "prepare"
  /\ UNCHANGED <<ver, trial, why, old>>

\* The confirmation transaction of a running candidate (why = "mon") goes back
\* to monitoring, which retries it, unless the child failed meanwhile.
CommitFails ==
  /\ sup' = IF why = "prep" THEN "prepare"
            ELSE IF app \in {"dead", "hung"} THEN "reap" ELSE "monitor"
  /\ UNCHANGED <<ver, trial, why, old>>

\* supervisor_version_check of the candidate: a partial directory may pass.
CandidateUsable(v) == v.kernel[v.target] # NoSlot

SupStart ==
  /\ up # NoSlot /\ sup = "down"
  /\ SupGoto("prepare")
  /\ UNCHANGED <<disk, envs, flash, up, procs, insv, faults>>

\* Mutant of PrepareLoad: start-up recovery ignores the installer's lease.
PrepareLoadNoLease ==
  /\ sup = "prepare"
  /\ ver' = json /\ trial' = IsTrial(json)
  /\ UNCHANGED old
  /\ sup' = (IF ~IsTrial(json) THEN "env_stable"
             ELSE IF up # json.kernel[json.target] THEN "rb_json" ELSE "env_trial")
  /\ why' = "prep"
  /\ UNCHANGED <<disk, envs, flash, up, procs, insv, faults>>

\* supervisor_release_prepare up to its first effect: take the lease, load the
\* JSON, check the stable release, and decide what to recover.
PrepareLoad ==
  /\ sup = "prepare"
  /\ ~InsHoldsLease
  /\ ver' = json /\ trial' = IsTrial(json)
  /\ UNCHANGED old
  /\ LET cand == json.kernel[json.target] IN
     \/ /\ IsTrial(json)
        /\ ~CandidateUsable(json) \/ files[json.target] = "partial" \/ up # cand
        /\ sup' = "rb_json" /\ why' = "prep"
     \/ /\ IsTrial(json) /\ CandidateUsable(json) /\ up = cand
        /\ cand # json.kernel[json.stable]
        /\ EnvFree /\ EnvConfirms(env, cand)
        /\ sup' = "cm_env" /\ why' = "prep"
     \/ /\ IsTrial(json) /\ CandidateUsable(json) /\ up = cand
        /\ \/ cand = json.kernel[json.stable]
           \/ EnvFree /\ ~EnvConfirms(env, cand)
        /\ sup' = "env_trial" /\ why' = "prep"
     \/ /\ ~IsTrial(json)
        /\ sup' = "env_stable" /\ why' = "prep"
  /\ UNCHANGED <<disk, envs, flash, up, procs, insv, faults>>

\* supervisor_release_rollback, first half: the JSON goes back to the stable
\* release before the ENV does.
RollbackJson ==
  /\ sup = "rb_json"
  /\ Replace(ver, RolledBack(ver),
             sup' = "rb_env" /\ ver' = RolledBack(ver) /\ UNCHANGED <<trial, why, old>>,
             RollbackFails)
  /\ UNCHANGED <<envs, flash, up, procs, insv>>

\* supervisor_release_rollback, second half, and where its caller goes on.
RollbackEnv ==
  /\ sup = "rb_env"
  /\ LET k == ver.kernel[ver.stable] IN
     WriteEnv("sup", StableEnv(k),
       /\ trial' = FALSE
       /\ sup' = IF up # k THEN "reboot"
                 ELSE IF why = "prep" THEN "env_stable" ELSE "prepare"
       /\ UNCHANGED <<ver, why, old>>,
       RollbackFails,
       UNCHANGED supv)
  /\ UNCHANGED <<disk, flash, up, procs, insv>>

\* _supervisor_release_commit: the ENV first, and a last look at the child.
CommitEnv ==
  /\ sup = "cm_env"
  /\ WriteEnv("sup", StableEnv(ver.kernel[ver.target]),
       IF why = "mon" /\ app # "running" THEN CommitFails ELSE SupGoto("cm_json"),
       CommitFails,
       UNCHANGED supv)
  /\ UNCHANGED <<disk, flash, up, procs, insv>>

\* Mutant of CommitJson: the trial flag is not cleared.
CommitJsonKeepsTrial ==
  /\ sup = "cm_json"
  /\ Replace(ver, Confirmed(ver),
       /\ ver' = Confirmed(ver)
       /\ sup' = IF why = "prep" THEN "env_stable" ELSE "monitor"
       /\ UNCHANGED <<trial, why, old>>,
       CommitFails)
  /\ UNCHANGED <<envs, flash, up, procs, insv>>


CommitJson ==
  /\ sup = "cm_json"
  /\ Replace(ver, Confirmed(ver),
       /\ ver' = Confirmed(ver) /\ trial' = FALSE
       /\ sup' = IF why = "prep" THEN "env_stable" ELSE "monitor"
       /\ UNCHANGED <<why, old>>,
       CommitFails)
  /\ UNCHANGED <<envs, flash, up, procs, insv>>

\* Mutant of PrepareStable: the running Kernel is not compared.
PrepareStableNoReboot ==
  /\ sup = "env_stable"
  /\ WriteEnv("sup", StableEnv(ver.kernel[ver.stable]),
       SupGoto("links_app"), SupGoto("prepare"), UNCHANGED supv)
  /\ UNCHANGED <<disk, flash, up, procs, insv>>

\* prepare without a candidate: repair the ENV; another Kernel needs a reboot.
PrepareStable ==
  /\ sup = "env_stable"
  /\ LET k == ver.kernel[ver.stable] IN
     WriteEnv("sup", StableEnv(k),
       SupGoto(IF up # k THEN "reboot" ELSE "links_app"),
       SupGoto("prepare"),
       UNCHANGED supv)
  /\ UNCHANGED <<disk, flash, up, procs, insv>>

\* A preparation step of a candidate failed: roll back, then prepare again.
CandidateFails ==
  IF trial THEN sup' = "rb_json" /\ why' = "fail" /\ UNCHANGED <<ver, trial, old>>
  ELSE SupGoto("prepare")

\* prepare with a candidate: keep or repair the trial protection of U-Boot.
\* The read of the environment and the start of the tool are under one lock.
PrepareTrial ==
  /\ sup = "env_trial"
  /\ LET want == TrialEnv(env, ver.kernel[ver.target], ver.kernel[ver.stable]) IN
     WriteEnv("sup", want, SupGoto("links_app"), CandidateFails, UNCHANGED supv)
  /\ UNCHANGED <<disk, flash, up, procs, insv>>

\* supervisor_links_select: two renames that are not atomic together; a failure
\* of either restores both.
LinksApp ==
  /\ sup = "links_app"
  /\ \/ /\ links' = [links EXCEPT !.app = ver.target]
        /\ old' = links.app /\ sup' = "links_web"
        /\ UNCHANGED <<ver, trial, why, faults>>
     \/ Fault /\ CandidateFails /\ UNCHANGED links
  /\ UNCHANGED <<disk, envs, image, files, up, procs, insv>>

LinksWeb ==
  /\ sup = "links_web"
  /\ \/ /\ links' = [links EXCEPT !.web = ver.target]
        /\ SupGoto(IF trial THEN "testing" ELSE "spawn")
        /\ UNCHANGED faults
     \/ Fault /\ links' = [links EXCEPT !.app = old] /\ CandidateFails
  /\ UNCHANGED <<disk, envs, image, files, up, procs, insv>>

\* The phase shown while the candidate is on trial; a failure is ignored and
\* leaves the snapshot in memory as it was.
RecordTesting ==
  /\ sup = "testing"
  /\ Replace(ver, InPhase(ver, "testing"),
       sup' = "spawn" /\ ver' = InPhase(ver, "testing") /\ UNCHANGED <<trial, why, old>>,
       SupGoto("spawn"))
  /\ UNCHANGED <<envs, flash, up, procs, insv>>

\* linkg_boot_reboot fails; a reboot that happens is action Reboot.
RebootFails ==
  /\ sup = "reboot" /\ Fault
  /\ RollbackFails
  /\ UNCHANGED <<disk, envs, flash, up, procs, insv>>

\* _supervisor_spawn: the program is found through /app/current.
Spawn ==
  /\ sup = "spawn"
  /\ \/ app' = "starting" /\ SupGoto("monitor") /\ UNCHANGED faults
     \/ Fault /\ SupGoto("reap") /\ UNCHANGED app
  /\ UNCHANGED <<disk, envs, flash, up, orphan, insv>>

\* _supervisor_monitor reaps an exited child, or gives a silent one up.
MonitorFails ==
  /\ sup = "monitor" /\ app \in {"dead", "hung"}
  /\ SupGoto("reap")
  /\ UNCHANGED <<disk, envs, flash, up, procs, insv, faults>>

\* The healthy window of the candidate elapses: supervisor_release_confirm
\* checks files and Kernel, reloads the JSON and adopts the testing phase if
\* that write had taken effect after all.
WindowElapses ==
  /\ sup = "monitor" /\ trial /\ app = "running"
  /\ up = ver.kernel[ver.target]
  /\ files' = [files EXCEPT ![links.app] = "proven"]
  /\ image' = [image EXCEPT ![up] = "proven"]
  /\ ver' = IF json = InPhase(ver, "testing") THEN json ELSE ver
  /\ json \in {ver', Confirmed(ver')}
  /\ sup' = "cm_env" /\ why' = "mon"
  /\ UNCHANGED <<trial, old>>
  /\ UNCHANGED <<disk, envs, links, up, procs, insv, faults>>

\* While it waits for the environment the Supervisor still sees the child fail;
\* a write that has started is waited for first.
CommitAborted ==
  /\ sup = "cm_env" /\ why = "mon" /\ app # "running" /\ waiter # "sup"
  /\ CommitFails
  /\ UNCHANGED <<disk, envs, flash, up, procs, insv, faults>>

\* supervisor_release_running, in every round of the monitor.
RecordRunning ==
  /\ sup = "monitor" /\ ~trial /\ app = "running"
  /\ ver.upgrade \in InterruptedPhases \cup {"rolling_back"}
  /\ Replace(ver, Settled(ver),
       ver' = Settled(ver) /\ UNCHANGED <<sup, trial, why, old>>,
       UNCHANGED supv)
  /\ UNCHANGED <<envs, flash, up, procs, insv>>

\* Mutant of AbortIns: the environment lock of a dead process is not released.
AbortInsKeepsLock(p) ==
  /\ ins' = IF owner = p THEN "idle" ELSE ins
  /\ UNCHANGED <<waiter, owner, st, slot>>

\* _supervisor_terminate, and what the main loop does then: a candidate that
\* was not confirmed is rolled back before anything else is started.
AbortIns(p) ==
  /\ ins' = IF owner = p THEN "idle" ELSE ins
  /\ waiter' = IF owner = p /\ waiter = "ins" THEN "none" ELSE waiter
  /\ UNCHANGED <<owner, st, slot>>

Reap ==
  /\ sup = "reap"
  /\ app' = "none" /\ AbortIns("child")
  /\ IF trial THEN sup' = "rb_json" /\ why' = "run" /\ UNCHANGED <<ver, trial, old>>
     ELSE SupGoto("prepare")
  /\ UNCHANGED <<disk, env, tool, flash, up, orphan, faults>>

------------------------------------------------------------------------------
(* The child process as the Supervisor can tell it.                         *)

ChildReady ==
  /\ app = "starting" /\ app' = "running"
  /\ UNCHANGED <<disk, envs, flash, up, supv, orphan, insv, faults>>

\* It exits or crashes; or misses a deadline while its threads go on; or an
\* operator asks it to stop or to reboot the system.
ChildFails ==
  /\ app \in {"starting", "running"} /\ Fault
  /\ \/ app' = "dead" /\ AbortIns("child")
     \/ app' \in {"hung", "leaving"} /\ UNCHANGED <<insv, waiter>>
  /\ UNCHANGED <<disk, env, tool, flash, up, supv, orphan>>

\* Cleanup after an exit request ended without a reboot.
ChildLeaves ==
  /\ app = "leaving" /\ app' = "dead" /\ AbortIns("child")
  /\ UNCHANGED <<disk, env, tool, flash, up, supv, orphan, faults>>

\* A LinkG without a Supervisor has received SIGTERM: it ends once its Upgrade
\* worker has finished, or dies before that.
OrphanEnds ==
  /\ orphan # "none" /\ orphan' = "none"
  /\ \/ ~(owner = "orphan" /\ ins # "idle") /\ UNCHANGED faults
     \/ Fault
  /\ AbortIns("orphan")
  /\ UNCHANGED <<disk, env, tool, flash, up, supv, app>>

------------------------------------------------------------------------------
(* Upgrade worker: upgrade_commit.c, linkg_upgrade.c, upgrade_install.c and *)
(* upgrade_kernel.c.                                                        *)

InsGoto(pc) == ins' = pc /\ UNCHANGED <<owner, st, slot>>

\* upgrade_commit_begin looks at its parent before it takes the lease.
RequestInstall ==
  /\ ins = "idle" /\ app = "running" /\ sup # "down"
  /\ ins' = "lease" /\ owner' = "child"
  /\ UNCHANGED <<st, slot>>
  /\ UNCHANGED <<disk, envs, flash, up, supv, procs, faults>>

\* The running Kernel is the stable one and the environment confirms it.
KernelSettled(v) == up = v.kernel[v.stable] /\ EnvConfirms(env, up)

\* Lease, load, and refuse anything that is not settled.
BeginInstall ==
  /\ ins = "lease" /\ EnvFree
  /\ IF /\ ~SupHoldsLease
        /\ ~IsTrial(json) /\ json.upgrade \in SettledPhases
        /\ KernelSettled(json)
     THEN ins' = "verifying" /\ st' = json
     ELSE ins' = "idle" /\ UNCHANGED st
  /\ UNCHANGED <<owner, slot>>
  /\ UNCHANGED <<disk, envs, flash, up, supv, procs, faults>>

\* upgrade_commit_stage in request_install: a failure only releases the lease.
StageVerifying ==
  /\ ins = "verifying"
  /\ Replace(st, InPhase(st, "verifying"),
       ins' = "extract" /\ st' = InPhase(st, "verifying") /\ UNCHANGED <<owner, slot>>,
       InsGoto("idle"))
  /\ UNCHANGED <<envs, flash, up, supv, procs>>

\* Archive and manifest checks; a bad package fails the task.
Extract ==
  /\ ins = "extract"
  /\ InsGoto("installing") \/ InsGoto("fail_json")
  /\ UNCHANGED <<disk, envs, flash, up, supv, procs, faults>>

\* The stages before the copy, before the flash write and before the system
\* files, each with the state it goes on to.
StageInstalling ==
  /\ ins \in {"installing", "flashing", "system"}
  /\ LET phase == IF ins = "flashing" THEN "flashing" ELSE "installing"
         next  == CASE ins = "installing" -> "clear"
                    [] ins = "flashing"   -> "erase"
                    [] ins = "system"     -> "cand_json"
     IN Replace(st, InPhase(st, phase),
          ins' = next /\ st' = InPhase(st, phase) /\ UNCHANGED <<owner, slot>>,
          InsGoto("fail_json"))
  /\ UNCHANGED <<envs, flash, up, supv, procs>>

\* upgrade_install_release: both links must still name the stable release;
\* then the other release is cleared and copied.
ClearRelease ==
  /\ ins = "clear"
  /\ IF links = [app |-> json.stable, web |-> json.stable]
     THEN /\ files' = [files EXCEPT ![Other(json.stable)] = "partial"]
          /\ InsGoto("copy")
     ELSE InsGoto("fail_json") /\ UNCHANGED files
  /\ UNCHANGED <<disk, envs, image, links, up, supv, procs, faults>>

CopyRelease ==
  /\ ins = "copy"
  /\ \/ /\ files' = [files EXCEPT ![Other(st.stable)] = "new"]
        /\ InsGoto("kernel") /\ UNCHANGED faults
     \/ Fault /\ InsGoto("fail_json") /\ UNCHANGED files
  /\ UNCHANGED <<disk, envs, image, links, up, supv, procs>>

\* upgrade_kernel_prepare_ex: the package has no Kernel or the running one, or
\* a different one, which goes to the slot that is not running.
ChooseKernel ==
  /\ ins = "kernel"
  /\ \/ /\ ins' = "system" /\ slot' = st.kernel[st.stable]
     \/ /\ up = st.kernel[st.stable]
        /\ ins' = "flashing" /\ slot' = Opposite(st.kernel[st.stable])
  /\ UNCHANGED <<owner, st>>
  /\ UNCHANGED <<disk, envs, flash, up, supv, procs, faults>>

EraseKernel ==
  /\ ins = "erase"
  /\ image' = [image EXCEPT ![slot] = "blank"]
  /\ InsGoto("write")
  /\ UNCHANGED <<disk, envs, files, links, up, supv, procs, faults>>

WriteKernel ==
  /\ ins = "write"
  /\ \/ image' = [image EXCEPT ![slot] = "new"] /\ InsGoto("system") /\ UNCHANGED faults
     \/ Fault /\ InsGoto("fail_json") /\ UNCHANGED image
  /\ UNCHANGED <<disk, envs, files, links, up, supv, procs>>

\* upgrade_commit_candidate: check everything again, then the JSON, then ENV.
CandidateJson ==
  /\ ins = "cand_json" /\ EnvFree
  /\ IF json = st /\ ~IsTrial(json) /\ KernelSettled(json)
     THEN Replace(json, Candidate(json, slot),
            ins' = "cand_env" /\ st' = Candidate(json, slot) /\ UNCHANGED <<owner, slot>>,
            InsGoto("fail_json"))
     ELSE InsGoto("fail_json") /\ UNCHANGED <<disk, faults>>
  /\ UNCHANGED <<envs, flash, up, supv, procs>>

CandidateEnv ==
  /\ ins = "cand_env"
  /\ WriteEnv("ins", PreparedEnv(slot, st.kernel[st.stable]),
       InsGoto("reboot"), InsGoto("fail_json"), UNCHANGED insv)
  /\ UNCHANGED <<disk, flash, up, supv, procs>>

\* upgrade_commit_reboot asks the main thread to clean up and reboot, and the
\* transaction ends; an error of the request or of the cleanup fails the task.
RequestReboot ==
  /\ ins = "reboot"
  /\ \/ /\ InsGoto("idle") /\ UNCHANGED faults
        /\ IF owner = "child" THEN app' = "leaving" /\ UNCHANGED orphan
                              ELSE orphan' = "leaving" /\ UNCHANGED app
     \/ Fault /\ InsGoto("fail_json") /\ UNCHANGED procs
  /\ UNCHANGED <<disk, envs, flash, up, supv>>

\* upgrade_commit_fail: from the JSON as it is now, as long as its stable
\* release is still the one that this transaction started from.
FailJson ==
  /\ ins = "fail_json"
  /\ IF json.stable = st.stable /\ json.kernel[json.stable] = st.kernel[st.stable]
     THEN Replace(json, Abandoned(json),
            ins' = "fail_env" /\ st' = Abandoned(json) /\ UNCHANGED <<owner, slot>>,
            InsGoto("idle"))
     ELSE InsGoto("idle") /\ UNCHANGED <<disk, faults>>
  /\ UNCHANGED <<envs, flash, up, supv, procs>>

FailEnv ==
  /\ ins = "fail_env"
  /\ WriteEnv("ins", StableEnv(st.kernel[st.stable]),
       InsGoto("idle"), InsGoto("idle"), UNCHANGED insv)
  /\ UNCHANGED <<disk, flash, up, supv, procs>>

------------------------------------------------------------------------------
(* Crashes, reboots and the boot loader.                                    *)

\* Everything volatile is gone; a running fw_setenv has written or not.
PowerOff ==
  /\ up # NoSlot /\ up' = NoSlot
  /\ env' \in {env} \cup ({tool} \ {Idle})
  /\ tool' = Idle /\ waiter' = "none"
  /\ sup' = "down" /\ ver' = json' /\ trial' = FALSE /\ why' = "prep" /\ old' = "v1"
  /\ app' = "none" /\ orphan' = "none"
  /\ ins' = "idle" /\ owner' = "child" /\ st' = json' /\ slot' = "boot_a"
  /\ UNCHANGED flash

PowerLoss ==
  /\ Fault
  /\ json' \in durable /\ durable' = {json'}
  /\ PowerOff

\* sync() and reboot(), by the Supervisor or at the end of a LinkG.
Reboot ==
  /\ sup = "reboot" \/ app = "leaving" \/ orphan = "leaving"
  /\ durable' = {json} /\ UNCHANGED <<json, faults>>
  /\ PowerOff

\* The Supervisor is killed: its child becomes an orphan.
SupCrash ==
  /\ sup # "down" /\ Fault
  /\ sup' = "down" /\ ver' = json /\ trial' = FALSE /\ why' = "prep" /\ old' = "v1"
  /\ waiter' = IF waiter = "sup" THEN "none" ELSE waiter
  /\ app' = "none"
  /\ orphan' = CASE app \in {"starting", "running", "hung"} /\ orphan # "leaving" -> "alive"
                 [] app = "leaving" -> "leaving"
                 [] OTHER -> orphan
  /\ owner' = "orphan"
  /\ UNCHANGED <<ins, st, slot>>
  /\ UNCHANGED <<disk, env, tool, flash, up>>

\* External: U-Boot starts the slot the environment selects.  A blank slot does
\* not start; a Kernel that never ran before may not come up.
Boot ==
  /\ up = NoSlot
  /\ env' = BootLoader(env)
  /\ \/ /\ image[env'.target] # "blank"
        /\ up' = env'.target /\ UNCHANGED faults
     \/ /\ image[env'.target] = "blank"
        /\ UNCHANGED <<up, faults>>
     \/ /\ image[env'.target] = "new"
        /\ Fault /\ UNCHANGED up
  /\ UNCHANGED <<disk, tool, waiter, flash, supv, procs, insv>>

------------------------------------------------------------------------------
Supervisor ==
  \/ SupStart \/ PrepareLoad \/ RollbackJson \/ RollbackEnv \/ CommitEnv
  \/ CommitJson \/ PrepareStable \/ PrepareTrial \/ LinksApp \/ LinksWeb
  \/ RecordTesting \/ RebootFails \/ Spawn \/ MonitorFails \/ WindowElapses
  \/ CommitAborted \/ RecordRunning \/ Reap

Installer ==
  \/ RequestInstall \/ BeginInstall \/ StageVerifying \/ Extract
  \/ StageInstalling \/ ClearRelease \/ CopyRelease \/ ChooseKernel
  \/ EraseKernel \/ WriteKernel \/ CandidateJson \/ CandidateEnv
  \/ RequestReboot \/ FailJson \/ FailEnv

Machine ==
  \/ ToolEnds \/ ChildReady \/ ChildFails \/ ChildLeaves \/ OrphanEnds
  \/ PowerLoss \/ Reboot \/ SupCrash \/ Boot

Next == Supervisor \/ Installer \/ Machine

Spec == Init /\ [][Next]_vars

(***************************************************************************)
(* Fairness.  Each process runs (an install request is the operator's      *)
(* choice and is not forced), fw_setenv ends, U-Boot boots, a LinkG that   *)
(* starts becomes READY, one that was told to stop stops.  Errors and      *)
(* crashes are bounded by MaxFaults, so every behaviour is eventually free *)
(* of them.                                                                *)
(***************************************************************************)
Fairness ==
  /\ WF_vars(Supervisor)
  /\ WF_vars(Installer /\ ins # "idle")
  /\ WF_vars(ToolEnds) /\ WF_vars(Boot) /\ WF_vars(ChildReady)
  /\ WF_vars(ChildLeaves \/ Reboot) /\ WF_vars(OrphanEnds)

FairSpec == Spec /\ Fairness

------------------------------------------------------------------------------
\* Every variable keeps its type; in particular the JSON always holds a valid
\* snapshot and U-Boot never counts beyond bootlimit.
TypeOK ==
  /\ json \in Versions /\ durable \in SUBSET Versions /\ json \in durable
  /\ env \in Envs /\ tool \in Envs \cup {Idle} /\ waiter \in {"none", "sup", "ins"}
  /\ image \in [Slot -> {"blank", "new", "proven"}]
  /\ files \in [Rel -> {"partial", "new", "proven"}]
  /\ links \in [app : Rel, web : Rel]
  /\ up \in Slot \cup {NoSlot}
  /\ sup \in SupPcs /\ ver \in Versions /\ trial \in BOOLEAN
  /\ why \in {"prep", "fail", "run", "mon"} /\ old \in Rel
  /\ app \in {"none", "starting", "running", "hung", "leaving", "dead"}
  /\ orphan \in {"none", "alive", "leaving"}
  /\ ins \in InsPcs /\ owner \in {"child", "orphan"} /\ st \in Versions /\ slot \in Slot
  /\ faults \in 0..MaxFaults

\* Whatever the version JSON holds after a power loss, the release it calls
\* stable is complete and has passed its trial on a Kernel slot that has too:
\* neither an install nor a wrong confirmation ever touches it.
StableIntact ==
  \A v \in durable : /\ files[v.stable] = "proven"
                     /\ image[v.kernel[v.stable]] = "proven"

\* U-Boot never runs out of Kernels: the stable slot of the environment, and of
\* one that a fw_setenv is about to write, holds a proven image; an unproven
\* image is only selected with the boot count armed.
Bootable ==
  \A e \in {env} \cup ({tool} \ {Idle}) :
    /\ image[e.stable] = "proven"
    /\ image[e.target] # "proven" => image[e.target] = "new" /\ e.upgrading

\* A supervised LinkG runs from the selected release, with the Web files of the
\* same release, on the Kernel this release was installed with.
RunsSelected ==
  app # "none" =>
    /\ links = [app |-> ver.target, web |-> ver.target]
    /\ files[ver.target] # "partial"
    /\ up = ver.kernel[ver.target]

\* While a LinkG runs on a Kernel that has not been proven, U-Boot is armed to
\* fall back to a different slot.
TrialProtected ==
  app # "none" /\ image[up] = "new" => env.upgrading /\ env.stable # up

\* .ota.lock: start-up recovery and an install transaction never overlap.
LeaseExclusive == ~(SupHoldsLease /\ InsHoldsLease)

\* While an install transaction runs, nobody else changes the JSON: it is the
\* snapshot of the transaction, except on the way out after a failed write.
InstallerOwnsJson ==
  InsHoldsLease /\ ins # "fail_json" => json = st

\* After any bounded number of crashes and errors a supervised LinkG runs again.
AppReturns == []<>(app = "running")
\* A candidate does not stay on trial for ever: it is confirmed, rolled back, or
\* the Supervisor itself ends.
TrialEnds == trial ~> ~trial

\* A rollback that a failed candidate made necessary gets past its JSON write.
RollbackCompletes == (sup = "rb_json" /\ why = "run") ~> (sup # "rb_json")
=============================================================================
