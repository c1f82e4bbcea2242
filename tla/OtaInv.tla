------------------------------- MODULE OtaInv -------------------------------
(***************************************************************************)
(* The inductive invariant behind Ota!StableIntact, Bootable, RunsSelected *)
(* and TrialProtected, and what is added to it for InstallerOwnsJson.  A   *)
(* stable release is replaced by a confirmation only, so the invariant     *)
(* follows the evidence that a candidate has passed its trial through the  *)
(* places where it is kept: the Supervisor's control state, the stable     *)
(* slot in the U-Boot environment, and an fw_setenv that is still running. *)
(***************************************************************************)
EXTENDS Ota

\* Control states of an install that writes the release which is not stable.
WritingPcs == {"extract", "installing", "clear", "copy", "kernel", "flashing",
               "erase", "write", "system", "cand_json"}

\* The Supervisor works on a candidate.
TrialPcs == {"cm_env", "cm_json", "env_trial", "links_app", "links_web",
             "testing", "spawn", "monitor", "reap"}
OnTrial == trial /\ sup \in TrialPcs

\* The release that v selects, and its Kernel, have passed a trial.
Proven(v) == files[v.target] = "proven" /\ image[v.kernel[v.target]] = "proven"

\* Snapshots that differ only because a directory was not synced agree on the
\* Kernel of a stable release, and on that of the candidate.
Agreement ==
  \A v, w \in durable :
    /\ (IsTrial(v) \/ v.stable = w.stable) => v.kernel[w.stable] = w.kernel[w.stable]
    /\ IsTrial(v) /\ IsTrial(w) /\ v.stable = w.stable => v.kernel = w.kernel

\* An environment whose stable slot is the candidate's own Kernel is evidence
\* that the candidate was confirmed.
EnvEvidence ==
  \A v \in durable, e \in {env} \cup ({tool} \ {Idle}) :
    /\ IsTrial(v) /\ v.kernel[v.target] # v.kernel[v.stable]
    /\ e.stable = v.kernel[v.target]
    => Proven(v)

\* While an install writes, every snapshot a power loss can leave names the
\* same stable release and no candidate.
WritingSafe ==
  /\ InsHoldsLease => /\ json.stable = st.stable
                      /\ json.kernel[st.stable] = st.kernel[st.stable]
  /\ ins \in WritingPcs \cup {"verifying"} => ~IsTrial(st)
  /\ ins \in WritingPcs =>
       \A v \in durable : /\ ~IsTrial(v)
                          /\ v.stable = st.stable /\ v.kernel = st.kernel
  /\ ins \in {"flashing", "erase", "write"} => slot = Opposite(st.kernel[st.stable])

\* Which caller started what the Supervisor is doing.
Reasons ==
  /\ LeaseExclusive
  /\ sup \in {"env_stable", "env_trial", "links_app", "links_web", "testing"} => why = "prep"
  /\ sup \in {"cm_env", "cm_json"} => why \in {"prep", "mon"} /\ trial
  /\ sup \in {"rb_json", "rb_env", "reboot"} => why # "mon"
  /\ sup = "env_trial" => trial
  /\ sup = "env_stable" => ~trial
  /\ sup \in {"env_stable", "env_trial"} => json = ver

\* What the Supervisor knows of a candidate: its snapshot is the JSON, or
\* somebody has seen the candidate confirmed; a confirmation in progress is one
\* of a candidate that has passed.
TrialKnown ==
  OnTrial =>
    /\ IsTrial(ver)
    /\ \/ json.stable = ver.target
       \/ json \in {ver, InPhase(ver, "testing")} /\ ~InsHoldsLease
    /\ \A v \in durable :
         /\ v.stable = ver.stable /\ IsTrial(v) => v.kernel = ver.kernel
         /\ v.stable = ver.target => v.kernel[ver.target] = ver.kernel[ver.target]
    /\ sup \in {"cm_env", "cm_json"} => Proven(ver)
    /\ sup \in {"links_web", "testing", "spawn", "monitor"} => links.app = ver.target
    /\ sup \in {"cm_env", "cm_json"} /\ why = "mon" => links.app = ver.target

\* A rollback that is half done keeps installs out: its phase is not settled.
HalfRolledBack == ver.upgrade = "rolling_back" /\ ~IsTrial(ver) /\ ~InsHoldsLease
RollbackKnown ==
  /\ sup = "rb_json" /\ IsTrial(ver) =>
       \/ json.stable = ver.target
       \/ json \in {ver, InPhase(ver, "testing"), RolledBack(ver)} /\ ~InsHoldsLease
  /\ sup = "rb_json" /\ ~IsTrial(ver) => HalfRolledBack /\ json = ver
  /\ sup = "rb_env" => HalfRolledBack /\ durable = {ver}
  /\ sup = "reboot" /\ why = "run" => HalfRolledBack /\ json = ver

------------------------------------------------------------------------------
(* What a Kernel that boots, and a LinkG that runs, depend on.              *)

\* The environment as it is, and as a running fw_setenv will write it.
EnvSet == {env} \cup ({tool} \ {Idle})

\* A slot that is up is not blank, and an install only runs on the Kernel of
\* the release it leaves alone.
Powered ==
  /\ sup # "down" => up # NoSlot
  /\ up # NoSlot => image[up] # "blank"
  /\ InsHoldsLease => up = st.kernel[st.stable]

\* An Upgrade worker in the supervised LinkG has a process to run in.
Hosted == ins # "idle" /\ owner = "child" => app # "none"

\* While an install writes, no environment selects the slot it writes to; what
\* it is about to make the candidate is there: files, then image.
InstallReady ==
  /\ ins \in WritingPcs \cup {"verifying"} =>
       \A e \in EnvSet : e = StableEnv(st.kernel[st.stable])
  /\ ins \in {"kernel", "flashing", "erase", "write", "system", "cand_json"} =>
       files[Other(st.stable)] # "partial"
  /\ ins \in {"system", "cand_json", "cand_env"} => image[slot] # "blank"

\* A candidate that a power loss may leave in the JSON was copied completely.
CandidateComplete == \A v \in durable : IsTrial(v) => files[v.target] # "partial"

\* The Supervisor selects a release; it runs one, or may start it next.
Confirming == sup \in {"cm_env", "cm_json"} /\ why = "mon"
Selecting  == sup \in {"links_app", "links_web", "testing"}
Running    == sup \in {"spawn", "monitor", "reap"} \/ Confirming

\* The release it selects was checked against the running Kernel, one link
\* follows the other, and a child only lives once both do.  On a Kernel that is
\* not proven the trial was armed first, and no late fw_setenv disarms it.
Chosen ==
  /\ app # "none" => Running /\ sup # "spawn"
  /\ sup = "env_stable" => ~IsTrial(ver)
  /\ sup = "env_trial" \/ Selecting \/ Running => up = ver.kernel[ver.target]
  /\ Selecting \/ Running =>
       /\ files[ver.target] # "partial"
       /\ image[up] = "new" => tool = Idle /\ env.upgrading
  /\ sup = "links_web" => links.app = ver.target
  /\ sup = "testing" \/ Running => links = [app |-> ver.target, web |-> ver.target]

\* Everything together; it implies StableIntact, Bootable, RunsSelected and
\* TrialProtected, and is preserved by every step.
OtaInvariant ==
  /\ TypeOK /\ StableIntact /\ Agreement /\ EnvEvidence
  /\ WritingSafe /\ Reasons /\ TrialKnown /\ RollbackKnown
  /\ Bootable /\ Powered /\ Hosted /\ InstallReady /\ CandidateComplete /\ Chosen

------------------------------------------------------------------------------
\* Only when a failed write leaves no trace (SyncFaults = FALSE): a Supervisor
\* that still has to record the end of an upgrade has read the JSON as it is,
\* and its unsettled phase keeps installs out.
RecordPending ==
  Selecting \/ Running =>
    (~trial /\ ver.upgrade \notin SettledPhases => json = ver /\ ~InsHoldsLease)
=============================================================================
