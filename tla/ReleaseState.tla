---------------------------- MODULE ReleaseState ----------------------------
(***************************************************************************)
(* The version record that LinkG and its Supervisor share on flash         *)
(* (/app/version_state.json): which release is selected, which one is      *)
(* stable, the Kernel slot every release needs, and the upgrade phase.     *)
(* infra/base/linkg_release_state.c.  Constant-level definitions only; the *)
(* file itself is a variable of module Ota.                                *)
(***************************************************************************)

Rel  == {"v1", "v2"}
Slot == {"boot_a", "boot_b"}
NoSlot == "none"

\* The whitelist of persistent phases (linkg_release_phase_name).
Phases == {"idle", "verifying", "installing", "flashing", "rebooting",
           "testing", "completed", "rolling_back", "rolled_back", "failed"}

\* An install may start from these phases only (upgrade_commit_begin).
SettledPhases == {"idle", "completed", "rolled_back", "failed"}

\* supervisor_release_running turns these into "failed".
InterruptedPhases == {"verifying", "installing", "flashing", "rebooting", "testing"}

Other(r) == IF r = "v1" THEN "v2" ELSE "v1"
Opposite(k) == IF k = "boot_a" THEN "boot_b" ELSE "boot_a"

\* _linkg_release_valid: the stable release must be installed; the other one
\* may still be the empty object.
Versions ==
  { v \in [target : Rel, stable : Rel, kernel : [Rel -> Slot \cup {NoSlot}],
           upgrade : Phases] : v.kernel[v.stable] # NoSlot }

\* The snapshots that the transactions write, as functions of the snapshot
\* that they were computed from.
InPhase(v, phase)  == [v EXCEPT !.upgrade = phase]
Candidate(v, slot) == [v EXCEPT !.target = Other(v.stable),
                                !.kernel[Other(v.stable)] = slot,
                                !.upgrade = "rebooting"]
Confirmed(v)       == [v EXCEPT !.stable = v.target, !.upgrade = "completed"]
RolledBack(v)      == [v EXCEPT !.target = v.stable, !.upgrade = "rolling_back"]
Abandoned(v)       == [v EXCEPT !.target = v.stable, !.upgrade = "failed"]

\* What supervisor_release_running records once the stable App runs.
Settled(v) ==
  InPhase(v, IF v.upgrade = "rolling_back" THEN "rolled_back" ELSE "failed")

IsTrial(v) == v.target # v.stable
=============================================================================
