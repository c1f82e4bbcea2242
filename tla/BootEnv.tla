------------------------------- MODULE BootEnv -------------------------------
(***************************************************************************)
(* The four U-Boot variables that LinkG and the Supervisor read and write  *)
(* with fw_printenv / fw_setenv (infra/base/linkg_boot_env.c), and what    *)
(* U-Boot does with them (external: the boot loader is not part of the     *)
(* repository; supervisor/README.md describes the bootcmd it relies on).   *)
(***************************************************************************)
EXTENDS Naturals, ReleaseState

CONSTANT BootLimit    \* bootlimit: boots granted to a candidate Kernel

ASSUME BootLimitAssumption == BootLimit \in Nat

Envs == [target : Slot, stable : Slot, count : 0..BootLimit, upgrading : BOOLEAN]

\* linkg_boot_stable
StableEnv(k) == [target |-> k, stable |-> k, count |-> 0, upgrading |-> FALSE]

\* Mutant of PreparedEnv: the trial flag is forgotten.
PreparedEnvUnarmed(t, s) == [target |-> t, stable |-> s, count |-> 0, upgrading |-> FALSE]

\* linkg_boot_prepare
PreparedEnv(t, s) == [target |-> t, stable |-> s, count |-> 0, upgrading |-> t # s]

\* Mutant of TrialEnv: the trial flag is cleared instead of kept.
TrialEnvUnarmed(e, t, s) ==
  [e EXCEPT !.target = t, !.stable = s, !.upgrading = FALSE]

\* linkg_boot_trial: the boot count survives a restart of the candidate
TrialEnv(e, t, s) ==
  [e EXCEPT !.target = t, !.stable = s, !.upgrading = (t # s) \/ e.upgrading]

\* Mutant of EnvConfirms: only boot_partition is looked at.
EnvConfirmsTarget(e, k) == e.target = k

\* linkg_boot_is_stable: all four variables confirm the slot
EnvConfirms(e, k) == e = StableEnv(k)

\* External.  One run of the boot loader: while upgrade_available is set every
\* boot is counted, and the boot after the last granted one runs altbootcmd,
\* which restores the stable slot.
BootLoader(e) ==
  IF ~e.upgrading THEN e
  ELSE IF e.count >= BootLimit THEN StableEnv(e.stable)
  ELSE [e EXCEPT !.count = e.count + 1]
=============================================================================
