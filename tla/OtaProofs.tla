------------------------------ MODULE OtaProofs ------------------------------
(***************************************************************************)
(* Proofs about module Ota, for every BootLimit, MaxFaults and SyncFaults. *)
(* Every value has its type; the stable release is never damaged, U-Boot   *)
(* always finds a Kernel, and what runs is what was selected: OtaInvariant *)
(* is preserved by every step of the OTA transaction, and implies          *)
(* StableIntact, Bootable, RunsSelected and TrialProtected.  The proof has *)
(* layers: the types; the records on flash and what the processes know of  *)
(* them; what boots and what runs; and, if a failed JSON write leaves no   *)
(* trace, who owns the JSON.                                               *)
(***************************************************************************)
EXTENDS OtaInv, TLAPS

USE BootLimitAssumption, OtaAssumption

------------------------------------------------------------------------------
(* The snapshots and environments that the transactions compute.            *)

\* Every snapshot a transaction writes is valid (_linkg_release_valid) if the
\* one it was computed from is, and, for a confirmation, the candidate has a
\* Kernel.
LEMMA VersionClosure ==
  ASSUME NEW v \in Versions
  PROVE  /\ \A p \in Phases : InPhase(v, p) \in Versions
         /\ \A k \in Slot : Candidate(v, k) \in Versions
         /\ v.kernel[v.target] # NoSlot => Confirmed(v) \in Versions
         /\ RolledBack(v) \in Versions
         /\ Abandoned(v) \in Versions
         /\ Settled(v) \in Versions
         /\ v.kernel[v.stable] \in Slot
         /\ v.target \in Rel /\ v.stable \in Rel
         /\ v.kernel[v.target] # NoSlot => v.kernel[v.target] \in Slot
  BY ZenonT(40) DEF Versions, InPhase, Candidate, Confirmed, RolledBack, Abandoned, Settled,
         Phases, Rel, Slot, NoSlot, Other
  
\* The environments that the code writes are environments.
LEMMA EnvClosure ==
  /\ \A k \in Slot : StableEnv(k) \in Envs
  /\ \A t, s \in Slot : PreparedEnv(t, s) \in Envs
  /\ \A t, s \in Slot, e \in Envs : TrialEnv(e, t, s) \in Envs
  /\ \A e \in Envs : BootLoader(e) \in Envs
  <1>1. \A k \in Slot : StableEnv(k) \in Envs
    BY DEF StableEnv, Envs
  <1>2. \A t, s \in Slot : PreparedEnv(t, s) \in Envs
    BY DEF PreparedEnv, Envs
  <1>3. \A t, s \in Slot, e \in Envs : TrialEnv(e, t, s) \in Envs
    BY DEF TrialEnv, Envs
  <1>4. \A e \in Envs : BootLoader(e) \in Envs
    <2> SUFFICES ASSUME NEW e \in Envs PROVE BootLoader(e) \in Envs
      OBVIOUS
    <2>1. CASE ~e.upgrading
      BY <2>1 DEF BootLoader
    <2>2. CASE e.upgrading /\ e.count >= BootLimit
      BY <2>2, <1>1 DEF BootLoader, Envs
    <2>3. CASE e.upgrading /\ ~(e.count >= BootLimit)
      BY <2>3 DEF BootLoader, Envs
    <2> QED BY <2>1, <2>2, <2>3
  <1> QED BY <1>1, <1>2, <1>3, <1>4

\* The state the factory delivers is a version record.
LEMMA FactoryValid == Factory \in Versions
  BY DEF Factory, Versions, Rel, Slot, NoSlot, Phases
------------------------------------------------------------------------------
(* Types.  A Supervisor that runs has a machine under it, and a snapshot it  *)
(* is about to confirm, or to try, names a Kernel for its candidate.         *)

CandidateHasKernel ==
  sup \in {"cm_env", "cm_json", "env_trial"} => ver.kernel[ver.target] # NoSlot

TypeInv == TypeOK /\ (sup # "down" => up # NoSlot) /\ CandidateHasKernel

\* The literals that the actions assign.
LEMMA Literals ==
  /\ "v1" \in Rel /\ "boot_a" \in Slot
  /\ {"verifying", "installing", "flashing", "testing"} \subseteq Phases
  /\ \A k \in Slot : Opposite(k) \in Slot /\ k # NoSlot
  BY DEF Rel, Slot, Phases, Opposite, NoSlot

\* The factory state has its types.
LEMMA TypeInit == Init => TypeInv
  <1> SUFFICES ASSUME Init PROVE TypeInv
    OBVIOUS
  <1>1. StableEnv("boot_a") \in Envs
    BY EnvClosure, Literals
  <1>2. image \in [Slot -> {"blank", "new", "proven"}] /\ files \in [Rel -> {"partial", "new", "proven"}]
    BY DEF Init
  <1>3. faults \in 0..MaxFaults
    BY DEF Init
  <1>4. links \in [app : Rel, web : Rel] /\ old \in Rel /\ slot \in Slot
    BY Literals DEF Init
  <1>5. json \in Versions /\ durable \in SUBSET Versions /\ json \in durable /\ ver \in Versions /\ st \in Versions
    BY FactoryValid DEF Init
  <1> QED
    BY <1>1, <1>2, <1>3, <1>4, <1>5
       DEF Init, TypeInv, TypeOK, CandidateHasKernel, SupPcs, InsPcs

\* Every step keeps the types.
LEMMA TypeStep == TypeInv /\ [Next]_vars => TypeInv'
  <1> SUFFICES ASSUME TypeInv, [Next]_vars PROVE TypeInv'
    OBVIOUS
  <1> USE DEF TypeInv, TypeOK, CandidateHasKernel, disk, envs, flash, supv, procs, insv,
              SupPcs, PreparePcs, InsPcs, Idle, NoSlot
  <1>v. /\ json \in Versions /\ ver \in Versions /\ st \in Versions
        /\ env \in Envs
    OBVIOUS
  <1>0. CASE UNCHANGED vars
    BY <1>0 DEF vars
  <1>1. CASE SupStart
    BY <1>1, VersionClosure, EnvClosure, Literals DEF SupStart, SupGoto
  <1>2. CASE PrepareLoad
    BY <1>2, VersionClosure, EnvClosure, Literals DEF PrepareLoad, IsTrial, CandidateUsable
  <1>3. CASE RollbackJson
    BY <1>3, VersionClosure, EnvClosure, Literals DEF RollbackJson, Replace, RollbackFails, Fault
  <1>4. CASE RollbackEnv
    <2>1. StableEnv(ver.kernel[ver.stable]) \in Envs
      BY VersionClosure, EnvClosure
    <2>2. trial' \in BOOLEAN /\ UNCHANGED <<ver, why, old>>
      BY <1>4 DEF RollbackEnv, WriteEnv, RollbackFails
    <2>3. sup' \in {"rb_env", "prepare", "rb_json", "env_stable", "reboot"}
      BY <1>4 DEF RollbackEnv, WriteEnv, RollbackFails
    <2>4. /\ env' = env /\ tool' \in Envs \cup {Idle} /\ waiter' \in {"none", "sup", "ins"}
          /\ faults' \in 0..MaxFaults
      BY <1>4, <2>1 DEF RollbackEnv, WriteEnv, Fault
    <2> QED BY <1>4, <2>2, <2>3, <2>4 DEF RollbackEnv
  <1>5. CASE CommitEnv
    BY <1>5, VersionClosure, EnvClosure, Literals DEF CommitEnv, WriteEnv, CommitFails, SupGoto, EnvFree, Fault
  <1>6. CASE CommitJson
    <2>1. Confirmed(ver) \in Versions
      BY <1>6, VersionClosure DEF CommitJson
    <2>2. trial' \in BOOLEAN /\ ver' \in Versions
      BY <1>6, <2>1 DEF CommitJson, Replace, CommitFails
    <2>3. sup' \in {"prepare", "reap", "monitor", "env_stable"}
      BY <1>6 DEF CommitJson, Replace, CommitFails
    <2>4. json' \in Versions /\ durable' \in SUBSET Versions /\ json' \in durable' /\ faults' \in 0..MaxFaults
      BY <1>6, <2>1 DEF CommitJson, Replace, Fault
    <2>5. UNCHANGED <<why, old>>
      BY <1>6 DEF CommitJson, Replace, CommitFails
    <2> QED BY <1>6, <2>2, <2>3, <2>4, <2>5 DEF CommitJson
  <1>7. CASE PrepareStable
    BY <1>7, VersionClosure, EnvClosure, Literals DEF PrepareStable, WriteEnv, SupGoto, EnvFree, Fault
  <1>8. CASE PrepareTrial
    BY <1>8, VersionClosure, EnvClosure, Literals DEF PrepareTrial, WriteEnv, SupGoto, CandidateFails, EnvFree, Fault
  <1>9. CASE LinksApp
    BY <1>9, VersionClosure, EnvClosure, Literals DEF LinksApp, CandidateFails, SupGoto, Fault
  <1>10. CASE LinksWeb
    BY <1>10, VersionClosure, EnvClosure, Literals DEF LinksWeb, CandidateFails, SupGoto, Fault
  <1>11. CASE RecordTesting
    <2>1. InPhase(ver, "testing") \in Versions
      BY VersionClosure, Literals
    <2> QED BY <1>11, <2>1 DEF RecordTesting, Replace, SupGoto, Fault
  <1>12. CASE RebootFails
    BY <1>12, VersionClosure, EnvClosure, Literals DEF RebootFails, RollbackFails, Fault
  <1>13. CASE Spawn
    BY <1>13, VersionClosure, EnvClosure, Literals DEF Spawn, SupGoto, Fault
  <1>14. CASE MonitorFails
    BY <1>14, VersionClosure, EnvClosure, Literals DEF MonitorFails, SupGoto
  <1>15. CASE WindowElapses
    <2>1. ver' \in Versions /\ ver'.kernel = ver.kernel /\ ver'.target = ver.target
      BY <1>15 DEF WindowElapses, InPhase, Versions
    <2>2. ver'.kernel[ver'.target] # NoSlot
      BY <1>15, <2>1 DEF WindowElapses
    <2>3. files' \in [Rel -> {"partial", "new", "proven"}] /\ image' \in [Slot -> {"blank", "new", "proven"}]
      BY <1>15 DEF WindowElapses
    <2> QED BY <1>15, <2>1, <2>2, <2>3 DEF WindowElapses
  <1>16. CASE CommitAborted
    BY <1>16, VersionClosure, EnvClosure, Literals DEF CommitAborted, CommitFails
  <1>17. CASE RecordRunning
    BY <1>17, VersionClosure, EnvClosure, Literals DEF RecordRunning, Replace, Fault
  <1>18. CASE Reap
    BY <1>18, VersionClosure, EnvClosure, Literals DEF Reap, AbortIns, SupGoto
  <1>19. CASE RequestInstall
    BY <1>19, VersionClosure, EnvClosure, Literals DEF RequestInstall
  <1>20. CASE BeginInstall
    BY <1>20, VersionClosure, EnvClosure, Literals DEF BeginInstall
  <1>21. CASE StageVerifying
    <2>1. InPhase(st, "verifying") \in Versions
      BY VersionClosure, Literals
    <2> QED BY <1>21, <2>1 DEF StageVerifying, Replace, InsGoto, Fault
  <1>22. CASE Extract
    BY <1>22, VersionClosure, EnvClosure, Literals DEF Extract, InsGoto
  <1>23. CASE StageInstalling
    <2>1. \A p \in {"flashing", "installing"} : InPhase(st, p) \in Versions
      BY VersionClosure, Literals
    <2>2. ins' \in InsPcs
      BY <1>23 DEF StageInstalling, Replace, InsGoto
    <2>3. PICK p \in {"flashing", "installing"} :
            Replace(st, InPhase(st, p),
                    st' = InPhase(st, p) /\ UNCHANGED <<owner, slot>>,
                    UNCHANGED <<owner, st, slot>>)
      BY <1>23 DEF StageInstalling, Replace, InsGoto
    <2> QED BY <1>23, <2>1, <2>2, <2>3 DEF StageInstalling, Replace, Fault
  <1>24. CASE ClearRelease
    BY <1>24, VersionClosure, EnvClosure, Literals DEF ClearRelease, InsGoto
  <1>25. CASE CopyRelease
    BY <1>25, VersionClosure, EnvClosure, Literals DEF CopyRelease, InsGoto, Fault
  <1>26. CASE ChooseKernel
    BY <1>26, VersionClosure, EnvClosure, Literals DEF ChooseKernel, Opposite
  <1>27. CASE EraseKernel
    BY <1>27, VersionClosure, EnvClosure, Literals DEF EraseKernel, InsGoto
  <1>28. CASE WriteKernel
    BY <1>28, VersionClosure, EnvClosure, Literals DEF WriteKernel, InsGoto, Fault
  <1>29. CASE CandidateJson
    BY <1>29, VersionClosure, EnvClosure, Literals DEF CandidateJson, Replace, InsGoto, Fault
  <1>30. CASE CandidateEnv
    BY <1>30, VersionClosure, EnvClosure, Literals DEF CandidateEnv, WriteEnv, InsGoto, EnvFree, Fault
  <1>31. CASE RequestReboot
    BY <1>31, VersionClosure, EnvClosure, Literals DEF RequestReboot, InsGoto, Fault
  <1>32. CASE FailJson
    BY <1>32, VersionClosure, EnvClosure, Literals DEF FailJson, Replace, InsGoto, Fault
  <1>33. CASE FailEnv
    BY <1>33, VersionClosure, EnvClosure, Literals DEF FailEnv, WriteEnv, InsGoto, EnvFree, Fault
  <1>34. CASE ToolEnds
    BY <1>34, VersionClosure, EnvClosure, Literals DEF ToolEnds, Fault
  <1>35. CASE ChildReady
    BY <1>35, VersionClosure, EnvClosure, Literals DEF ChildReady
  <1>36. CASE ChildFails
    BY <1>36, VersionClosure, EnvClosure, Literals DEF ChildFails, AbortIns, Fault
  <1>37. CASE ChildLeaves
    BY <1>37, VersionClosure, EnvClosure, Literals DEF ChildLeaves, AbortIns
  <1>38. CASE OrphanEnds
    BY <1>38, VersionClosure, EnvClosure, Literals DEF OrphanEnds, AbortIns, Fault
  <1>39. CASE PowerLoss
    <2>1. json' \in Versions /\ durable' = {json'}
      BY <1>39 DEF PowerLoss
    <2>2. env' \in Envs
      BY <1>39 DEF PowerLoss, PowerOff
    <2>3. faults' \in 0..MaxFaults
      BY <1>39 DEF PowerLoss, Fault
    <2> QED BY <1>39, <2>1, <2>2, <2>3, Literals DEF PowerLoss, PowerOff
  <1>40. CASE Reboot
    BY <1>40, VersionClosure, EnvClosure, Literals DEF Reboot, PowerOff
  <1>41. CASE SupCrash
    <2>1. orphan' \in {"none", "alive", "leaving"}
      BY <1>41 DEF SupCrash
    <2>2. faults' \in 0..MaxFaults
      BY <1>41 DEF SupCrash, Fault
    <2> QED BY <1>41, <2>1, <2>2, Literals DEF SupCrash
  <1>42. CASE Boot
    BY <1>42, VersionClosure, EnvClosure, Literals DEF Boot, Fault, Envs
  <1> QED
    BY <1>0, <1>1, <1>2, <1>3, <1>4, <1>5, <1>6, <1>7, <1>8, <1>9, <1>10, <1>11, <1>12, <1>13, <1>14, <1>15, <1>16, <1>17, <1>18, <1>19, <1>20, <1>21, <1>22, <1>23, <1>24, <1>25, <1>26, <1>27, <1>28, <1>29, <1>30, <1>31, <1>32, <1>33, <1>34, <1>35, <1>36, <1>37, <1>38, <1>39, <1>40, <1>41, <1>42
       DEF Next, Supervisor, Installer, Machine

\* The type invariant of the OTA transaction holds in every reachable state,
\* for every bootlimit and every number of faults.
THEOREM TypeCorrect == Spec => []TypeOK
  <1>1. TypeInv => TypeOK
    BY DEF TypeInv
  <1> QED
    BY TypeInit, TypeStep, <1>1, PTL DEF Spec

------------------------------------------------------------------------------
(* What the transactions compute.                                           *)

\* What the snapshots a transaction writes keep of the one they come from.
LEMMA SnapshotFields ==
  ASSUME NEW v \in Versions
  PROVE  /\ \A p \in Phases :
              /\ InPhase(v, p).target = v.target /\ InPhase(v, p).stable = v.stable
              /\ InPhase(v, p).kernel = v.kernel
         /\ Confirmed(v).target = v.target /\ Confirmed(v).stable = v.target
         /\ Confirmed(v).kernel = v.kernel
         /\ RolledBack(v).target = v.stable /\ RolledBack(v).stable = v.stable
         /\ RolledBack(v).kernel = v.kernel /\ RolledBack(v).upgrade = "rolling_back"
         /\ Abandoned(v).target = v.stable /\ Abandoned(v).stable = v.stable
         /\ Abandoned(v).kernel = v.kernel
         /\ Settled(v).target = v.target /\ Settled(v).stable = v.stable
         /\ Settled(v).kernel = v.kernel
  BY DEF Versions, InPhase, Confirmed, RolledBack, Abandoned, Settled, Phases

\* What upgrade_commit_candidate changes in the version record, and what it keeps.
LEMMA CandidateFields ==
  ASSUME NEW v \in Versions, NEW k \in Slot
  PROVE  /\ Candidate(v, k).target = Other(v.stable)
         /\ Candidate(v, k).stable = v.stable
         /\ Candidate(v, k).kernel[v.stable] = v.kernel[v.stable]
         /\ Candidate(v, k).kernel[Other(v.stable)] = k
  BY DEF Versions, Candidate, Rel, Other

\* Rolling back a record that was rolled back changes nothing.
LEMMA RolledBackTwice ==
  ASSUME NEW v \in Versions, ~IsTrial(v), v.upgrade = "rolling_back"
  PROVE  RolledBack(v) = v
  BY DEF Versions, IsTrial, RolledBack

\* There are two releases: one that is not the stable one is the other one.
LEMMA TwoReleases ==
  /\ \A r \in Rel : Other(r) \in Rel /\ Other(r) # r
  /\ \A r, s, t \in Rel : r # s => t = r \/ t = s
  /\ \A k \in Slot : Opposite(k) # k
  BY DEF Rel, Other, Slot, Opposite

\* The stable slot that a write of the environment, or U-Boot, leaves.
LEMMA EnvFields ==
  /\ \A k \in Slot : StableEnv(k).stable = k
  /\ \A t, s \in Slot : PreparedEnv(t, s).stable = s
  /\ \A t, s \in Slot, e \in Envs : TrialEnv(e, t, s).stable = s
  /\ \A e \in Envs : BootLoader(e).stable = e.stable
  <1>1. \A k \in Slot : StableEnv(k).stable = k
    BY DEF StableEnv
  <1>2. \A t, s \in Slot : PreparedEnv(t, s).stable = s
    BY DEF PreparedEnv
  <1>3. \A t, s \in Slot, e \in Envs : TrialEnv(e, t, s).stable = s
    BY DEF TrialEnv, Envs
  <1>4. \A e \in Envs : BootLoader(e).stable = e.stable
    BY DEF StableEnv, BootLoader, Envs
  <1> QED BY <1>1, <1>2, <1>3, <1>4

------------------------------------------------------------------------------
(* The persistent part of the invariant, and the three kinds of step that   *)
(* touch what it is about.                                                  *)

DiskSafe == StableIntact /\ Agreement /\ EnvEvidence

\* Writing k as the stable slot confirms no candidate that has not passed.
SafeSlot(k) ==
  \A v \in durable :
    IsTrial(v) /\ v.kernel[v.target] # v.kernel[v.stable] /\ k = v.kernel[v.target]
    => Proven(v)

\* The slot of a release that some snapshot calls stable is safe.
LEMMA StableSlotSafe ==
  ASSUME DiskSafe, durable \subseteq Versions, NEW u \in durable
  PROVE  SafeSlot(u.kernel[u.stable])
  <1> SUFFICES ASSUME NEW v \in durable, IsTrial(v),
                      v.kernel[v.target] # v.kernel[v.stable],
                      u.kernel[u.stable] = v.kernel[v.target]
               PROVE  Proven(v)
    BY DEF SafeSlot
  <1>1. v.kernel[u.stable] = u.kernel[u.stable]
    BY DEF DiskSafe, Agreement
  <1>2. u.stable \in {v.stable, v.target}
    BY TwoReleases DEF Versions, IsTrial
  <1>3. u.stable = v.target
    BY <1>1, <1>2
  <1> QED BY <1>1, <1>3 DEF DiskSafe, StableIntact, Proven

\* A step that leaves the disk alone and writes safe slots only.
LEMMA EnvStep ==
  ASSUME DiskSafe, UNCHANGED <<durable, files, image>>,
         \A e \in EnvSet' : (\E f \in EnvSet : f.stable = e.stable) \/ SafeSlot(e.stable)
  PROVE  DiskSafe'
  BY DEF DiskSafe, StableIntact, Agreement, EnvEvidence, EnvSet, SafeSlot, Proven

\* A step that touches nothing of it.
LEMMA DiskFrame ==
  ASSUME DiskSafe, UNCHANGED <<durable, files, image, env, tool>>
  PROVE  DiskSafe'
  BY DEF DiskSafe, StableIntact, Agreement, EnvEvidence, Proven

\* A JSON write that keeps the stable release, the Kernels, and the candidate or
\* abandons it, and a power loss that keeps one of the snapshots.
LEMMA ShapeStep ==
  ASSUME DiskSafe, UNCHANGED <<files, image>>,
         EnvSet' \subseteq EnvSet,
         NEW u \in durable, NEW d,
         d.stable = u.stable, d.kernel = u.kernel, IsTrial(d) => d.target = u.target,
         durable' \subseteq durable \cup {d}
  PROVE  DiskSafe'
  <1>1. StableIntact'
    BY DEF DiskSafe, StableIntact
  <1>2. Agreement'
    BY DEF DiskSafe, Agreement, IsTrial
  <1>3. EnvEvidence'
    BY DEF DiskSafe, EnvEvidence, EnvSet, IsTrial, Proven
  <1> QED BY <1>1, <1>2, <1>3 DEF DiskSafe


------------------------------------------------------------------------------
(* The volatile part.                                                       *)

SupSafe == Reasons /\ TrialKnown /\ RollbackKnown

\* Nothing that the installer's part is about changes, or its lease is gone.
LEMMA WritingFrame ==
  ASSUME WritingSafe,
         ins' \in {"idle", "lease"} \/ UNCHANGED <<json, durable, ins, st, slot>>
  PROVE  WritingSafe'
  BY DEF WritingSafe, InsHoldsLease, WritingPcs

\* The Supervisor does not move, the disk does not change, and no lease is
\* taken.
LEMMA SupFrame ==
  ASSUME SupSafe, UNCHANGED <<sup, ver, trial, why, links, json, durable, files, image>>,
         ins' \in {"idle", "lease", ins}
  PROVE  SupSafe'
  <1>1. InsHoldsLease' => InsHoldsLease
    BY DEF InsHoldsLease
  <1>2. Reasons'
    BY <1>1 DEF SupSafe, Reasons, LeaseExclusive, SupHoldsLease
  <1>3. TrialKnown'
    BY <1>1 DEF SupSafe, TrialKnown, OnTrial, Proven
  <1>4. RollbackKnown'
    BY <1>1 DEF SupSafe, RollbackKnown, HalfRolledBack
  <1> QED BY <1>2, <1>3, <1>4 DEF SupSafe

\* A step of an install that holds the lease: it keeps the stable release of
\* the JSON and its Kernel, and does not touch a release being confirmed.  The
\* Supervisor can then only be monitoring, or working on a snapshot whose
\* candidate has meanwhile been confirmed.
LEMMA LeaseStep ==
  ASSUME SupSafe, InsHoldsLease, UNCHANGED <<sup, ver, trial, why, links>>,
         ver \in Versions, json \in durable,
         json'.stable = json.stable,
         \A v \in durable' : \/ v \in durable
                             \/ /\ v.stable = json.stable
                                /\ v.kernel[v.stable] = json.kernel[json.stable],
         OnTrial /\ json.stable = ver.target /\ Proven(ver) => Proven(ver)'
  PROVE  SupSafe'
  <1>1. ~SupHoldsLease /\ ~SupHoldsLease'
    BY DEF SupSafe, Reasons, LeaseExclusive, SupHoldsLease
  <1>2. sup \notin {"env_stable", "env_trial", "links_app", "links_web", "testing"}
    BY <1>1 DEF SupSafe, Reasons, SupHoldsLease, PreparePcs
  <1>3. Reasons'
    BY <1>1, <1>2 DEF SupSafe, Reasons, LeaseExclusive
  <1>4. TrialKnown'
    <2> SUFFICES ASSUME OnTrial PROVE TrialKnown'
      BY DEF TrialKnown, OnTrial
    <2>1. json.stable = ver.target /\ IsTrial(ver)
      BY DEF SupSafe, TrialKnown
    <2>2. json.kernel[ver.target] = ver.kernel[ver.target]
      BY <2>1 DEF SupSafe, TrialKnown
    <2>3. \A v \in durable' :
            /\ v.stable = ver.stable /\ IsTrial(v) => v.kernel = ver.kernel
            /\ v.stable = ver.target => v.kernel[ver.target] = ver.kernel[ver.target]
      BY <2>1, <2>2 DEF SupSafe, TrialKnown, IsTrial
    <2> QED BY <2>1, <2>3 DEF SupSafe, TrialKnown, OnTrial
  <1>5. RollbackKnown'
    BY DEF SupSafe, RollbackKnown, HalfRolledBack
  <1> QED BY <1>3, <1>4, <1>5 DEF SupSafe

IndInv == TypeInv /\ DiskSafe /\ WritingSafe /\ SupSafe

\* The factory state satisfies the inductive invariant.
LEMMA IndInit == Init => IndInv
  <1> SUFFICES ASSUME Init PROVE IndInv
    OBVIOUS
  <1>1. TypeInv
    BY TypeInit
  <1>2. DiskSafe
    <2>1. StableIntact
      BY DEF Init, StableIntact, Factory, Rel, Slot
    <2>2. Agreement
      BY DEF Init, Agreement
    <2>3. EnvEvidence
      BY DEF Init, EnvEvidence, IsTrial, Factory
    <2> QED BY <2>1, <2>2, <2>3 DEF DiskSafe
  <1>3. WritingSafe
    BY DEF Init, WritingSafe, InsHoldsLease, WritingPcs
  <1>4. SupSafe
    BY DEF Init, SupSafe, Reasons, TrialKnown, RollbackKnown, OnTrial, TrialPcs,
           LeaseExclusive, SupHoldsLease, PreparePcs
  <1> QED BY <1>1, <1>2, <1>3, <1>4 DEF IndInv

------------------------------------------------------------------------------
(* One lemma per group of actions.                                          *)

\* What TypeInv says about the snapshots, in the form the steps below cite.
LEMMA TypeFacts ==
  ASSUME TypeInv
  PROVE  /\ json \in Versions /\ ver \in Versions /\ st \in Versions
         /\ durable \subseteq Versions /\ json \in durable
         /\ env \in Envs /\ slot \in Slot
         /\ \A v \in Versions : v.stable \in Rel /\ v.target \in Rel /\ v.kernel[v.stable] \in Slot
  BY VersionClosure DEF TypeInv, TypeOK

\* The steps of an install that write no snapshot and no environment.
LEMMA InstallFileStep ==
  ASSUME IndInv, TypeInv',
         \/ Extract \/ ClearRelease \/ CopyRelease \/ ChooseKernel
         \/ EraseKernel \/ WriteKernel \/ RequestReboot
  PROVE  DiskSafe' /\ WritingSafe' /\ SupSafe'
  <1> USE DEF IndInv, disk, envs, flash, supv, procs, insv
  <1>t. /\ json \in durable /\ ver \in Versions /\ durable \subseteq Versions
        /\ st \in Versions /\ st.stable \in Rel /\ st.kernel[st.stable] \in Slot
        /\ files \in [Rel -> {"partial", "new", "proven"}]
        /\ image \in [Slot -> {"blank", "new", "proven"}]
    BY TypeFacts DEF TypeInv, TypeOK
  <1>l. /\ InsHoldsLease
        /\ UNCHANGED <<json, durable, env, tool, sup, ver, trial, why, links, st>>
    BY DEF Extract, ClearRelease, CopyRelease, ChooseKernel, EraseKernel, WriteKernel,
           RequestReboot, InsGoto, InsHoldsLease
  <1>w. WritingSafe'
    <2>1. InsHoldsLease' => json.stable = st.stable /\ json.kernel[st.stable] = st.kernel[st.stable]
      BY <1>l DEF WritingSafe
    <2>2. ins' \in WritingPcs \cup {"verifying"} => ins \in WritingPcs
      BY DEF Extract, ClearRelease, CopyRelease, ChooseKernel, EraseKernel, WriteKernel,
             RequestReboot, InsGoto, WritingPcs
    <2>3. ins' \in {"flashing", "erase", "write"} => slot' = Opposite(st.kernel[st.stable])
      BY DEF Extract, ClearRelease, CopyRelease, ChooseKernel, EraseKernel, WriteKernel,
             RequestReboot, InsGoto, WritingSafe
    <2> QED BY <1>l, <2>1, <2>2, <2>3 DEF WritingSafe
  <1>1. CASE UNCHANGED <<files, image>>
    <2>1. DiskSafe'
      BY <1>1, <1>l, DiskFrame
    <2>2. SupSafe'
      BY <1>1, <1>l, <1>t, LeaseStep DEF Proven
    <2> QED BY <1>w, <2>1, <2>2
  <1>2. CASE ~UNCHANGED <<files, image>>
    <2>1. ins \in WritingPcs
      BY <1>2 DEF Extract, ClearRelease, CopyRelease, ChooseKernel, EraseKernel,
                  WriteKernel, RequestReboot, WritingPcs
    <2>2. \A v \in durable : ~IsTrial(v) /\ v.stable = st.stable /\ v.kernel = st.kernel
      BY <2>1 DEF WritingSafe
    <2>3. files'[st.stable] = files[st.stable]
      <3>1. json.stable = st.stable
        BY <1>t, <2>2
      <3>2. st.stable # Other(st.stable)
        BY <1>t, TwoReleases
      <3> QED BY <1>2, <1>t, <3>1, <3>2
               DEF Extract, ClearRelease, CopyRelease, ChooseKernel, EraseKernel,
                   WriteKernel, RequestReboot
    <2>4. image'[st.kernel[st.stable]] = image[st.kernel[st.stable]]
      <3>1. ins \in {"erase", "write"} => slot # st.kernel[st.stable]
        BY <1>t, TwoReleases DEF WritingSafe
      <3> QED BY <1>2, <1>t, <3>1
               DEF Extract, ClearRelease, CopyRelease, ChooseKernel, EraseKernel,
                   WriteKernel, RequestReboot
    <2>5. DiskSafe'
      <3>1. StableIntact'
        BY <1>l, <2>2, <2>3, <2>4 DEF DiskSafe, StableIntact
      <3>2. Agreement'
        BY <1>l DEF DiskSafe, Agreement
      <3>3. EnvEvidence'
        BY <1>l, <2>2 DEF EnvEvidence
      <3> QED BY <3>1, <3>2, <3>3 DEF DiskSafe
    <2>6. OnTrial /\ json.stable = ver.target => Proven(ver)'
      <3> SUFFICES ASSUME OnTrial, json.stable = ver.target PROVE Proven(ver)'
        OBVIOUS
      <3>1. ver.target = st.stable /\ ver.kernel[ver.target] = st.kernel[st.stable]
        BY <1>t, <2>2 DEF SupSafe, TrialKnown
      <3> QED BY <1>t, <1>l, <2>2, <2>3, <2>4, <3>1 DEF DiskSafe, StableIntact, Proven
    <2> QED BY <1>w, <1>l, <1>t, <2>5, <2>6, LeaseStep
  <1> QED BY <1>1, <1>2

\* A stage of an install records its phase.
LEMMA StageStep ==
  ASSUME IndInv, TypeInv', StageVerifying \/ StageInstalling
  PROVE  DiskSafe' /\ WritingSafe' /\ SupSafe'
  <1> USE DEF IndInv, disk, envs, flash, supv, procs, insv
  <1>t. json \in durable /\ json \in Versions /\ ver \in Versions /\ st \in Versions
    BY TypeFacts
  <1>l. /\ InsHoldsLease /\ ins \in WritingPcs \cup {"verifying"}
        /\ UNCHANGED <<env, tool, files, image, sup, ver, trial, why, links, slot>>
        /\ json.stable = st.stable /\ json.kernel[st.stable] = st.kernel[st.stable]
        /\ ~IsTrial(st)
    BY DEF StageVerifying, StageInstalling, Replace, InsGoto, InsHoldsLease, WritingPcs, WritingSafe
  <1>1. PICK p \in Phases :
          /\ \/ UNCHANGED disk
             \/ /\ json \in {st, InPhase(st, p)} /\ json' = InPhase(st, p)
                /\ durable' \in {{json'}, durable \cup {json'}}
          /\ \/ ins' \in {"idle", "fail_json"} /\ st' = st
             \/ st' = InPhase(st, p) /\ durable' = {st'} /\ json' = st'
          /\ ins' \in {"flashing", "erase", "write"} => ins = "flashing"
    BY Literals DEF StageVerifying, StageInstalling, Replace, InsGoto
  <1> DEFINE d == InPhase(st, p)
  <1>2. /\ d.target = st.target /\ d.stable = st.stable /\ d.kernel = st.kernel
    BY <1>t, SnapshotFields
  <1>3. /\ json'.stable = json.stable /\ json'.kernel[st.stable] = st.kernel[st.stable]
        /\ durable' \subseteq durable \cup {json'}
        /\ json'.kernel = json.kernel
        /\ IsTrial(json') => json'.target = json.target
    <2> HIDE DEF d
    <2> QED BY <1>1, <1>2, <1>l, <1>t DEF IsTrial, d
  <1>4. DiskSafe'
    BY <1>l, <1>t, <1>3, ShapeStep DEF EnvSet
  <1>5. SupSafe'
    BY <1>l, <1>t, <1>3, LeaseStep DEF Proven
  <1>6. WritingSafe'
    <2>1. CASE ins' \in {"idle", "fail_json"} /\ st' = st
      BY <2>1, <1>l, <1>3 DEF WritingSafe, WritingPcs
    <2>2. CASE st' = d /\ durable' = {st'} /\ json' = st'
      <3>1. ins' \in {"flashing", "erase", "write"} => slot' = Opposite(st'.kernel[st'.stable])
        BY <2>2, <1>1, <1>2, <1>l DEF WritingSafe
      <3> QED BY <2>2, <3>1, <1>2, <1>l DEF WritingSafe, IsTrial
    <2> QED BY <2>1, <2>2, <1>1
  <1> QED BY <1>4, <1>5, <1>6

\* The release becomes the candidate: before this write no snapshot names one,
\* and the environment confirms the stable slot.
LEMMA CandidateStep ==
  ASSUME IndInv, TypeInv', CandidateJson
  PROVE  DiskSafe' /\ WritingSafe' /\ SupSafe'
  <1> USE DEF IndInv, disk, envs, flash, supv, procs, insv
  <1>t. /\ json \in durable /\ json \in Versions /\ ver \in Versions /\ st \in Versions
        /\ slot \in Slot /\ json.stable \in Rel /\ json.kernel[json.stable] \in Slot
    BY TypeFacts
  <1>l. /\ InsHoldsLease
        /\ UNCHANGED <<env, tool, files, image, sup, ver, trial, why, links, slot>>
        /\ json.stable = st.stable /\ json.kernel[st.stable] = st.kernel[st.stable]
        /\ \A v \in durable : ~IsTrial(v) /\ v.stable = st.stable /\ v.kernel = st.kernel
    BY DEF CandidateJson, Replace, InsGoto, InsHoldsLease, WritingPcs, WritingSafe
  <1> DEFINE c == Candidate(json, slot)
  <1>1. \/ UNCHANGED disk /\ ins' = "fail_json" /\ st' = st
        \/ /\ json' = c /\ durable' \subseteq durable \cup {c}
           /\ EnvConfirms(env, json.kernel[json.stable]) /\ tool = Idle
           /\ ins' \in {"cand_env", "fail_json"} /\ st' \in {st, c}
    BY DEF CandidateJson, Replace, InsGoto, KernelSettled, EnvFree
  <1>2. /\ c.target = Other(json.stable) /\ c.stable = json.stable
        /\ c.kernel[json.stable] = json.kernel[json.stable]
        /\ c.kernel[c.target] = slot /\ c.target # c.stable
    BY <1>t, CandidateFields, TwoReleases
  <1> HIDE DEF c
  <1>3. CASE UNCHANGED disk /\ ins' = "fail_json" /\ st' = st
    <2>1. DiskSafe'
      BY <1>3, <1>l, DiskFrame
    <2>2. WritingSafe'
      BY <1>3, <1>l DEF WritingSafe, WritingPcs
    <2>3. SupSafe'
      BY <1>3, <1>l, <1>t, LeaseStep DEF Proven
    <2> QED BY <2>1, <2>2, <2>3
  <1>4. CASE /\ json' = c /\ durable' \subseteq durable \cup {c}
             /\ EnvConfirms(env, json.kernel[json.stable]) /\ tool = Idle
             /\ ins' \in {"cand_env", "fail_json"} /\ st' \in {st, c}
    <2>1. StableIntact'
      BY <1>4, <1>l, <1>t, <1>2 DEF DiskSafe, StableIntact
    <2>2. Agreement'
      BY <1>4, <1>l, <1>t, <1>2 DEF Agreement, IsTrial
    <2>3. EnvEvidence'
      <3>1. env.stable = json.kernel[json.stable]
        BY <1>4, <1>t, EnvFields DEF EnvConfirms
      <3> QED BY <1>4, <1>l, <1>2, <3>1 DEF EnvEvidence
    <2>4. WritingSafe'
      BY <1>4, <1>l, <1>2 DEF WritingSafe, WritingPcs
    <2>5. SupSafe'
      BY <1>4, <1>l, <1>t, <1>2, LeaseStep DEF Proven
    <2> QED BY <2>1, <2>2, <2>3, <2>4, <2>5 DEF DiskSafe
  <1> QED BY <1>1, <1>3, <1>4

\* A failed install abandons its candidate.
LEMMA FailStep ==
  ASSUME IndInv, TypeInv', FailJson
  PROVE  DiskSafe' /\ WritingSafe' /\ SupSafe'
  <1> USE DEF IndInv, disk, envs, flash, supv, procs, insv
  <1>t. json \in durable /\ json \in Versions /\ ver \in Versions
    BY TypeFacts
  <1>l. /\ InsHoldsLease
        /\ UNCHANGED <<env, tool, files, image, sup, ver, trial, why, links, slot>>
    BY DEF FailJson, Replace, InsGoto, InsHoldsLease
  <1> DEFINE d == Abandoned(json)
  <1>1. /\ d.target = json.stable /\ d.stable = json.stable /\ d.kernel = json.kernel
    BY <1>t, SnapshotFields
  <1>2. /\ \/ UNCHANGED disk
           \/ json' = d /\ durable' \subseteq durable \cup {d}
        /\ ins' = "idle" \/ (ins' = "fail_env" /\ st' = d /\ json' = d)
    BY DEF FailJson, Replace, InsGoto
  <1> HIDE DEF d
  <1>3. DiskSafe'
    BY <1>l, <1>t, <1>1, <1>2, ShapeStep DEF EnvSet, IsTrial
  <1>4. SupSafe'
    BY <1>l, <1>t, <1>1, <1>2, LeaseStep DEF Proven
  <1>5. WritingSafe'
    BY <1>2 DEF WritingSafe, WritingPcs, InsHoldsLease
  <1> QED BY <1>3, <1>4, <1>5

\* The environment writes of an install name the stable slot of the JSON.
LEMMA InstallEnvStep ==
  ASSUME IndInv, TypeInv', CandidateEnv \/ FailEnv
  PROVE  DiskSafe' /\ WritingSafe' /\ SupSafe'
  <1> USE DEF IndInv, disk, envs, flash, supv, procs, insv
  <1>t. /\ json \in durable /\ ver \in Versions /\ durable \subseteq Versions
        /\ slot \in Slot /\ st.kernel[st.stable] \in Slot
    BY TypeFacts
  <1>l. /\ InsHoldsLease
        /\ UNCHANGED <<json, durable, files, image, sup, ver, trial, why, links, slot, st>>
        /\ ins' \in {ins, "idle", "reboot", "fail_json"} /\ ins \notin WritingPcs \cup {"verifying"}
    BY DEF CandidateEnv, FailEnv, WriteEnv, InsGoto, InsHoldsLease, WritingPcs
  <1>1. json.stable = st.stable /\ json.kernel[st.stable] = st.kernel[st.stable]
    BY <1>l DEF WritingSafe
  <1>2. PICK want : want.stable = st.kernel[st.stable] /\ env' = env /\ tool' \in {tool, want}
    <2>1. CASE CandidateEnv
      <3>1. PreparedEnv(slot, st.kernel[st.stable]).stable = st.kernel[st.stable]
        BY <1>t, EnvFields
      <3> QED BY <2>1, <3>1 DEF CandidateEnv, WriteEnv
    <2>2. CASE FailEnv
      <3>1. StableEnv(st.kernel[st.stable]).stable = st.kernel[st.stable]
        BY <1>t, EnvFields
      <3> QED BY <2>2, <3>1 DEF FailEnv, WriteEnv
    <2> QED BY <2>1, <2>2
  <1>3. SafeSlot(st.kernel[st.stable])
    BY <1>t, <1>1, StableSlotSafe
  <1>4. DiskSafe'
    BY <1>l, <1>2, <1>3, EnvStep DEF EnvSet
  <1>5. WritingSafe'
    BY <1>l, <1>1 DEF WritingSafe, WritingPcs
  <1>6. SupSafe'
    BY <1>l, <1>t, LeaseStep DEF Proven
  <1> QED BY <1>4, <1>5, <1>6

\* An install starts from a settled JSON only, which is not what a Supervisor
\* with a candidate or with half a rollback has.
LEMMA BeginStep ==
  ASSUME IndInv, TypeInv', RequestInstall \/ BeginInstall
  PROVE  DiskSafe' /\ WritingSafe' /\ SupSafe'
  <1> USE DEF IndInv, disk, envs, flash, supv, procs, insv
  <1>t. json \in durable /\ json \in Versions /\ ver \in Versions
    BY TypeFacts
  <1>l. UNCHANGED <<json, durable, env, tool, files, image, sup, ver, trial, why, links>>
    BY DEF RequestInstall, BeginInstall
  <1>1. DiskSafe'
    BY <1>l, DiskFrame
  <1>2. CASE ins' \in {"idle", "lease"}
    BY <1>1, <1>2, <1>l, WritingFrame, SupFrame
  <1>3. CASE ins' \notin {"idle", "lease"}
    <2>1. /\ ins' = "verifying" /\ st' = json /\ ~SupHoldsLease
          /\ ~IsTrial(json) /\ json.upgrade \in SettledPhases
      BY <1>3 DEF RequestInstall, BeginInstall
    <2>2. WritingSafe'
      BY <2>1, <1>l DEF WritingSafe, WritingPcs
    <2>3. Reasons'
      BY <2>1, <1>l DEF SupSafe, Reasons, LeaseExclusive, SupHoldsLease
    <2>4. OnTrial => json.stable = ver.target
      <3>1. IsTrial(ver) => IsTrial(InPhase(ver, "testing"))
        BY <1>t, SnapshotFields, Literals DEF IsTrial
      <3> QED BY <2>1, <3>1 DEF SupSafe, TrialKnown
    <2>5. TrialKnown'
      BY <2>4, <1>l DEF SupSafe, TrialKnown, OnTrial, Proven
    <2>6. RollbackKnown'
      <3>1. "rolling_back" \notin SettledPhases
        BY DEF SettledPhases
      <3>2. IsTrial(ver) => IsTrial(InPhase(ver, "testing"))
        BY <1>t, SnapshotFields, Literals DEF IsTrial
      <3>3. RolledBack(ver).upgrade = "rolling_back"
        BY <1>t, SnapshotFields
      <3>4. sup = "rb_json" => IsTrial(ver) /\ json.stable = ver.target
        BY <2>1, <3>1, <3>2, <3>3 DEF SupSafe, RollbackKnown, HalfRolledBack
      <3>5. sup # "rb_env" /\ ~(sup = "reboot" /\ why = "run")
        BY <1>t, <2>1, <3>1 DEF SupSafe, RollbackKnown, HalfRolledBack
      <3> QED BY <3>4, <3>5, <1>l DEF RollbackKnown
    <2> QED BY <1>1, <2>2, <2>3, <2>5, <2>6 DEF SupSafe
  <1> QED BY <1>2, <1>3

\* The child, an orphan, fw_setenv and U-Boot.
LEMMA EnvironmentStep ==
  ASSUME IndInv, TypeInv',
         ToolEnds \/ ChildReady \/ ChildFails \/ ChildLeaves \/ OrphanEnds \/ Boot
  PROVE  DiskSafe' /\ WritingSafe' /\ SupSafe'
  <1> USE DEF IndInv, disk, envs, flash, supv, procs, insv
  <1>t. env \in Envs
    BY TypeFacts
  <1>l. /\ UNCHANGED <<json, durable, files, image, sup, ver, trial, why, links, st, slot>>
        /\ ins' \in {ins, "idle"}
    BY DEF ToolEnds, ChildReady, ChildFails, ChildLeaves, OrphanEnds, Boot, AbortIns
  <1>1. \A e \in EnvSet' : \E f \in EnvSet : f.stable = e.stable
    <2>1. CASE ToolEnds
      BY <2>1 DEF ToolEnds, EnvSet
    <2>2. CASE Boot
      BY <2>2, <1>t, EnvFields DEF Boot, EnvSet
    <2>3. CASE UNCHANGED <<env, tool>>
      BY <2>3 DEF EnvSet
    <2> QED BY <2>1, <2>2, <2>3 DEF ChildReady, ChildFails, ChildLeaves, OrphanEnds
  <1>2. DiskSafe'
    BY <1>l, <1>1, EnvStep
  <1> QED BY <1>l, <1>2, WritingFrame, SupFrame

\* Power losses, reboots and the death of the Supervisor.
LEMMA CrashStep ==
  ASSUME IndInv, TypeInv', PowerLoss \/ Reboot \/ SupCrash
  PROVE  DiskSafe' /\ WritingSafe' /\ SupSafe'
  <1> USE DEF IndInv, disk, envs, flash, supv, procs, insv
  <1>t. json \in durable
    BY TypeFacts
  <1>l. UNCHANGED <<files, image>> /\ durable' \subseteq durable /\ sup' = "down"
    BY <1>t DEF PowerLoss, Reboot, SupCrash, PowerOff
  <1>1. EnvSet' \subseteq EnvSet
    BY DEF PowerLoss, Reboot, SupCrash, PowerOff, EnvSet
  <1>2. DiskSafe'
    BY <1>l, <1>1, <1>t, ShapeStep
  <1>3. WritingSafe'
    <2>1. ins' = "idle" \/ UNCHANGED <<json, durable, ins, st, slot>>
      BY DEF PowerLoss, Reboot, SupCrash, PowerOff
    <2> QED BY <2>1, WritingFrame
  <1>4. SupSafe'
    BY <1>l DEF SupSafe, Reasons, TrialKnown, RollbackKnown, OnTrial, TrialPcs,
                LeaseExclusive, SupHoldsLease, PreparePcs
  <1> QED BY <1>2, <1>3, <1>4

\* Steps of the Supervisor that write neither the JSON nor the environment.
LEMMA SupMoves ==
  ASSUME IndInv, TypeInv',
         \/ SupStart \/ PrepareLoad \/ LinksApp \/ LinksWeb \/ RebootFails
         \/ Spawn \/ MonitorFails \/ CommitAborted \/ Reap
  PROVE  DiskSafe' /\ WritingSafe' /\ SupSafe'
  <1> USE DEF IndInv, disk, envs, flash, supv, procs, insv
  <1>t. json \in durable /\ json \in Versions /\ ver \in Versions /\ links \in [app : Rel, web : Rel]
    BY TypeFacts DEF TypeInv, TypeOK
  <1>l. /\ UNCHANGED <<json, durable, files, image, env, tool>>
        /\ ins' = "idle" \/ UNCHANGED <<ins, st, slot>>
        /\ InsHoldsLease' => InsHoldsLease
    BY DEF SupStart, PrepareLoad, LinksApp, LinksWeb, RebootFails, Spawn, MonitorFails,
           CommitAborted, Reap, AbortIns, InsHoldsLease
  <1>1. DiskSafe' /\ WritingSafe'
    BY <1>l, DiskFrame, WritingFrame
  <1>2. CASE SupStart
    BY <1>1, <1>2 DEF SupStart, SupGoto, SupSafe, Reasons, TrialKnown, RollbackKnown, OnTrial,
                 TrialPcs, LeaseExclusive, SupHoldsLease, PreparePcs
  <1>3. CASE PrepareLoad
    <2>1. /\ ver' = json /\ ~InsHoldsLease' /\ why' = "prep" /\ trial' = IsTrial(json)
          /\ \/ sup' = "rb_json" /\ IsTrial(json)
             \/ sup' = "env_trial" /\ IsTrial(json)
             \/ sup' = "env_stable" /\ ~IsTrial(json)
             \/ /\ sup' = "cm_env" /\ IsTrial(json)
                /\ json.kernel[json.target] # json.kernel[json.stable]
                /\ env = StableEnv(json.kernel[json.target])
                /\ json.kernel[json.target] # NoSlot
      BY <1>3, <1>l DEF PrepareLoad, EnvConfirms, CandidateUsable
    <2>2. Reasons'
      BY <2>1, <1>l DEF Reasons, LeaseExclusive, IsTrial
    <2>3. sup' = "cm_env" => Proven(json)
      <3>1. sup' = "cm_env" => env.stable = json.kernel[json.target]
        BY <2>1, <1>t, VersionClosure, EnvFields
      <3> QED BY <2>1, <3>1, <1>t DEF DiskSafe, EnvEvidence
    <2>4. TrialKnown'
      <3>1. \A v \in durable : IsTrial(json) =>
              /\ v.stable = json.stable /\ IsTrial(v) => v.kernel = json.kernel
              /\ v.stable = json.target => v.kernel[json.target] = json.kernel[json.target]
        BY <1>t DEF DiskSafe, Agreement
      <3>2. OnTrial' => IsTrial(json) /\ sup' \in {"env_trial", "cm_env"}
        BY <2>1 DEF OnTrial, TrialPcs
      <3> QED BY <2>1, <2>3, <3>1, <3>2, <1>l DEF TrialKnown, Proven
    <2>5. RollbackKnown'
      BY <2>1, <1>l DEF RollbackKnown
    <2> QED BY <1>1, <2>2, <2>4, <2>5 DEF SupSafe
  <1>4. CASE LinksApp \/ LinksWeb
    <2>1. /\ UNCHANGED <<ver, trial>> /\ sup \in {"links_app", "links_web"} /\ UNCHANGED ins
          /\ \/ sup' \in {"links_web", "testing", "spawn"} /\ why' = why
             \/ sup' = "prepare"
             \/ sup' = "rb_json" /\ why' = "fail" /\ trial
          /\ trial /\ sup' \in {"links_web", "testing", "spawn"} => links'.app = ver.target
      BY <1>4, <1>t DEF LinksApp, LinksWeb, CandidateFails, SupGoto, SupSafe, TrialKnown, OnTrial, TrialPcs
    <2>2. Reasons'
      BY <2>1, <1>l DEF SupSafe, Reasons, LeaseExclusive, SupHoldsLease, PreparePcs, InsHoldsLease
    <2>3. TrialKnown'
      BY <2>1, <1>l DEF SupSafe, TrialKnown, OnTrial, TrialPcs, Proven, InsHoldsLease
    <2>4. RollbackKnown'
      BY <2>1, <1>l DEF SupSafe, RollbackKnown, TrialKnown, OnTrial, TrialPcs, InsHoldsLease
    <2> QED BY <1>1, <2>2, <2>3, <2>4 DEF SupSafe
  <1>5. CASE RebootFails
    <2>1. /\ UNCHANGED <<ver, trial, why, ins>> /\ sup = "reboot"
          /\ sup' = IF why = "run" THEN "rb_json" ELSE "prepare"
      BY <1>5 DEF RebootFails, RollbackFails
    <2>2. Reasons'
      BY <2>1, <1>l DEF SupSafe, Reasons, LeaseExclusive, SupHoldsLease, PreparePcs, InsHoldsLease
    <2>3. TrialKnown'
      BY <2>1 DEF TrialKnown, OnTrial, TrialPcs
    <2>4. RollbackKnown'
      BY <2>1, <1>l DEF SupSafe, RollbackKnown, HalfRolledBack, InsHoldsLease
    <2> QED BY <1>1, <2>2, <2>3, <2>4 DEF SupSafe
  <1>6. CASE Spawn \/ MonitorFails \/ CommitAborted
    <2>1. /\ UNCHANGED <<ver, trial, why, links, ins>>
          /\ sup \in {"spawn", "monitor", "cm_env"} /\ sup' \in {"monitor", "reap"}
          /\ sup' = "monitor" => sup = "spawn" \/ (sup = "cm_env" /\ why = "mon")
      BY <1>6 DEF Spawn, MonitorFails, CommitAborted, CommitFails, SupGoto
    <2>2. Reasons'
      BY <2>1, <1>l DEF SupSafe, Reasons, LeaseExclusive, SupHoldsLease, PreparePcs, InsHoldsLease
    <2>3. TrialKnown'
      BY <2>1, <1>l DEF SupSafe, TrialKnown, OnTrial, TrialPcs, Proven, InsHoldsLease
    <2>4. RollbackKnown'
      BY <2>1 DEF RollbackKnown
    <2> QED BY <1>1, <2>2, <2>3, <2>4 DEF SupSafe
  <1>7. CASE Reap
    <2>1. /\ UNCHANGED <<ver, trial>> /\ sup = "reap"
          /\ \/ trial /\ sup' = "rb_json" /\ why' = "run"
             \/ sup' = "prepare"
      BY <1>7 DEF Reap, SupGoto
    <2>2. Reasons'
      BY <2>1, <1>l DEF SupSafe, Reasons, LeaseExclusive, SupHoldsLease, PreparePcs
    <2>3. TrialKnown'
      BY <2>1 DEF TrialKnown, OnTrial, TrialPcs
    <2>4. RollbackKnown'
      BY <2>1, <1>l DEF SupSafe, RollbackKnown, TrialKnown, OnTrial, TrialPcs
    <2> QED BY <1>1, <2>2, <2>3, <2>4 DEF SupSafe
  <1> QED BY <1>2, <1>3, <1>4, <1>5, <1>6, <1>7

\* The candidate passes its trial.
LEMMA WindowStep ==
  ASSUME IndInv, TypeInv', WindowElapses
  PROVE  DiskSafe' /\ WritingSafe' /\ SupSafe'
  <1> USE DEF IndInv, disk, envs, flash, supv, procs, insv
  <1>t. /\ json \in durable /\ json \in Versions /\ ver \in Versions /\ links.app \in Rel
        /\ files \in [Rel -> {"partial", "new", "proven"}] /\ up \in Slot
        /\ image \in [Slot -> {"blank", "new", "proven"}]
    BY TypeFacts DEF TypeInv, TypeOK, WindowElapses
  <1>l. /\ UNCHANGED <<json, durable, env, tool, links, trial, ins, st, slot>>
        /\ sup = "monitor" /\ trial /\ sup' = "cm_env" /\ why' = "mon"
        /\ up = ver.kernel[ver.target]
        /\ ver' \in {ver, InPhase(ver, "testing")} /\ (ver' = ver \/ json = ver')
    BY DEF WindowElapses
  <1>1. /\ ver'.target = ver.target /\ ver'.stable = ver.stable /\ ver'.kernel = ver.kernel
    BY <1>l, <1>t, SnapshotFields, Literals
  <1>2. /\ \A r : files[r] = "proven" => files'[r] = "proven"
        /\ \A k : image[k] = "proven" => image'[k] = "proven"
        /\ files'[links.app] = "proven" /\ image'[up] = "proven"
    BY <1>t DEF WindowElapses
  <1>3. DiskSafe'
    BY <1>l, <1>2 DEF DiskSafe, StableIntact, Agreement, EnvEvidence, Proven
  <1>4. WritingSafe'
    BY <1>l, WritingFrame
  <1>5. Reasons'
    BY <1>l DEF Reasons, LeaseExclusive, SupHoldsLease
  <1>6. TrialKnown'
    <2>1. OnTrial
      BY <1>l DEF OnTrial, TrialPcs
    <2>2. /\ IsTrial(ver) /\ links.app = ver.target
          /\ \A v \in durable :
               /\ v.stable = ver.stable /\ IsTrial(v) => v.kernel = ver.kernel
               /\ v.stable = ver.target => v.kernel[ver.target] = ver.kernel[ver.target]
          /\ json.stable = ver.target \/ (json \in {ver, InPhase(ver, "testing")} /\ ~InsHoldsLease)
      BY <2>1, <1>l DEF SupSafe, TrialKnown
    <2>3. Proven(ver)'
      BY <1>l, <1>1, <1>2, <2>2 DEF Proven
    <2>4. \/ json'.stable = ver'.target
          \/ json' \in {ver', InPhase(ver', "testing")} /\ ~InsHoldsLease'
      BY <1>l, <1>1, <2>2 DEF InsHoldsLease, IsTrial
    <2>5. IsTrial(ver') /\ links'.app = ver'.target
      BY <1>l, <1>1, <2>2 DEF IsTrial
    <2> QED BY <1>l, <1>1, <2>2, <2>3, <2>4, <2>5 DEF TrialKnown
  <1>7. RollbackKnown'
    BY <1>l DEF RollbackKnown
  <1> QED BY <1>3, <1>4, <1>5, <1>6, <1>7 DEF SupSafe

\* The environment writes of the Supervisor name a slot that is stable, or one
\* that has passed.
LEMMA SupEnvStep ==
  ASSUME IndInv, TypeInv', RollbackEnv \/ CommitEnv \/ PrepareStable \/ PrepareTrial
  PROVE  DiskSafe' /\ WritingSafe' /\ SupSafe'
  <1> USE DEF IndInv, disk, envs, flash, supv, procs, insv
  <1>t. /\ json \in durable /\ json \in Versions /\ ver \in Versions /\ durable \subseteq Versions
        /\ env \in Envs /\ ver.kernel[ver.stable] \in Slot
        /\ \A v \in Versions : v.stable \in Rel /\ v.target \in Rel
        /\ sup \in {"cm_env", "env_trial"} => ver.kernel[ver.target] \in Slot
    BY TypeFacts, VersionClosure DEF TypeInv, CandidateHasKernel
  <1>l. UNCHANGED <<json, durable, files, image, links, ver, env, ins, st, slot>>
    BY DEF RollbackEnv, CommitEnv, PrepareStable, PrepareTrial, WriteEnv, RollbackFails,
           CommitFails, CandidateFails, SupGoto
  <1>w. WritingSafe'
    BY <1>l, WritingFrame
  <1>d. ASSUME NEW want, SafeSlot(want.stable), tool' \in {tool, want} PROVE DiskSafe'
    BY <1>d, <1>l, EnvStep DEF EnvSet
  <1>1. CASE RollbackEnv
    <2>1. sup = "rb_env" /\ HalfRolledBack /\ durable = {ver}
      BY <1>1 DEF RollbackEnv, SupSafe, RollbackKnown
    <2>2. SafeSlot(StableEnv(ver.kernel[ver.stable]).stable)
      BY <1>t, <2>1, EnvFields, StableSlotSafe
    <2>3. DiskSafe'
      BY <1>1, <2>2, <1>d DEF RollbackEnv, WriteEnv
    <2>4. /\ why' = why /\ json = ver
          /\ \/ sup' \in {"rb_env", "reboot", "prepare"}
             \/ sup' = "env_stable" /\ why = "prep" /\ ~trial'
             \/ sup' = "rb_json" /\ why = "run"
      BY <1>1, <1>t, <2>1 DEF RollbackEnv, WriteEnv, RollbackFails
    <2>5. Reasons'
      BY <2>1, <2>4, <1>l DEF SupSafe, Reasons, LeaseExclusive, SupHoldsLease, PreparePcs,
                             InsHoldsLease, HalfRolledBack
    <2>6. TrialKnown'
      BY <2>4 DEF TrialKnown, OnTrial, TrialPcs
    <2>7. RollbackKnown'
      BY <2>1, <2>4, <1>l DEF RollbackKnown, HalfRolledBack, InsHoldsLease
    <2> QED BY <1>w, <2>3, <2>5, <2>6, <2>7 DEF SupSafe
  <1>2. CASE CommitEnv
    <2>1. sup = "cm_env" /\ trial /\ OnTrial /\ Proven(ver) /\ IsTrial(ver)
      BY <1>2 DEF CommitEnv, SupSafe, Reasons, TrialKnown, OnTrial, TrialPcs
    <2>2. SafeSlot(ver.kernel[ver.target])
      <3> SUFFICES ASSUME NEW v \in durable, IsTrial(v),
                          v.kernel[v.target] # v.kernel[v.stable],
                          ver.kernel[ver.target] = v.kernel[v.target]
                   PROVE  Proven(v)
        BY DEF SafeSlot
      <3>1. /\ v.stable = ver.stable => v.kernel = ver.kernel
            /\ v.stable = ver.target => v.kernel[ver.target] = ver.kernel[ver.target]
        BY <2>1 DEF SupSafe, TrialKnown
      <3>2. v.stable = ver.stable /\ v.target = ver.target
        BY <3>1, <2>1, <1>t, TwoReleases DEF IsTrial
      <3> QED BY <3>1, <3>2, <2>1 DEF Proven
    <2>3. SafeSlot(StableEnv(ver.kernel[ver.target]).stable)
      BY <1>t, <2>1, <2>2, EnvFields
    <2>4. DiskSafe'
      BY <1>2, <2>3, <1>d DEF CommitEnv, WriteEnv
    <2>5. /\ UNCHANGED <<why, trial>>
          /\ \/ sup' \in {"cm_env", "cm_json", "prepare", "reap"}
             \/ sup' = "monitor" /\ why = "mon"
      BY <1>2 DEF CommitEnv, WriteEnv, CommitFails, SupGoto, SupSafe, Reasons
    <2>6. Reasons'
      BY <2>1, <2>5, <1>l DEF SupSafe, Reasons, LeaseExclusive, SupHoldsLease, PreparePcs, InsHoldsLease
    <2>7. TrialKnown'
      BY <2>1, <2>5, <1>l DEF SupSafe, TrialKnown, OnTrial, TrialPcs, Proven, InsHoldsLease
    <2>8. RollbackKnown'
      BY <2>5 DEF RollbackKnown
    <2> QED BY <1>w, <2>4, <2>6, <2>7, <2>8 DEF SupSafe
  <1>3. CASE PrepareStable
    <2>1. sup = "env_stable" /\ json = ver /\ why = "prep" /\ ~trial
      BY <1>3 DEF PrepareStable, SupSafe, Reasons
    <2>2. SafeSlot(StableEnv(ver.kernel[ver.stable]).stable)
      BY <1>t, <2>1, EnvFields, StableSlotSafe
    <2>3. DiskSafe'
      BY <1>3, <2>2, <1>d DEF PrepareStable, WriteEnv
    <2>4. UNCHANGED <<why, trial>> /\ sup' \in {"env_stable", "reboot", "links_app", "prepare"}
      BY <1>3 DEF PrepareStable, WriteEnv, SupGoto
    <2>5. ~InsHoldsLease /\ ~InsHoldsLease'
      BY <2>1, <1>l DEF SupSafe, Reasons, LeaseExclusive, SupHoldsLease, PreparePcs, InsHoldsLease
    <2>6. Reasons'
      BY <2>1, <2>4, <2>5, <1>l DEF Reasons, LeaseExclusive
    <2>7. TrialKnown'
      BY <2>1, <2>4 DEF TrialKnown, OnTrial
    <2>8. RollbackKnown'
      BY <2>1, <2>4 DEF RollbackKnown
    <2> QED BY <1>w, <2>3, <2>6, <2>7, <2>8 DEF SupSafe
  <1>4. CASE PrepareTrial
    <2>1. sup = "env_trial" /\ json = ver /\ why = "prep" /\ trial /\ OnTrial
      BY <1>4 DEF PrepareTrial, SupSafe, Reasons, OnTrial, TrialPcs
    <2>2. SafeSlot(TrialEnv(env, ver.kernel[ver.target], ver.kernel[ver.stable]).stable)
      BY <1>t, <2>1, EnvFields, StableSlotSafe
    <2>3. DiskSafe'
      BY <1>4, <2>2, <1>d DEF PrepareTrial, WriteEnv
    <2>4. /\ trial' = trial
          /\ \/ sup' \in {"env_trial", "links_app"} /\ why' = why
             \/ sup' = "rb_json" /\ why' = "fail"
      BY <1>4, <2>1 DEF PrepareTrial, WriteEnv, SupGoto, CandidateFails
    <2>5. ~InsHoldsLease /\ ~InsHoldsLease'
      BY <2>1, <1>l DEF SupSafe, Reasons, LeaseExclusive, SupHoldsLease, PreparePcs, InsHoldsLease
    <2>6. Reasons'
      BY <2>1, <2>4, <2>5, <1>l DEF Reasons, LeaseExclusive
    <2>7. TrialKnown'
      BY <2>1, <2>4, <2>5, <1>l DEF SupSafe, TrialKnown, OnTrial, TrialPcs
    <2>8. RollbackKnown'
      BY <2>1, <2>4, <2>5, <1>l DEF SupSafe, TrialKnown, RollbackKnown
    <2> QED BY <1>w, <2>3, <2>6, <2>7, <2>8 DEF SupSafe
  <1> QED BY <1>1, <1>2, <1>3, <1>4

\* The JSON writes of the Supervisor.
LEMMA SupJsonStep ==
  ASSUME IndInv, TypeInv', RollbackJson \/ CommitJson \/ RecordTesting \/ RecordRunning
  PROVE  DiskSafe' /\ WritingSafe' /\ SupSafe'
  <1> USE DEF IndInv, disk, envs, flash, supv, procs, insv
  <1>t. /\ json \in durable /\ json \in Versions /\ ver \in Versions /\ durable \subseteq Versions
        /\ \A v \in Versions : v.stable \in Rel /\ v.target \in Rel
    BY TypeFacts
  <1>l. /\ UNCHANGED <<files, image, env, tool, links, ins, st, slot>>
        /\ InsHoldsLease' = InsHoldsLease
    BY DEF RollbackJson, CommitJson, RecordTesting, RecordRunning, InsHoldsLease
  <1>1. CASE RollbackJson
    <2> DEFINE d == RolledBack(ver)
    <2>1. /\ \/ UNCHANGED disk /\ ver' = ver
             \/ json \in {ver, d} /\ json' = d /\ durable' = durable \cup {d} /\ ver' = ver
             \/ json \in {ver, d} /\ json' = d /\ durable' = {d} /\ ver' = d
          /\ UNCHANGED <<why, trial>> /\ sup = "rb_json" /\ why # "mon"
          /\ \/ sup' = "rb_env" /\ ver' = d /\ durable' = {d} /\ json \in {ver, d}
             \/ sup' = "prepare"
             \/ sup' = "rb_json" /\ ver' = ver
      BY <1>1 DEF RollbackJson, Replace, RollbackFails, SupSafe, Reasons
    <2>2. /\ d.target = ver.stable /\ d.stable = ver.stable /\ d.kernel = ver.kernel
          /\ d.upgrade = "rolling_back"
      BY <1>t, SnapshotFields
    <2>3. ~IsTrial(ver) => d = ver
      BY <1>t, <2>1, RolledBackTwice DEF SupSafe, RollbackKnown, HalfRolledBack
    <2> HIDE DEF d
    <2>4. json \in {ver, d} => ~InsHoldsLease
      BY <2>1, <2>2 DEF SupSafe, RollbackKnown, HalfRolledBack, IsTrial
    <2>5. DiskSafe'
      <3>1. CASE UNCHANGED disk
        BY <3>1, <1>l, DiskFrame
      <3>2. CASE json \in {ver, d} /\ durable' \subseteq durable \cup {d}
        BY <3>2, <1>l, <1>t, <2>2, ShapeStep DEF EnvSet, IsTrial
      <3> QED BY <2>1, <3>1, <3>2
    <2>6. WritingSafe'
      <3>1. CASE UNCHANGED disk
        BY <3>1, <1>l, WritingFrame
      <3>2. CASE json \in {ver, d}
        BY <3>2, <2>4, <1>l, WritingFrame DEF InsHoldsLease
      <3> QED BY <2>1, <3>1, <3>2
    <2>7. Reasons'
      BY <2>1, <1>l DEF SupSafe, Reasons, LeaseExclusive, SupHoldsLease, PreparePcs
    <2>8. TrialKnown'
      BY <2>1 DEF TrialKnown, OnTrial, TrialPcs
    <2>9. RollbackKnown'
      <3>1. CASE sup' = "rb_env"
        BY <3>1, <2>1, <2>2, <2>4, <1>l DEF RollbackKnown, HalfRolledBack, IsTrial
      <3>2. CASE sup' = "rb_json" /\ UNCHANGED disk
        BY <3>2, <2>1, <1>l DEF SupSafe, RollbackKnown, HalfRolledBack
      <3>3. CASE sup' = "rb_json" /\ json \in {ver, d} /\ json' = d /\ ver' = ver
        BY <3>3, <2>1, <2>3, <2>4, <1>l DEF SupSafe, RollbackKnown, HalfRolledBack, d
      <3> QED BY <3>1, <3>2, <3>3, <2>1 DEF RollbackKnown
    <2> QED BY <2>5, <2>6, <2>7, <2>8, <2>9 DEF SupSafe
  <1>2. CASE CommitJson
    <2> DEFINE c == Confirmed(ver)
    <2>1. /\ UNCHANGED why /\ sup = "cm_json"
          /\ \/ UNCHANGED disk
             \/ json \in {ver, c} /\ json' = c /\ durable' \in {{c}, durable \cup {c}}
          /\ \/ /\ ver' = c /\ json' = c /\ ~trial'
                /\ sup' = IF why = "prep" THEN "env_stable" ELSE "monitor"
             \/ /\ UNCHANGED <<ver, trial>>
                /\ sup' \in {"prepare", "reap"} \/ (sup' = "monitor" /\ why # "prep")
      BY <1>2 DEF CommitJson, Replace, CommitFails
    <2>2. /\ trial /\ OnTrial /\ Proven(ver) /\ IsTrial(ver) /\ why \in {"prep", "mon"}
          /\ why = "mon" => links.app = ver.target
          /\ \A v \in durable :
               /\ v.stable = ver.stable /\ IsTrial(v) => v.kernel = ver.kernel
               /\ v.stable = ver.target => v.kernel[ver.target] = ver.kernel[ver.target]
          /\ json.stable # ver.target => ~InsHoldsLease
      BY <2>1 DEF SupSafe, Reasons, TrialKnown, OnTrial, TrialPcs
    <2>3. /\ c.target = ver.target /\ c.stable = ver.target /\ c.kernel = ver.kernel
      BY <1>t, SnapshotFields
    <2> HIDE DEF c
    <2>4. durable' \subseteq durable \cup {c}
      BY <2>1
    <2>5. DiskSafe'
      <3>1. StableIntact'
        BY <2>2, <2>3, <2>4, <1>l DEF DiskSafe, StableIntact, Proven
      <3>2. Agreement'
        <4> SUFFICES ASSUME NEW v \in durable', NEW w \in durable'
                     PROVE  /\ (IsTrial(v) \/ v.stable = w.stable) => v.kernel[w.stable] = w.kernel[w.stable]
                            /\ IsTrial(v) /\ IsTrial(w) /\ v.stable = w.stable => v.kernel = w.kernel
          BY DEF Agreement
        <4>1. CASE v \in durable /\ w \in durable
          BY <4>1 DEF DiskSafe, Agreement
        <4>2. CASE v = c
          BY <4>2, <2>2, <2>3, <2>4 DEF IsTrial
        <4>3. CASE v \in durable /\ w = c
          BY <4>3, <2>2, <2>3, <1>t, TwoReleases DEF IsTrial
        <4> QED BY <4>1, <4>2, <4>3, <2>4
      <3>3. EnvEvidence'
        BY <2>3, <2>4, <1>l DEF DiskSafe, EnvEvidence, IsTrial, Proven
      <3> QED BY <3>1, <3>2, <3>3 DEF DiskSafe
    <2>6. WritingSafe'
      <3>1. CASE ~InsHoldsLease
        BY <3>1, <1>l, WritingFrame DEF InsHoldsLease
      <3>2. CASE InsHoldsLease
        <4>1. json' = json /\ durable' \subseteq durable
          BY <3>2, <2>1, <2>2, <1>t DEF IsTrial
        <4> QED BY <4>1, <1>l DEF WritingSafe
      <3> QED BY <3>1, <3>2
    <2>7. Reasons'
      BY <2>1, <2>2, <1>l DEF SupSafe, Reasons, LeaseExclusive, SupHoldsLease, PreparePcs
    <2>8. TrialKnown'
      <3>1. CASE UNCHANGED <<ver, trial>>
        <4>1. \/ json'.stable = ver.target
              \/ json' \in {ver, InPhase(ver, "testing")} /\ ~InsHoldsLease
          BY <2>1, <2>2, <2>3 DEF SupSafe, TrialKnown
        <4>2. sup' \in {"prepare", "reap", "monitor", "env_stable"} /\ (sup' = "monitor" => links.app = ver.target)
          BY <2>1, <2>2
        <4> QED BY <3>1, <4>1, <4>2, <2>2, <2>3, <2>4, <1>l DEF TrialKnown
      <3>2. CASE ~trial'
        BY <3>2 DEF TrialKnown, OnTrial
      <3> QED BY <2>1, <3>1, <3>2
    <2>9. RollbackKnown'
      BY <2>1 DEF RollbackKnown
    <2> QED BY <2>5, <2>6, <2>7, <2>8, <2>9 DEF SupSafe
  <1>3. CASE RecordTesting
    <2> DEFINE d == InPhase(ver, "testing")
    <2>1. /\ UNCHANGED <<why, trial>> /\ sup = "testing" /\ sup' = "spawn"
          /\ \/ UNCHANGED disk /\ ver' = ver
             \/ /\ json \in {ver, d} /\ json' = d /\ durable' \in {{d}, durable \cup {d}}
                /\ ver' \in {ver, d}
      BY <1>3 DEF RecordTesting, Replace, SupGoto
    <2>2. d.target = ver.target /\ d.stable = ver.stable /\ d.kernel = ver.kernel
      BY <1>t, SnapshotFields, Literals
    <2>3. ~InsHoldsLease
      BY <2>1 DEF SupSafe, Reasons, LeaseExclusive, SupHoldsLease, PreparePcs
    <2> HIDE DEF d
    <2>4. durable' \subseteq durable \cup {json'}
      BY <2>1
    <2>5. DiskSafe'
      <3>1. json'.stable = json.stable /\ json'.kernel = json.kernel /\ json'.target = json.target
        BY <2>1, <2>2
      <3> QED BY <3>1, <2>4, <1>l, <1>t, ShapeStep DEF EnvSet
    <2>6. WritingSafe'
      BY <2>3, <1>l, WritingFrame DEF InsHoldsLease
    <2>7. Reasons'
      BY <2>1, <1>l DEF SupSafe, Reasons, LeaseExclusive, SupHoldsLease, PreparePcs
    <2>8. TrialKnown'
      <3> SUFFICES ASSUME OnTrial' PROVE TrialKnown'
        BY DEF TrialKnown
      <3>1. OnTrial
        BY <2>1 DEF OnTrial, TrialPcs
      <3>2. /\ IsTrial(ver) /\ links.app = ver.target
            /\ \A v \in durable :
                 /\ v.stable = ver.stable /\ IsTrial(v) => v.kernel = ver.kernel
                 /\ v.stable = ver.target => v.kernel[ver.target] = ver.kernel[ver.target]
            /\ json.stable = ver.target \/ json \in {ver, d}
        BY <3>1, <2>1 DEF SupSafe, TrialKnown, d
      <3>3. ver'.target = ver.target /\ ver'.stable = ver.stable /\ ver'.kernel = ver.kernel
        BY <2>1, <2>2
      <3>4. json'.stable = ver'.target \/ json' \in {ver', InPhase(ver', "testing")}
        BY <2>1, <3>2 DEF d
      <3>5. \A v \in durable' :
                 /\ v.stable = ver.stable /\ IsTrial(v) => v.kernel = ver.kernel
                 /\ v.stable = ver.target => v.kernel[ver.target] = ver.kernel[ver.target]
        BY <2>1, <2>2, <3>2
      <3> QED BY <2>1, <2>3, <3>2, <3>3, <3>4, <3>5, <1>l DEF TrialKnown, IsTrial
    <2>9. RollbackKnown'
      BY <2>1 DEF RollbackKnown
    <2> QED BY <2>5, <2>6, <2>7, <2>8, <2>9 DEF SupSafe
  <1>4. CASE RecordRunning
    <2> DEFINE d == Settled(ver)
    <2>1. /\ UNCHANGED <<why, trial, sup>> /\ sup = "monitor" /\ ~trial
          /\ \/ UNCHANGED disk
             \/ json \in {ver, d} /\ json' = d /\ durable' \in {{d}, durable \cup {d}}
      BY <1>4 DEF RecordRunning, Replace
    <2>2. d.target = ver.target /\ d.stable = ver.stable /\ d.kernel = ver.kernel
      BY <1>t, SnapshotFields
    <2> HIDE DEF d
    <2>3. /\ json'.stable = json.stable /\ json'.kernel = json.kernel /\ json'.target = json.target
          /\ durable' \subseteq durable \cup {json'}
      BY <2>1, <2>2
    <2>4. DiskSafe'
      BY <2>3, <1>l, <1>t, ShapeStep DEF EnvSet
    <2>5. WritingSafe'
      BY <2>3, <1>l, <1>t DEF WritingSafe, IsTrial
    <2>6. SupSafe'
      BY <2>1, <1>l DEF SupSafe, Reasons, LeaseExclusive, SupHoldsLease, PreparePcs,
                        TrialKnown, OnTrial, RollbackKnown
    <2> QED BY <2>4, <2>5, <2>6
  <1> QED BY <1>1, <1>2, <1>3, <1>4

------------------------------------------------------------------------------
\* Every step keeps the inductive invariant.
LEMMA IndStep == IndInv /\ [Next]_vars => IndInv'
  <1> SUFFICES ASSUME IndInv, [Next]_vars PROVE IndInv'
    OBVIOUS
  <1>1. TypeInv'
    BY TypeStep DEF IndInv
  <1>2. CASE UNCHANGED vars
    <2>1. DiskSafe'
      BY <1>2, DiskFrame DEF vars, IndInv
    <2>2. WritingSafe'
      BY <1>2, WritingFrame DEF vars, IndInv
    <2>3. SupSafe'
      BY <1>2, SupFrame DEF vars, IndInv
    <2> QED BY <1>1, <2>1, <2>2, <2>3 DEF IndInv
  <1>3. CASE Supervisor
    <2>1. CASE RollbackJson \/ CommitJson \/ RecordTesting \/ RecordRunning
      BY <2>1, <1>1, SupJsonStep DEF IndInv
    <2>2. CASE RollbackEnv \/ CommitEnv \/ PrepareStable \/ PrepareTrial
      BY <2>2, <1>1, SupEnvStep DEF IndInv
    <2>3. CASE \/ SupStart \/ PrepareLoad \/ LinksApp \/ LinksWeb \/ RebootFails
               \/ Spawn \/ MonitorFails \/ CommitAborted \/ Reap
      BY <2>3, <1>1, SupMoves DEF IndInv
    <2>4. CASE WindowElapses
      BY <2>4, <1>1, WindowStep DEF IndInv
    <2> QED BY <1>3, <2>1, <2>2, <2>3, <2>4 DEF Supervisor
  <1>4. CASE Installer
    <2>1. CASE RequestInstall \/ BeginInstall
      BY <2>1, <1>1, BeginStep DEF IndInv
    <2>2. CASE StageVerifying \/ StageInstalling
      BY <2>2, <1>1, StageStep DEF IndInv
    <2>3. CASE \/ Extract \/ ClearRelease \/ CopyRelease \/ ChooseKernel
               \/ EraseKernel \/ WriteKernel \/ RequestReboot
      BY <2>3, <1>1, InstallFileStep DEF IndInv
    <2>4. CASE CandidateJson
      BY <2>4, <1>1, CandidateStep DEF IndInv
    <2>5. CASE FailJson
      BY <2>5, <1>1, FailStep DEF IndInv
    <2>6. CASE CandidateEnv \/ FailEnv
      BY <2>6, <1>1, InstallEnvStep DEF IndInv
    <2> QED BY <1>4, <2>1, <2>2, <2>3, <2>4, <2>5, <2>6 DEF Installer
  <1>5. CASE Machine
    <2>1. CASE ToolEnds \/ ChildReady \/ ChildFails \/ ChildLeaves \/ OrphanEnds \/ Boot
      BY <2>1, <1>1, EnvironmentStep DEF IndInv
    <2>2. CASE PowerLoss \/ Reboot \/ SupCrash
      BY <2>2, <1>1, CrashStep DEF IndInv
    <2> QED BY <1>5, <2>1, <2>2 DEF Machine
  <1> QED BY <1>2, <1>3, <1>4, <1>5 DEF Next

------------------------------------------------------------------------------
(* The second layer: what boots and what runs.  Its steps may use the first *)
(* layer before and after the step.                                         *)

RunInv == Bootable /\ Powered /\ Hosted /\ InstallReady /\ CandidateComplete /\ Chosen

\* The four variables of the environments that are written.
LEMMA EnvValues ==
  /\ \A k \in Slot : StableEnv(k).target = k /\ StableEnv(k).stable = k
  /\ \A t, s \in Slot : /\ PreparedEnv(t, s).target = t /\ PreparedEnv(t, s).stable = s
                        /\ t # s => PreparedEnv(t, s).upgrading
  /\ \A t, s \in Slot, e \in Envs : /\ TrialEnv(e, t, s).target = t /\ TrialEnv(e, t, s).stable = s
                                    /\ t # s => TrialEnv(e, t, s).upgrading
  <1>1. \A k \in Slot : StableEnv(k).target = k /\ StableEnv(k).stable = k
    BY DEF StableEnv
  <1>2. \A t, s \in Slot : /\ PreparedEnv(t, s).target = t /\ PreparedEnv(t, s).stable = s
                           /\ t # s => PreparedEnv(t, s).upgrading
    BY DEF PreparedEnv
  <1>3. \A t, s \in Slot, e \in Envs : /\ TrialEnv(e, t, s).target = t /\ TrialEnv(e, t, s).stable = s
                                       /\ t # s => TrialEnv(e, t, s).upgrading
    BY DEF TrialEnv, Envs
  <1> QED BY <1>1, <1>2, <1>3

\* U-Boot leaves the selected slot and the trial flag, or selects the stable
\* slot.
LEMMA LoaderValues ==
  ASSUME NEW e \in Envs
  PROVE  \/ BootLoader(e).target = e.target /\ BootLoader(e).upgrading = e.upgrading
         \/ BootLoader(e).target = e.stable
  BY DEF BootLoader, StableEnv, Envs

\* An environment that U-Boot can work with.
Usable(e) ==
  /\ image[e.stable] = "proven"
  /\ image[e.target] # "proven" => image[e.target] = "new" /\ e.upgrading

\* A step that keeps the images and writes usable environments only.
LEMMA BootableFrame ==
  ASSUME Bootable, UNCHANGED image, \A e \in EnvSet' : e \in EnvSet \/ Usable(e)
  PROVE  Bootable'
  BY DEF Bootable, EnvSet, Usable

\* A step that keeps the running Kernel, and the release that an install leaves
\* alone.
LEMMA PoweredFrame ==
  ASSUME Powered, UNCHANGED <<up, image>>, sup' # "down" => sup # "down",
         InsHoldsLease' => InsHoldsLease /\ st'.kernel[st'.stable] = st.kernel[st.stable]
  PROVE  Powered'
  BY DEF Powered

\* A step that does not concern an install, or ends it.
LEMMA ReadyFrame ==
  ASSUME InstallReady,
         ins' \in {"idle", "lease"} \/ UNCHANGED <<env, tool, files, image, slot, ins, st>>
  PROVE  InstallReady'
  BY DEF InstallReady, WritingPcs, EnvSet

\* A step that writes no new candidate and clears no files.
LEMMA CompleteFrame ==
  ASSUME CandidateComplete, UNCHANGED files,
         \A v \in durable' : IsTrial(v) => \E u \in durable : IsTrial(u) /\ u.target = v.target
  PROVE  CandidateComplete'
  BY DEF CandidateComplete

\* A step that is not one of the Supervisor, and does not touch what it selected.
LEMMA ChosenFrame ==
  ASSUME Chosen, UNCHANGED <<sup, ver, why, up, links>>,
         app # "none" \/ app' = "none",
         Selecting \/ Running =>
           /\ files[ver.target] # "partial" => files'[ver.target] # "partial"
           /\ image'[up] = "new" => image[up] = "new" /\ UNCHANGED <<tool, env>>
  PROVE  Chosen'
  BY DEF Chosen, Selecting, Running, Confirming

\* What the two layers say about the slots in use.
LEMMA SlotFacts ==
  ASSUME IndInv, RunInv
  PROVE  /\ \A v \in durable : files[v.stable] = "proven" /\ image[v.kernel[v.stable]] = "proven"
         /\ InsHoldsLease => /\ up = st.kernel[st.stable] /\ up \in Slot
                             /\ image[up] = "proven"
                             /\ json.stable = st.stable
         /\ sup \in {"env_stable", "env_trial", "links_app", "links_web", "testing"} => ~InsHoldsLease
         /\ sup \in {"env_stable", "env_trial"} => json = ver
         /\ files \in [Rel -> {"partial", "new", "proven"}]
         /\ image \in [Slot -> {"blank", "new", "proven"}]
         /\ links \in [app : Rel, web : Rel] /\ up \in Slot \cup {NoSlot}
  <1>1. \A v \in durable : files[v.stable] = "proven" /\ image[v.kernel[v.stable]] = "proven"
    BY DEF IndInv, DiskSafe, StableIntact
  <1>2. InsHoldsLease => /\ up = st.kernel[st.stable] /\ up \in Slot /\ image[up] = "proven"
                         /\ json.stable = st.stable
    BY <1>1, TypeFacts DEF IndInv, RunInv, Powered, WritingSafe
  <1>3. sup \in {"env_stable", "env_trial", "links_app", "links_web", "testing"} => ~InsHoldsLease
    BY DEF IndInv, SupSafe, Reasons, LeaseExclusive, SupHoldsLease, PreparePcs
  <1>4. sup \in {"env_stable", "env_trial"} => json = ver
    BY DEF IndInv, SupSafe, Reasons
  <1> QED BY <1>1, <1>2, <1>3, <1>4 DEF IndInv, TypeInv, TypeOK

\* The factory state satisfies the second layer.
LEMMA RunInit == Init => RunInv
  <1> SUFFICES ASSUME Init PROVE RunInv
    OBVIOUS
  <1>1. Bootable
    <2>1. env.target = "boot_a" /\ env.stable = "boot_a" /\ tool = Idle /\ image["boot_a"] = "proven"
      BY EnvValues, Literals DEF Init
    <2> QED BY <2>1 DEF Bootable
  <1>2. Powered /\ Hosted /\ InstallReady
    BY DEF Init, Powered, Hosted, InstallReady, InsHoldsLease, WritingPcs
  <1>3. CandidateComplete
    BY DEF Init, CandidateComplete, IsTrial, Factory
  <1>4. Chosen
    BY DEF Init, Chosen, Selecting, Running, Confirming
  <1> QED BY <1>1, <1>2, <1>3, <1>4 DEF RunInv

\* The worker never outlives its process.
LEMMA HostedStep ==
  ASSUME Hosted, Next
  PROVE  Hosted'
  <1> USE DEF Hosted, disk, envs, flash, supv, procs, insv
  <1>1. CASE Supervisor
    BY <1>1 DEF Supervisor, SupStart, PrepareLoad, RollbackJson, RollbackEnv, CommitEnv,
         CommitJson, PrepareStable, PrepareTrial, LinksApp, LinksWeb, RecordTesting,
         RebootFails, Spawn, MonitorFails, WindowElapses, CommitAborted, RecordRunning,
         Reap, AbortIns
  <1>2. CASE Installer
    BY <1>2 DEF Installer, RequestInstall, BeginInstall, StageVerifying, Extract,
         StageInstalling, ClearRelease, CopyRelease, ChooseKernel, EraseKernel, WriteKernel,
         CandidateJson, CandidateEnv, RequestReboot, FailJson, FailEnv, InsGoto,
         Replace, WriteEnv
  <1>3. CASE Machine
    BY <1>3 DEF Machine, ToolEnds, ChildReady, ChildFails, ChildLeaves, OrphanEnds,
         PowerLoss, Reboot, SupCrash, Boot, PowerOff, AbortIns
  <1> QED BY <1>1, <1>2, <1>3 DEF Next

\* The steps of an install that write files and images.
LEMMA RunInstallFile ==
  ASSUME IndInv, IndInv', RunInv,
         \/ Extract \/ ClearRelease \/ CopyRelease \/ ChooseKernel
         \/ EraseKernel \/ WriteKernel \/ RequestReboot
  PROVE  Bootable' /\ Powered' /\ InstallReady' /\ CandidateComplete' /\ Chosen'
  <1> USE DEF disk, envs, flash, supv, procs, insv
  <1>l. /\ InsHoldsLease
        /\ UNCHANGED <<json, durable, env, tool, sup, ver, why, links, st, up>>
        /\ app # "none" \/ app' = "none"
    BY DEF Extract, ClearRelease, CopyRelease, ChooseKernel, EraseKernel, WriteKernel,
           RequestReboot, InsGoto, InsHoldsLease, RunInv, Hosted
  <1>t. /\ st \in Versions /\ st.stable \in Rel /\ up \in Slot /\ slot \in Slot
        /\ up = st.kernel[st.stable] /\ image[up] = "proven" /\ json.stable = st.stable
        /\ files \in [Rel -> {"partial", "new", "proven"}]
        /\ image \in [Slot -> {"blank", "new", "proven"}]
    BY <1>l, TypeFacts, SlotFacts DEF IndInv
  <1>1. ins \in {"erase", "write"} => slot # up
    BY <1>t, TwoReleases DEF IndInv, WritingSafe
  <1>2. image' = image \/ (ins \in {"erase", "write"} /\ \E x : image' = [image EXCEPT ![slot] = x])
    BY DEF Extract, ClearRelease, CopyRelease, ChooseKernel, EraseKernel, WriteKernel, RequestReboot
  <1>3. image'[up] = "proven"
    BY <1>t, <1>1, <1>2
  <1>4. ins \in WritingPcs => \A e \in EnvSet : e.target = up /\ e.stable = up
    BY <1>t, EnvValues DEF RunInv, InstallReady
  <1>5. Bootable'
    <2>1. CASE image' = image
      BY <2>1, <1>l, BootableFrame DEF EnvSet, RunInv
    <2>2. CASE ins \in WritingPcs
      BY <2>2, <1>3, <1>4, <1>l DEF Bootable, EnvSet
    <2> QED BY <2>1, <2>2, <1>2 DEF WritingPcs
  <1>6. Powered'
    BY <1>l, <1>3, <1>t DEF RunInv, Powered
  <1>7. InstallReady'
    <2>1. ins' \in WritingPcs \cup {"verifying"} => ins \in WritingPcs
      BY DEF Extract, ClearRelease, CopyRelease, ChooseKernel, EraseKernel, WriteKernel,
             RequestReboot, InsGoto, WritingPcs
    <2>2. ins' \in {"kernel", "flashing", "erase", "write", "system", "cand_json"} =>
            files'[Other(st.stable)] # "partial"
      BY <1>t, TwoReleases DEF Extract, ClearRelease, CopyRelease, ChooseKernel, EraseKernel,
             WriteKernel, RequestReboot, InsGoto, RunInv, InstallReady
    <2>3. ins' \in {"system", "cand_json", "cand_env"} => image'[slot'] # "blank"
      BY <1>t DEF Extract, ClearRelease, CopyRelease, ChooseKernel, EraseKernel,
             WriteKernel, RequestReboot, InsGoto, RunInv, InstallReady
    <2> QED BY <2>1, <2>2, <2>3, <1>l DEF RunInv, InstallReady, EnvSet
  <1>8. CandidateComplete'
    <2>1. CASE files' = files
      BY <2>1, <1>l, CompleteFrame DEF RunInv
    <2>2. CASE ins \in WritingPcs
      BY <2>2, <1>l DEF IndInv, WritingSafe, CandidateComplete
    <2> QED BY <2>1, <2>2
            DEF Extract, ClearRelease, CopyRelease, ChooseKernel, EraseKernel,
                WriteKernel, RequestReboot, WritingPcs
  <1>9. Chosen'
    <2>1. Selecting \/ Running => Running /\ links.app = ver.target /\ ver.target \in Rel
      BY <1>l, SlotFacts, TypeFacts DEF RunInv, Chosen, Selecting, IndInv
    <2>2. Selecting \/ Running => (files[ver.target] # "partial" => files'[ver.target] # "partial")
      <3>1. CASE ClearRelease
        BY <3>1, <2>1, <1>t, TwoReleases DEF ClearRelease
      <3>2. CASE CopyRelease
        BY <3>2, <2>1, <1>t DEF CopyRelease
      <3> QED BY <3>1, <3>2 DEF Extract, ChooseKernel, EraseKernel, WriteKernel, RequestReboot
    <2> QED BY <2>2, <1>3, <1>l, ChosenFrame DEF RunInv
  <1> QED BY <1>5, <1>6, <1>7, <1>8, <1>9

\* The JSON writes of an install.
LEMMA RunInstallJson ==
  ASSUME IndInv, IndInv', RunInv,
         StageVerifying \/ StageInstalling \/ CandidateJson \/ FailJson
  PROVE  Bootable' /\ Powered' /\ InstallReady' /\ CandidateComplete' /\ Chosen'
  <1> USE DEF disk, envs, flash, supv, procs, insv
  <1>t. /\ st \in Versions /\ json \in Versions /\ slot \in Slot /\ json.stable \in Rel
    BY TypeFacts DEF IndInv
  <1>l. /\ InsHoldsLease
        /\ UNCHANGED <<env, tool, files, image, slot, sup, ver, why, links, up, app>>
    BY DEF StageVerifying, StageInstalling, CandidateJson, FailJson, Replace, InsGoto, InsHoldsLease
  <1>w. json.stable = st.stable /\ json.kernel[st.stable] = st.kernel[st.stable]
    BY <1>l DEF IndInv, WritingSafe
  \* What the three kinds of write put into the JSON and into the snapshot.
  <1>1. PICK d :
          /\ durable' \subseteq durable \cup {d} /\ st' \in {st, d}
          /\ d.stable = st.stable /\ d.kernel[st.stable] = st.kernel[st.stable]
          /\ IsTrial(d) => d.target = Other(st.stable) /\ ins = "cand_json"
          /\ \/ ins' \in {"idle", "fail_json", "fail_env"}
             \/ ins' = "cand_env" /\ ins = "cand_json"
             \/ /\ ins' \in WritingPcs /\ ins \in WritingPcs \cup {"verifying"}
                /\ ins' = "erase" => ins = "flashing"
                /\ ins' = "cand_json" => ins = "system"
                /\ ins' \in {"extract", "clear", "erase", "cand_json"}
    <2>1. CASE StageVerifying \/ StageInstalling
      <3>1. ins \in WritingPcs \cup {"verifying"} /\ ~IsTrial(st)
        BY <2>1 DEF StageVerifying, StageInstalling, WritingPcs, IndInv, WritingSafe
      <3>2. PICK p \in Phases :
              /\ durable' \subseteq durable \cup {InPhase(st, p)} /\ st' \in {st, InPhase(st, p)}
              /\ \/ ins' \in {"idle", "fail_json"}
                 \/ /\ ins' \in {"extract", "clear", "erase", "cand_json"}
                    /\ ins' = "erase" => ins = "flashing"
                    /\ ins' = "cand_json" => ins = "system"
        BY <2>1, Literals DEF StageVerifying, StageInstalling, Replace, InsGoto
      <3>3. /\ InPhase(st, p).target = st.target /\ InPhase(st, p).stable = st.stable
            /\ InPhase(st, p).kernel = st.kernel
        BY <1>t, SnapshotFields
      <3>4. ~IsTrial(InPhase(st, p))
        BY <3>1, <3>3 DEF IsTrial
      <3> QED BY <3>1, <3>2, <3>3, <3>4 DEF WritingPcs
    <2>2. CASE CandidateJson
      <3>1. /\ Candidate(json, slot).stable = json.stable
            /\ Candidate(json, slot).target = Other(json.stable)
            /\ Candidate(json, slot).kernel[json.stable] = json.kernel[json.stable]
        BY <1>t, CandidateFields
      <3>2. /\ durable' \subseteq durable \cup {Candidate(json, slot)}
            /\ st' \in {st, Candidate(json, slot)} /\ ins = "cand_json"
            /\ ins' \in {"cand_env", "fail_json"}
        BY <2>2 DEF CandidateJson, Replace, InsGoto
      <3> QED BY <3>1, <3>2, <1>w
    <2>3. CASE FailJson
      <3>1. /\ Abandoned(json).stable = json.stable /\ Abandoned(json).target = json.stable
            /\ Abandoned(json).kernel = json.kernel
        BY <1>t, SnapshotFields
      <3>2. /\ durable' \subseteq durable \cup {Abandoned(json)}
            /\ st' \in {st, Abandoned(json)} /\ ins' \in {"idle", "fail_env"}
        BY <2>3 DEF FailJson, Replace, InsGoto
      <3> QED BY <3>1, <3>2, <1>w DEF IsTrial
    <2> QED BY <2>1, <2>2, <2>3
  <1>2. st'.stable = st.stable /\ st'.kernel[st'.stable] = st.kernel[st.stable]
    BY <1>1
  <1>3. Bootable'
    BY <1>l, BootableFrame DEF RunInv, EnvSet
  <1>4. Powered'
    BY <1>l, <1>2, PoweredFrame DEF RunInv
  <1>5. InstallReady'
    <2>1. ins' \in WritingPcs \cup {"verifying"} => ins \in WritingPcs \cup {"verifying"}
      BY <1>1 DEF WritingPcs
    <2>2. ins' \in {"kernel", "flashing", "erase", "write", "system", "cand_json"} =>
            ins \in {"flashing", "system"}
      BY <1>1
    <2>3. ins' \in {"system", "cand_json", "cand_env"} => ins \in {"system", "cand_json"}
      BY <1>1
    <2> QED BY <1>l, <1>2, <2>1, <2>2, <2>3 DEF RunInv, InstallReady, EnvSet
  <1>6. CandidateComplete'
    <2> SUFFICES ASSUME NEW v \in durable', IsTrial(v) PROVE files[v.target] # "partial"
      BY <1>l DEF CandidateComplete
    <2>1. CASE v \in durable
      BY <2>1 DEF RunInv, CandidateComplete
    <2>2. CASE v = d
      BY <2>2, <1>1 DEF RunInv, InstallReady
    <2> QED BY <2>1, <2>2, <1>1
  <1>7. Chosen'
    BY <1>l, ChosenFrame DEF RunInv
  <1> QED BY <1>3, <1>4, <1>5, <1>6, <1>7

\* The environment writes of an install: the candidate's slot holds an image, and
\* it is armed unless it is the stable slot.
LEMMA RunInstallEnv ==
  ASSUME IndInv, IndInv', RunInv, CandidateEnv \/ FailEnv
  PROVE  Bootable' /\ Powered' /\ InstallReady' /\ CandidateComplete' /\ Chosen'
  <1> USE DEF disk, envs, flash, supv, procs, insv
  <1>l. /\ InsHoldsLease
        /\ UNCHANGED <<json, durable, env, files, image, sup, ver, why, links, slot, st, up, app>>
        /\ ins' = "cand_env" => ins = "cand_env"
        /\ ins' \in {ins, "idle", "reboot", "fail_json"} /\ ins \in {"cand_env", "fail_env"}
    BY DEF CandidateEnv, FailEnv, WriteEnv, InsGoto, InsHoldsLease
  <1>t. /\ up = st.kernel[st.stable] /\ image[up] = "proven" /\ up \in Slot /\ slot \in Slot
        /\ image \in [Slot -> {"blank", "new", "proven"}]
    BY <1>l, SlotFacts, TypeFacts DEF IndInv
  <1>1. tool' = tool \/ Usable(tool')
    <2>1. CASE CandidateEnv
      <3>1. tool' \in {tool, PreparedEnv(slot, up)}
        BY <2>1, <1>t DEF CandidateEnv, WriteEnv
      <3>2. image[slot] # "blank"
        BY <2>1 DEF CandidateEnv, RunInv, InstallReady
      <3>3. /\ PreparedEnv(slot, up).target = slot /\ PreparedEnv(slot, up).stable = up
            /\ slot # up => PreparedEnv(slot, up).upgrading
        BY <1>t, EnvValues
      <3>4. image[slot] = "proven" \/ (image[slot] = "new" /\ slot # up)
        BY <1>t, <3>2
      <3>5. Usable(PreparedEnv(slot, up))
        BY <3>3, <3>4, <1>t DEF Usable
      <3> QED BY <3>1, <3>5
    <2>2. CASE FailEnv
      <3>1. tool' \in {tool, StableEnv(up)}
        BY <2>2, <1>t DEF FailEnv, WriteEnv
      <3>2. Usable(StableEnv(up))
        BY <1>t, EnvValues DEF Usable
      <3> QED BY <3>1, <3>2
    <2> QED BY <2>1, <2>2
  <1>2. Bootable'
    BY <1>l, <1>1, BootableFrame DEF RunInv, EnvSet
  <1>3. Powered'
    BY <1>l, PoweredFrame DEF RunInv
  <1>4. InstallReady'
    BY <1>l DEF RunInv, InstallReady, WritingPcs
  <1>5. CandidateComplete'
    BY <1>l, CompleteFrame DEF RunInv
  <1>6. Chosen'
    BY <1>l, <1>t, ChosenFrame DEF RunInv
  <1> QED BY <1>2, <1>3, <1>4, <1>5, <1>6

\* An install starts with the environment settled on the running Kernel.
LEMMA RunBegin ==
  ASSUME IndInv, IndInv', RunInv, RequestInstall \/ BeginInstall
  PROVE  Bootable' /\ Powered' /\ InstallReady' /\ CandidateComplete' /\ Chosen'
  <1> USE DEF disk, envs, flash, supv, procs, insv
  <1>l. /\ UNCHANGED <<json, durable, env, tool, files, image, sup, ver, why, links, up, app>>
        /\ \/ ins' \in {"idle", "lease"}
           \/ /\ ins' = "verifying" /\ st' = json /\ tool = Idle
              /\ up = json.kernel[json.stable] /\ env = StableEnv(up)
    BY DEF RequestInstall, BeginInstall, EnvFree, KernelSettled, EnvConfirms
  <1>1. Bootable'
    BY <1>l, BootableFrame DEF RunInv, EnvSet
  <1>2. Powered'
    BY <1>l DEF RunInv, Powered, InsHoldsLease
  <1>3. InstallReady'
    <2>1. CASE ins' \in {"idle", "lease"}
      BY <2>1, ReadyFrame DEF RunInv
    <2>2. CASE ins' = "verifying"
      BY <2>2, <1>l DEF InstallReady, EnvSet
    <2> QED BY <2>1, <2>2, <1>l
  <1>4. CandidateComplete'
    BY <1>l, CompleteFrame DEF RunInv
  <1>5. Chosen'
    BY <1>l, ChosenFrame DEF RunInv
  <1> QED BY <1>1, <1>2, <1>3, <1>4, <1>5

\* The child, an orphan and fw_setenv.
LEMMA RunEnvironment ==
  ASSUME IndInv, IndInv', RunInv,
         ToolEnds \/ ChildReady \/ ChildFails \/ ChildLeaves \/ OrphanEnds
  PROVE  Bootable' /\ Powered' /\ InstallReady' /\ CandidateComplete' /\ Chosen'
  <1> USE DEF disk, envs, flash, supv, procs, insv
  <1>l. /\ UNCHANGED <<json, durable, files, image, sup, ver, why, links, st, slot, up>>
        /\ ins' \in {ins, "idle"} /\ (app # "none" \/ app' = "none")
        /\ UNCHANGED <<env, tool>> \/ (tool # Idle /\ tool' = Idle /\ env' \in {env, tool})
    BY DEF ToolEnds, ChildReady, ChildFails, ChildLeaves, OrphanEnds, AbortIns
  <1>1. EnvSet' \subseteq EnvSet
    BY <1>l DEF EnvSet
  <1>2. Bootable'
    BY <1>l, <1>1, BootableFrame DEF RunInv
  <1>3. Powered'
    BY <1>l, PoweredFrame DEF RunInv, InsHoldsLease
  <1>4. InstallReady'
    BY <1>l, <1>1 DEF RunInv, InstallReady, WritingPcs
  <1>5. CandidateComplete'
    BY <1>l, CompleteFrame DEF RunInv
  <1>6. Chosen'
    <2>1. (Selecting \/ Running) /\ image[up] = "new" => UNCHANGED <<tool, env>>
      BY <1>l DEF RunInv, Chosen
    <2> QED BY <2>1, <1>l, ChosenFrame DEF RunInv
  <1> QED BY <1>2, <1>3, <1>4, <1>5, <1>6

\* U-Boot starts a slot that is not blank; nothing else runs meanwhile.
LEMMA RunBoot ==
  ASSUME IndInv, IndInv', RunInv, Boot
  PROVE  Bootable' /\ Powered' /\ InstallReady' /\ CandidateComplete' /\ Chosen'
  <1> USE DEF disk, envs, flash, supv, procs, insv
  <1>l. /\ UNCHANGED <<json, durable, files, image, sup, ver, why, links, ins, st, slot, app, tool>>
        /\ up = NoSlot /\ env' = BootLoader(env)
        /\ up' = up \/ image[up'] # "blank"
    BY DEF Boot
  <1>1. sup = "down" /\ ~InsHoldsLease
    BY <1>l, SlotFacts, Literals DEF RunInv, Powered
  <1>2. env \in Envs /\ BootLoader(env).stable = env.stable
    BY TypeFacts, EnvFields DEF IndInv
  <1>3. Usable(env)
    BY DEF RunInv, Bootable, Usable
  <1>4. Usable(BootLoader(env))
    BY <1>2, <1>3, LoaderValues DEF Usable
  <1>5. Bootable'
    BY <1>l, <1>4, BootableFrame DEF RunInv, EnvSet
  <1>6. Powered'
    BY <1>l, <1>1 DEF Powered, InsHoldsLease
  <1>7. InstallReady'
    BY <1>l, <1>1, ReadyFrame DEF RunInv, InsHoldsLease
  <1>8. CandidateComplete'
    BY <1>l, CompleteFrame DEF RunInv
  <1>9. Chosen'
    BY <1>l, <1>1 DEF RunInv, Chosen, Selecting, Running, Confirming
  <1> QED BY <1>5, <1>6, <1>7, <1>8, <1>9

\* Power losses, reboots and the death of the Supervisor.
LEMMA RunCrash ==
  ASSUME IndInv, IndInv', RunInv, PowerLoss \/ Reboot \/ SupCrash
  PROVE  Bootable' /\ Powered' /\ InstallReady' /\ CandidateComplete' /\ Chosen'
  <1> USE DEF disk, envs, flash, supv, procs, insv
  <1>l. /\ UNCHANGED <<files, image>> /\ durable' \subseteq durable
        /\ sup' = "down" /\ app' = "none" /\ EnvSet' \subseteq EnvSet
    BY TypeFacts DEF IndInv, PowerLoss, Reboot, SupCrash, PowerOff, EnvSet
  <1>2. \/ up' = NoSlot /\ ins' = "idle"
        \/ UNCHANGED <<up, env, tool, ins, st, slot>>
    BY DEF PowerLoss, Reboot, SupCrash, PowerOff
  <1>3. Bootable'
    BY <1>l, BootableFrame DEF RunInv
  <1>4. Powered'
    BY <1>l, <1>2 DEF RunInv, Powered, InsHoldsLease
  <1>5. InstallReady'
    BY <1>l, <1>2, ReadyFrame DEF RunInv
  <1>6. CandidateComplete'
    BY <1>l, CompleteFrame DEF RunInv
  <1>7. Chosen'
    BY <1>l DEF Chosen, Selecting, Running, Confirming
  <1> QED BY <1>3, <1>4, <1>5, <1>6, <1>7

\* Steps of the Supervisor that write neither the JSON nor the environment.
LEMMA RunSupMoves ==
  ASSUME IndInv, IndInv', RunInv,
         \/ SupStart \/ PrepareLoad \/ LinksApp \/ LinksWeb \/ RebootFails
         \/ Spawn \/ MonitorFails \/ CommitAborted \/ Reap
  PROVE  Bootable' /\ Powered' /\ InstallReady' /\ CandidateComplete' /\ Chosen'
  <1> USE DEF disk, envs, flash, supv, procs, insv
  <1>l. /\ UNCHANGED <<json, durable, files, image, env, tool, up>>
        /\ ins' = "idle" \/ UNCHANGED <<ins, st, slot>>
    BY DEF SupStart, PrepareLoad, LinksApp, LinksWeb, RebootFails, Spawn, MonitorFails,
           CommitAborted, Reap, AbortIns
  <1>1. Bootable' /\ InstallReady' /\ CandidateComplete'
    BY <1>l, BootableFrame, ReadyFrame, CompleteFrame DEF RunInv, EnvSet
  <1>2. Powered'
    <2>1. up # NoSlot
      <3>1. sup # "down" \/ SupStart
        BY DEF PrepareLoad, LinksApp, LinksWeb, RebootFails, Spawn, MonitorFails, CommitAborted, Reap
      <3> QED BY <3>1 DEF SupStart, RunInv, Powered
    <2> QED BY <1>l, <2>1 DEF RunInv, Powered, InsHoldsLease
  <1>3. Chosen'
    <2> USE DEF Chosen, Selecting, Running, Confirming
    <2>1. CASE SupStart \/ RebootFails
      <3>1. sup \in {"down", "reboot"} /\ sup' \in {"prepare", "rb_json"} /\ app' = app
        BY <2>1 DEF SupStart, SupGoto, RebootFails, RollbackFails
      <3> QED BY <3>1 DEF RunInv
    <2>2. CASE PrepareLoad
      BY <2>2 DEF PrepareLoad, RunInv
    <2>3. CASE LinksApp
      <3>1. /\ sup = "links_app" /\ UNCHANGED <<ver, app>>
            /\ sup' = "links_web" => links'.app = ver.target
            /\ sup' \in {"links_web", "prepare", "rb_json"}
        BY <2>3, SlotFacts DEF LinksApp, CandidateFails, SupGoto
      <3> QED BY <3>1, <1>l DEF RunInv
    <2>4. CASE LinksWeb
      <3>1. /\ sup = "links_web" /\ UNCHANGED <<ver, app>>
            /\ sup' \in {"testing", "spawn"} => links' = [links EXCEPT !.web = ver.target]
            /\ sup' \in {"testing", "spawn", "prepare", "rb_json"}
        BY <2>4 DEF LinksWeb, CandidateFails, SupGoto
      <3>2. links \in [app : Rel, web : Rel] /\ links.app = ver.target
        BY <3>1, SlotFacts DEF RunInv
      <3>3. [links EXCEPT !.web = ver.target] = [app |-> ver.target, web |-> ver.target]
        BY <3>2
      <3> QED BY <3>1, <3>3, <1>l DEF RunInv
    <2>5. CASE Spawn
      <3>1. sup = "spawn" /\ UNCHANGED <<ver, links, why>> /\ sup' \in {"monitor", "reap"}
        BY <2>5 DEF Spawn, SupGoto
      <3> QED BY <3>1, <1>l DEF RunInv
    <2>6. CASE MonitorFails \/ CommitAborted
      <3>1. /\ sup = "monitor" \/ (sup = "cm_env" /\ why = "mon")
            /\ UNCHANGED <<ver, links, why, app>> /\ sup' \in {"monitor", "reap"}
        BY <2>6 DEF MonitorFails, CommitAborted, CommitFails, SupGoto
      <3> QED BY <3>1, <1>l DEF RunInv
    <2>7. CASE Reap
      <3>1. app' = "none" /\ sup' \in {"prepare", "rb_json"}
        BY <2>7 DEF Reap, SupGoto
      <3> QED BY <3>1
    <2> QED BY <2>1, <2>2, <2>3, <2>4, <2>5, <2>6, <2>7
  <1> QED BY <1>1, <1>2, <1>3

\* The candidate passes its trial: its files and its Kernel become proven.
LEMMA RunWindow ==
  ASSUME IndInv, IndInv', RunInv, WindowElapses
  PROVE  Bootable' /\ Powered' /\ InstallReady' /\ CandidateComplete' /\ Chosen'
  <1> USE DEF disk, envs, flash, supv, procs, insv
  <1>t. /\ ver \in Versions /\ up \in Slot /\ links.app \in Rel
        /\ files \in [Rel -> {"partial", "new", "proven"}]
        /\ image \in [Slot -> {"blank", "new", "proven"}]
    BY TypeFacts, SlotFacts DEF IndInv, TypeInv, WindowElapses
  <1>l. /\ UNCHANGED <<json, durable, env, tool, links, up, app, ins, st, slot>>
        /\ sup = "monitor" /\ sup' = "cm_env" /\ why' = "mon"
        /\ ver' \in {ver, InPhase(ver, "testing")}
    BY DEF WindowElapses
  <1>1. ver'.target = ver.target /\ ver'.kernel = ver.kernel
    BY <1>l, <1>t, SnapshotFields, Literals
  <1>2. /\ \A r : files'[r] = files[r] \/ files'[r] = "proven"
        /\ \A k : image'[k] = image[k] \/ image'[k] = "proven"
        /\ image'[up] = "proven"
    BY <1>t DEF WindowElapses
  <1>3. Bootable'
    BY <1>l, <1>2 DEF RunInv, Bootable
  <1>4. Powered'
    BY <1>l, <1>2 DEF RunInv, Powered, InsHoldsLease
  <1>5. InstallReady'
    BY <1>l, <1>2 DEF RunInv, InstallReady, EnvSet
  <1>6. CandidateComplete'
    BY <1>l, <1>2 DEF RunInv, CandidateComplete
  <1>7. Chosen'
    BY <1>l, <1>1, <1>2 DEF RunInv, Chosen, Selecting, Running, Confirming
  <1> QED BY <1>3, <1>4, <1>5, <1>6, <1>7

\* The environment writes of the Supervisor: the slot of a release that is
\* stable or has passed, or the armed slot of the candidate that is running.
LEMMA RunSupEnv ==
  ASSUME IndInv, IndInv', RunInv, RollbackEnv \/ CommitEnv \/ PrepareStable \/ PrepareTrial
  PROVE  Bootable' /\ Powered' /\ InstallReady' /\ CandidateComplete' /\ Chosen'
  <1> USE DEF disk, envs, flash, supv, procs, insv
  <1>t. /\ json \in durable /\ ver \in Versions /\ env \in Envs
        /\ ver.kernel[ver.stable] \in Slot
        /\ sup \in {"cm_env", "env_trial"} => ver.kernel[ver.target] \in Slot
        /\ image \in [Slot -> {"blank", "new", "proven"}]
    BY TypeFacts, SlotFacts, VersionClosure DEF IndInv, TypeInv, CandidateHasKernel
  <1>l. /\ UNCHANGED <<json, durable, files, image, links, ver, env, ins, st, slot, up, app>>
        /\ sup # "down"
    BY DEF RollbackEnv, CommitEnv, PrepareStable, PrepareTrial, WriteEnv, RollbackFails,
           CommitFails, CandidateFails, SupGoto
  <1>p. Powered' /\ CandidateComplete'
    BY <1>l, PoweredFrame, CompleteFrame DEF RunInv, InsHoldsLease
  <1>b. ASSUME NEW want, Usable(want), tool' \in {tool, want} PROVE Bootable'
    BY <1>b, <1>l, BootableFrame DEF RunInv, EnvSet
  <1>r. ASSUME ~InsHoldsLease PROVE InstallReady'
    BY <1>r, <1>l, ReadyFrame DEF RunInv, InsHoldsLease
  <1>1. CASE RollbackEnv
    <2>1. sup = "rb_env" /\ ~IsTrial(ver) /\ ~InsHoldsLease /\ durable = {ver}
      BY <1>1 DEF RollbackEnv, IndInv, SupSafe, RollbackKnown, HalfRolledBack
    <2>2. Usable(StableEnv(ver.kernel[ver.stable]))
      BY <1>t, <2>1, EnvValues, SlotFacts DEF Usable
    <2>3. Bootable'
      BY <1>1, <2>2, <1>b DEF RollbackEnv, WriteEnv
    <2>4. sup' \in {"rb_env", "reboot", "prepare", "env_stable", "rb_json"}
      BY <1>1 DEF RollbackEnv, WriteEnv, RollbackFails
    <2>5. Chosen'
      BY <2>1, <2>4, <1>l DEF RunInv, Chosen, Selecting, Running, Confirming
    <2> QED BY <1>p, <1>r, <2>1, <2>3, <2>5
  <1>2. CASE CommitEnv
    <2>1. sup = "cm_env" /\ OnTrial /\ Proven(ver)
      BY <1>2 DEF CommitEnv, IndInv, SupSafe, Reasons, TrialKnown, OnTrial, TrialPcs
    <2>2. Usable(StableEnv(ver.kernel[ver.target]))
      BY <1>t, <2>1, EnvValues DEF Usable, Proven
    <2>3. tool' \in {tool, StableEnv(ver.kernel[ver.target])}
      BY <1>2 DEF CommitEnv, WriteEnv
    <2>4. InstallReady'
      <3>1. CASE InsHoldsLease
        <4>1. json.stable = ver.target /\ json.kernel[ver.target] = ver.kernel[ver.target]
          BY <3>1, <2>1, <1>t DEF IndInv, SupSafe, TrialKnown
        <4>2. ver.kernel[ver.target] = st.kernel[st.stable]
          BY <3>1, <4>1 DEF IndInv, WritingSafe
        <4> QED BY <4>2, <2>3, <1>l DEF RunInv, InstallReady, EnvSet
      <3> QED BY <3>1, <1>r
    <2>5. /\ why' = why
          /\ \/ why = "mon" /\ sup' \in {"cm_env", "cm_json", "monitor", "reap"}
             \/ why # "mon" /\ sup' \in {"cm_env", "cm_json", "prepare"}
      BY <1>2 DEF CommitEnv, WriteEnv, CommitFails, SupGoto, IndInv, SupSafe, Reasons
    <2>6. Chosen'
      BY <2>1, <2>5, <1>l DEF RunInv, Chosen, Selecting, Running, Confirming, Proven
    <2> QED BY <1>p, <1>b, <2>2, <2>3, <2>4, <2>6
  <1>3. CASE PrepareStable
    <2>1. /\ sup = "env_stable" /\ json = ver /\ ~InsHoldsLease /\ ver.target = ver.stable
          /\ image[ver.kernel[ver.stable]] = "proven" /\ files[ver.stable] = "proven"
      BY <1>3, <1>t, SlotFacts DEF PrepareStable, RunInv, Chosen, IsTrial
    <2>2. Usable(StableEnv(ver.kernel[ver.stable]))
      BY <1>t, <2>1, EnvValues DEF Usable
    <2>3. Bootable'
      BY <1>3, <2>2, <1>b DEF PrepareStable, WriteEnv
    <2>4. /\ sup' \in {"env_stable", "reboot", "links_app", "prepare"}
          /\ sup' = "links_app" => up = ver.kernel[ver.stable]
      BY <1>3 DEF PrepareStable, WriteEnv, SupGoto
    <2>5. Chosen'
      BY <2>1, <2>4, <1>l DEF RunInv, Chosen, Selecting, Running, Confirming
    <2> QED BY <1>p, <1>r, <2>1, <2>3, <2>5
  <1>4. CASE PrepareTrial
    <2> DEFINE t == ver.kernel[ver.target]
               s == ver.kernel[ver.stable]
               want == TrialEnv(env, t, s)
    <2>1. /\ sup = "env_trial" /\ json = ver /\ ~InsHoldsLease /\ up = t
          /\ image[s] = "proven" /\ t \in Slot /\ s \in Slot
      BY <1>4, <1>t, SlotFacts DEF PrepareTrial, RunInv, Chosen
    <2>2. IsTrial(ver)
      BY <2>1 DEF IndInv, SupSafe, Reasons, TrialKnown, OnTrial, TrialPcs
    <2>3. image[t] = "proven" \/ (image[t] = "new" /\ t # s)
      BY <2>1, <1>t, Literals DEF RunInv, Powered
    <2>4. want.target = t /\ want.stable = s /\ (t # s => want.upgrading)
      BY <1>t, <2>1, EnvValues
    <2>5. /\ tool' \in {tool, want}
          /\ \/ sup' \in {"env_trial", "rb_json", "prepare"}
             \/ sup' = "links_app" /\ env = want /\ tool = Idle /\ tool' = tool
      BY <1>4 DEF PrepareTrial, WriteEnv, SupGoto, CandidateFails, EnvFree
    <2> HIDE DEF want
    <2>6. Usable(want)
      BY <2>1, <2>3, <2>4 DEF Usable
    <2>7. files[ver.target] # "partial"
      BY <2>1, <2>2, <1>t DEF RunInv, CandidateComplete
    <2>8. Chosen'
      BY <2>1, <2>3, <2>4, <2>5, <2>7, <1>l DEF RunInv, Chosen, Selecting, Running, Confirming
    <2> QED BY <1>p, <1>b, <1>r, <2>1, <2>5, <2>6, <2>8
  <1> QED BY <1>1, <1>2, <1>3, <1>4

\* The JSON writes of the Supervisor keep the target and its Kernel while a
\* child may run.
LEMMA RunSupJson ==
  ASSUME IndInv, IndInv', RunInv, RollbackJson \/ CommitJson \/ RecordTesting \/ RecordRunning
  PROVE  Bootable' /\ Powered' /\ InstallReady' /\ CandidateComplete' /\ Chosen'
  <1> USE DEF disk, envs, flash, supv, procs, insv
  <1>t. ver \in Versions
    BY TypeFacts DEF IndInv
  <1>l. /\ UNCHANGED <<files, image, env, tool, links, ins, st, slot, up, app, why>>
        /\ sup # "down"
    BY DEF RollbackJson, CommitJson, RecordTesting, RecordRunning, Replace, RollbackFails,
           CommitFails, SupGoto
  <1>1. Bootable' /\ Powered' /\ InstallReady'
    BY <1>l, BootableFrame, PoweredFrame, ReadyFrame DEF RunInv, EnvSet, InsHoldsLease
  <1>2. PICK d :
          /\ durable' \subseteq durable \cup {d} /\ ver' \in {ver, d}
          /\ d.kernel = ver.kernel
          /\ \/ /\ ~IsTrial(d) /\ sup = "rb_json" /\ sup' \in {"rb_env", "rb_json", "prepare"}
             \/ /\ ~IsTrial(d) /\ d.target = ver.target /\ sup = "cm_json"
                /\ \/ sup' = "env_stable" /\ ver' = d /\ why = "prep"
                   \/ sup' = "prepare" /\ why = "prep"
                   \/ sup' \in {"monitor", "reap"} /\ why = "mon"
             \/ d.target = ver.target /\ sup = "testing" /\ sup' = "spawn"
             \/ d.target = ver.target /\ sup = "monitor" /\ sup' = "monitor"
    <2>1. CASE RollbackJson
      <3>1. ~IsTrial(RolledBack(ver)) /\ RolledBack(ver).kernel = ver.kernel
        BY <1>t, SnapshotFields DEF IsTrial
      <3>2. /\ durable' \subseteq durable \cup {RolledBack(ver)} /\ ver' \in {ver, RolledBack(ver)}
            /\ sup = "rb_json" /\ sup' \in {"rb_env", "rb_json", "prepare"}
        BY <2>1 DEF RollbackJson, Replace, RollbackFails
      <3> QED BY <3>1, <3>2
    <2>2. CASE CommitJson
      <3>1. /\ ~IsTrial(Confirmed(ver)) /\ Confirmed(ver).kernel = ver.kernel
            /\ Confirmed(ver).target = ver.target
        BY <1>t, SnapshotFields DEF IsTrial
      <3>2. why \in {"prep", "mon"}
        BY <2>2 DEF CommitJson, IndInv, SupSafe, Reasons
      <3>3. /\ durable' \subseteq durable \cup {Confirmed(ver)} /\ ver' \in {ver, Confirmed(ver)}
            /\ sup = "cm_json"
            /\ \/ sup' = "env_stable" /\ ver' = Confirmed(ver) /\ why = "prep"
               \/ sup' = "prepare" /\ why = "prep"
               \/ sup' \in {"monitor", "reap"} /\ why = "mon"
        BY <2>2, <3>2 DEF CommitJson, Replace, CommitFails
      <3> QED BY <3>1, <3>3
    <2>3. CASE RecordTesting
      <3>1. /\ InPhase(ver, "testing").kernel = ver.kernel
            /\ InPhase(ver, "testing").target = ver.target
        BY <1>t, SnapshotFields, Literals
      <3>2. /\ durable' \subseteq durable \cup {InPhase(ver, "testing")}
            /\ ver' \in {ver, InPhase(ver, "testing")}
            /\ sup = "testing" /\ sup' = "spawn"
        BY <2>3 DEF RecordTesting, Replace, SupGoto
      <3> QED BY <3>1, <3>2
    <2>4. CASE RecordRunning
      <3>1. Settled(ver).kernel = ver.kernel /\ Settled(ver).target = ver.target
        BY <1>t, SnapshotFields
      <3>2. /\ durable' \subseteq durable \cup {Settled(ver)} /\ ver' \in {ver, Settled(ver)}
            /\ sup = "monitor" /\ sup' = "monitor"
        BY <2>4 DEF RecordRunning, Replace
      <3> QED BY <3>1, <3>2
    <2> QED BY <2>1, <2>2, <2>3, <2>4
  <1>3. CandidateComplete'
    <2> SUFFICES ASSUME NEW v \in durable', IsTrial(v) PROVE files[v.target] # "partial"
      BY <1>l DEF CandidateComplete
    <2>1. CASE v \in durable
      BY <2>1 DEF RunInv, CandidateComplete
    <2>2. CASE v = d
      BY <2>2, <1>2 DEF RunInv, Chosen, Selecting, Running
    <2> QED BY <2>1, <2>2, <1>2
  <1>4. Chosen'
    <2> USE DEF RunInv, Chosen, Selecting, Running, Confirming
    <2>1. CASE sup = "rb_json"
      BY <2>1, <1>2, <1>l
    <2>2. CASE sup = "cm_json"
      BY <2>2, <1>2, <1>l
    <2>3. CASE sup \in {"testing", "monitor"}
      BY <2>3, <1>2, <1>l
    <2> QED BY <2>1, <2>2, <2>3, <1>2
  <1> QED BY <1>1, <1>3, <1>4

\* Every step keeps the second layer.
LEMMA RunStep ==
  ASSUME IndInv, IndInv', RunInv, [Next]_vars
  PROVE  RunInv'
  <1>1. CASE UNCHANGED vars
    BY <1>1 DEF vars, RunInv, Bootable, Powered, Hosted, InstallReady, CandidateComplete, Chosen,
                Selecting, Running, Confirming, InsHoldsLease, EnvSet
  <1>2. CASE Next
    <2>1. Hosted'
      BY <1>2, HostedStep DEF RunInv
    <2>2. CASE Supervisor
      BY <2>1, <2>2, RunSupMoves, RunSupEnv, RunSupJson, RunWindow DEF Supervisor, RunInv
    <2>3. CASE Installer
      BY <2>1, <2>3, RunInstallFile, RunInstallJson, RunInstallEnv, RunBegin DEF Installer, RunInv
    <2>4. CASE Machine
      BY <2>1, <2>4, RunEnvironment, RunBoot, RunCrash DEF Machine, RunInv
    <2> QED BY <1>2, <2>2, <2>3, <2>4 DEF Next
  <1> QED BY <1>1, <1>2

\* OtaInvariant holds in every reachable state, whatever the number of faults
\* and whether or not directory syncs may fail.
THEOREM InvariantHolds == Spec => []OtaInvariant
  <1>1. Init => IndInv /\ RunInv
    BY IndInit, RunInit
  <1>2. (IndInv /\ RunInv) /\ [Next]_vars => (IndInv /\ RunInv)'
    BY IndStep, RunStep
  <1>3. IndInv /\ RunInv => OtaInvariant
    BY DEF IndInv, TypeInv, DiskSafe, SupSafe, RunInv, OtaInvariant
  <1> QED BY <1>1, <1>2, <1>3, PTL DEF Spec

\* No install, confirmation, rollback or crash ever damages the release that
\* the version JSON calls stable, or its Kernel.
THEOREM StableSurvives == Spec => []StableIntact
  <1>1. OtaInvariant => StableIntact
    BY DEF OtaInvariant
  <1> QED BY InvariantHolds, <1>1, PTL

\* Start-up recovery and an install transaction never hold .ota.lock together.
THEOREM LeaseIsExclusive == Spec => []LeaseExclusive
  <1>1. OtaInvariant => LeaseExclusive
    BY DEF OtaInvariant, Reasons
  <1> QED BY InvariantHolds, <1>1, PTL

\* U-Boot never runs out of Kernels, whatever is interrupted: the stable slot of
\* the environment, written or about to be, holds a proven image, and another
\* image is only selected with the boot count armed.
THEOREM AlwaysBootable == Spec => []Bootable
  <1>1. OtaInvariant => Bootable
    BY DEF OtaInvariant
  <1> QED BY InvariantHolds, <1>1, PTL

\* A supervised LinkG runs from the release the Supervisor selected, with the Web
\* files of the same release, completely installed, on the Kernel of this release.
THEOREM AlwaysRunsSelected == Spec => []RunsSelected
  <1>1. OtaInvariant => RunsSelected
    BY DEF OtaInvariant, Chosen, RunsSelected
  <1> QED BY InvariantHolds, <1>1, PTL

\* While a LinkG runs on a Kernel that has not been proven, U-Boot is armed to fall
\* back to a different slot, which holds a proven image.
THEOREM TrialAlwaysProtected == Spec => []TrialProtected
  <1>1. OtaInvariant => TrialProtected
    BY DEF OtaInvariant, Chosen, Bootable, TrialProtected
  <1> QED BY InvariantHolds, <1>1, PTL

------------------------------------------------------------------------------
(* The third layer: the snapshot of an install is the JSON.  Only if a write *)
(* of the JSON that fails leaves no trace: after a failed directory sync the *)
(* Supervisor may record the end of an upgrade while the next one runs.      *)

JsonInv == InstallerOwnsJson /\ RecordPending

\* The steps of an install.
LEMMA JsonInstall ==
  ASSUME SyncFaults = FALSE, IndInv, JsonInv, Installer
  PROVE  JsonInv'
  <1> USE DEF disk, envs, flash, supv, procs, insv
  <1>l. UNCHANGED <<sup, ver, trial, why>>
    BY DEF Installer, RequestInstall, BeginInstall, StageVerifying, Extract, StageInstalling,
           ClearRelease, CopyRelease, ChooseKernel, EraseKernel, WriteKernel, CandidateJson,
           CandidateEnv, RequestReboot, FailJson, FailEnv
  <1>1. RequestInstall \/ BeginInstall \/ InsHoldsLease
    BY DEF Installer, StageVerifying, Extract, StageInstalling, ClearRelease, CopyRelease,
           ChooseKernel, EraseKernel, WriteKernel, CandidateJson, CandidateEnv,
           RequestReboot, FailJson, FailEnv, InsHoldsLease
  <1>2. CASE RequestInstall \/ BeginInstall
    <2>1. /\ UNCHANGED json
          /\ \/ ins' \in {"idle", "lease"}
             \/ ins' = "verifying" /\ st' = json /\ json.upgrade \in SettledPhases
      BY <1>2 DEF RequestInstall, BeginInstall
    <2> QED BY <2>1, <1>l DEF JsonInv, InstallerOwnsJson, RecordPending, InsHoldsLease,
                             Selecting, Running, Confirming
  <1>3. CASE InsHoldsLease
    <2>1. RecordPending'
      BY <1>3, <1>l DEF JsonInv, RecordPending, Selecting, Running, Confirming
    <2>2. InstallerOwnsJson'
      <3> USE DEF JsonInv, InstallerOwnsJson, InsHoldsLease
      <3>1. CASE StageVerifying
        <4>1. \/ json' = st' \/ ins' = "idle"
          BY <3>1 DEF StageVerifying, InsGoto, Replace
        <4> QED BY <4>1
      <3>2. CASE StageInstalling
        <4>1. \/ json' = st' \/ ins' = "fail_json"
          BY <3>2 DEF StageInstalling, InsGoto, Replace
        <4> QED BY <4>1
      <3>3. CASE CandidateJson
        <4>1. \/ json' = st' \/ ins' = "fail_json"
          BY <3>3 DEF CandidateJson, InsGoto, Replace
        <4> QED BY <4>1
      <3>4. CASE FailJson
        <4>1. \/ json' = st' \/ ins' = "idle"
          BY <3>4 DEF FailJson, InsGoto, Replace
        <4> QED BY <4>1
      <3>5. CASE \/ Extract \/ ClearRelease \/ CopyRelease \/ ChooseKernel \/ EraseKernel
                 \/ WriteKernel \/ CandidateEnv \/ RequestReboot \/ FailEnv
        <4>1. UNCHANGED <<json, st>> /\ ins # "fail_json"
          BY <3>5 DEF Extract, ClearRelease, CopyRelease, ChooseKernel, EraseKernel,
               WriteKernel, CandidateEnv, RequestReboot, FailEnv, InsGoto, WriteEnv
        <4> QED BY <4>1, <1>3
      <3>6. CASE RequestInstall \/ BeginInstall
        BY <3>6, <1>2
      <3> QED BY <3>1, <3>2, <3>3, <3>4, <3>5, <3>6 DEF Installer
    <2> QED BY <2>1, <2>2 DEF JsonInv
  <1> QED BY <1>1, <1>2, <1>3

\* The steps of the Supervisor: its late writes find a JSON that is not theirs,
\* or one that already says what they would write.
LEMMA JsonSupervisor ==
  ASSUME SyncFaults = FALSE, IndInv, JsonInv, Supervisor
  PROVE  JsonInv'
  <1> USE DEF disk, envs, flash, supv, procs, insv
  <1>t. ver \in Versions
    BY TypeFacts DEF IndInv
  <1>l. ins' = "idle" \/ UNCHANGED <<ins, st>>
    BY DEF Supervisor, SupStart, PrepareLoad, RollbackJson, RollbackEnv, CommitEnv,
         CommitJson, PrepareStable, PrepareTrial, LinksApp, LinksWeb, RecordTesting,
         RebootFails, Spawn, MonitorFails, WindowElapses, CommitAborted, RecordRunning,
         Reap, AbortIns
  <1>1. CASE RollbackJson
    <2>1. json' # json => json \in {ver, RolledBack(ver)}
      BY <1>1 DEF RollbackJson, Replace
    <2>2. /\ RolledBack(ver).stable = ver.stable
          /\ ~IsTrial(ver) \/ ver.stable # ver.target
      BY <1>t, SnapshotFields DEF IsTrial
    <2>3. json' # json => ~InsHoldsLease
      BY <1>1, <2>1, <2>2 DEF RollbackJson, IndInv, SupSafe, RollbackKnown, HalfRolledBack, IsTrial
    <2>4. sup' \in {"rb_env", "prepare", "rb_json"}
      BY <1>1 DEF RollbackJson, Replace, RollbackFails
    <2> QED BY <2>3, <2>4, <1>l DEF JsonInv, InstallerOwnsJson, RecordPending, InsHoldsLease,
                                   Selecting, Running, Confirming
  <1>2. CASE CommitJson
    <2> DEFINE c == Confirmed(ver)
    <2>1. sup = "cm_json" /\ trial /\ OnTrial
      BY <1>2 DEF CommitJson, IndInv, SupSafe, Reasons, OnTrial, TrialPcs
    <2>2. c.upgrade = "completed" /\ "completed" \in SettledPhases
      BY <1>t DEF Confirmed, Versions, SettledPhases
    <2> HIDE DEF c
    <2>3. /\ json' = json \/ (json' = c /\ json \in {ver, c})
          /\ trial' = trial \/ ver' = c
      BY <1>2 DEF CommitJson, Replace, CommitFails, c
    <2>4. InsHoldsLease => json' = json
      BY <2>1, <2>3 DEF IndInv, SupSafe, TrialKnown, IsTrial
    <2> QED BY <2>1, <2>2, <2>3, <2>4, <1>l
            DEF JsonInv, InstallerOwnsJson, RecordPending, InsHoldsLease
  <1>3. CASE RecordTesting
    <2>1. sup = "testing" /\ ~InsHoldsLease
      BY <1>3 DEF RecordTesting, IndInv, SupSafe, Reasons, LeaseExclusive, SupHoldsLease, PreparePcs
    <2>2. /\ UNCHANGED <<ins, trial>>
          /\ ver' = json' \/ UNCHANGED <<ver, json>>
      BY <1>3 DEF RecordTesting, Replace, SupGoto
    <2> QED BY <2>1, <2>2 DEF JsonInv, InstallerOwnsJson, RecordPending, InsHoldsLease, Selecting
  <1>4. CASE RecordRunning
    <2>1. sup = "monitor" /\ ~trial /\ ver.upgrade \notin SettledPhases
      BY <1>4 DEF RecordRunning, InterruptedPhases, SettledPhases
    <2>2. json = ver /\ ~InsHoldsLease
      BY <2>1 DEF JsonInv, RecordPending, Running
    <2>3. Settled(ver).upgrade \in SettledPhases
      BY <1>t DEF Settled, InPhase, Versions, SettledPhases
    <2>4. UNCHANGED ins /\ (ver' = Settled(ver) \/ UNCHANGED <<ver, json, sup, trial>>)
      BY <1>4 DEF RecordRunning, Replace
    <2> QED BY <2>2, <2>3, <2>4 DEF JsonInv, InstallerOwnsJson, RecordPending, InsHoldsLease
  <1>5. CASE \/ SupStart \/ PrepareLoad \/ RollbackEnv \/ CommitEnv \/ PrepareStable
             \/ PrepareTrial \/ LinksApp \/ LinksWeb \/ RebootFails \/ Spawn
             \/ MonitorFails \/ WindowElapses \/ CommitAborted \/ Reap
    <2>1. UNCHANGED json
      BY <1>5 DEF SupStart, PrepareLoad, RollbackEnv, CommitEnv, PrepareStable, PrepareTrial,
           LinksApp, LinksWeb, RebootFails, Spawn, MonitorFails, WindowElapses, CommitAborted, Reap
    <2>2. InstallerOwnsJson'
      BY <2>1, <1>l DEF JsonInv, InstallerOwnsJson, InsHoldsLease
    <2>3. RecordPending'
      <3>1. \/ ~(Selecting \/ Running)'
            \/ UNCHANGED <<ver, trial>> /\ (Selecting \/ Running)
            \/ UNCHANGED <<ver, trial>> /\ sup \in {"env_stable", "env_trial"}
            \/ trial'
        <4> USE DEF Selecting, Running, Confirming
        <4>1. CASE SupStart \/ RebootFails \/ Reap
          BY <4>1 DEF SupStart, SupGoto, RebootFails, RollbackFails, Reap
        <4>2. CASE PrepareLoad
          BY <4>2 DEF PrepareLoad
        <4>3. CASE RollbackEnv
          BY <4>3 DEF RollbackEnv, WriteEnv, RollbackFails
        <4>4. CASE CommitEnv \/ CommitAborted
          <5>1. trial
            BY <4>4 DEF CommitEnv, CommitAborted, IndInv, SupSafe, Reasons
          <5> QED BY <4>4, <5>1 DEF CommitEnv, CommitAborted, WriteEnv, CommitFails, SupGoto
        <4>5. CASE PrepareStable \/ PrepareTrial
          BY <4>5 DEF PrepareStable, PrepareTrial, WriteEnv, SupGoto, CandidateFails
        <4>6. CASE LinksApp \/ LinksWeb \/ Spawn \/ MonitorFails
          BY <4>6 DEF LinksApp, LinksWeb, Spawn, MonitorFails, SupGoto, CandidateFails
        <4>7. CASE WindowElapses
          BY <4>7 DEF WindowElapses
        <4> QED BY <1>5, <4>1, <4>2, <4>3, <4>4, <4>5, <4>6, <4>7
      <3>2. sup \in {"env_stable", "env_trial"} => json = ver /\ ~InsHoldsLease
        BY DEF IndInv, SupSafe, Reasons, LeaseExclusive, SupHoldsLease, PreparePcs
      <3>3. InsHoldsLease' => InsHoldsLease
        BY <1>l DEF InsHoldsLease
      <3> QED BY <2>1, <3>1, <3>2, <3>3 DEF JsonInv, RecordPending
    <2> QED BY <2>2, <2>3 DEF JsonInv
  <1> QED BY <1>1, <1>2, <1>3, <1>4, <1>5 DEF Supervisor

\* Crashes, the child, fw_setenv and U-Boot, and stuttering.
LEMMA JsonMachine ==
  ASSUME JsonInv, Machine \/ UNCHANGED vars
  PROVE  JsonInv'
  <1> USE DEF disk, envs, flash, supv, procs, insv
  <1>1. /\ ins' = "idle" \/ UNCHANGED <<json, ins, st>>
        /\ sup' = "down" \/ UNCHANGED <<json, sup, ver, trial, why>>
    BY DEF Machine, ToolEnds, ChildReady, ChildFails, ChildLeaves, OrphanEnds,
         PowerLoss, Reboot, SupCrash, Boot, PowerOff, AbortIns, vars
  <1> QED BY <1>1 DEF JsonInv, InstallerOwnsJson, RecordPending, InsHoldsLease, Selecting,
                     Running, Confirming

\* As long as a failed JSON write leaves no trace, nobody else changes the JSON
\* while an install transaction runs.
THEOREM InstallerAlwaysOwnsJson ==
  ASSUME SyncFaults = FALSE
  PROVE  Spec => []InstallerOwnsJson
  <1>1. Init => IndInv /\ JsonInv
    <2>1. Init => JsonInv
      BY DEF Init, JsonInv, InstallerOwnsJson, RecordPending, InsHoldsLease, Selecting, Running, Confirming
    <2> QED BY <2>1, IndInit
  <1>2. (IndInv /\ JsonInv) /\ [Next]_vars => (IndInv /\ JsonInv)'
    BY IndStep, JsonInstall, JsonSupervisor, JsonMachine DEF Next
  <1>3. JsonInv => InstallerOwnsJson
    BY DEF JsonInv
  <1> QED BY <1>1, <1>2, <1>3, PTL DEF Spec
=============================================================================
