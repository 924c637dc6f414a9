------------------------- MODULE WarPkgUpdateProofs -------------------------
(* Proofs about WarPkgUpdate, for every set of packages, bundles and paths. *)
EXTENDS WarPkgUpdate, TLAPS

-----------------------------------------------------------------------------
(* The inductive invariant, part by part. *)

InstallerPCs == {"apply.delete", "apply.write", "apply.list"}
RollbackPCs == {"rollback.file", "rollback.list"}

Named(s) == s.phase \notin {"none", "corrupt"} => s.bundle \in Bundles

\* The running operation has a bundle exactly when its steps need one, the
\* installer knows its caller, and a transaction names a bundle.
ControlOK ==
    /\ pc \in InstallerPCs \cup RollbackPCs
               \cup {"apply.record", "stage.write", "remove.file"}
           => cur \in Bundles
    /\ pc \in {"idle", "boot.save"} => cur = NoBundle
    /\ stage = "off" => pc = "idle" /\ step = 0
    /\ pc \in InstallerPCs => ret \in {"state.save", "install.next"}
    /\ pc = "apply.record" => ret = "state.save"
    /\ pc = "install.next" => ret = "install.next"
    /\ pc = "rollback.file" => todo \subseteq Captured(records[Pkg])
    /\ Named(state) /\ Named(next)

\* From its first write until its state is saved, an apply has no update to
\* overwrite, and once stored its record is the snapshot it began with.
ApplyOK ==
    /\ pc = "apply.record" => cand = Now(cur)
    /\ pc \in InstallerPCs /\ ret = "state.save"
           => RecordDescribes(records[Pkg], cur, cand)
    /\ pc \in InstallerPCs \cup {"apply.record"} /\ ret = "state.save"
           => /\ ~Busy(state) /\ next.phase = "pending" /\ next.bundle = cur
              /\ ~next.started /\ ~next.observed

\* What the state about to be saved owes to the state it replaces.
SaveOK ==
    /\ pc = "stage.write" => next.phase = "staged"
    /\ pc = "state.save" /\ cur # NoBundle
           => next.phase \in {"staged", "pending", "rolledback"}
    /\ pc = "state.save" /\ cur # NoBundle /\ next.phase = "pending"
           => /\ ~Busy(state) /\ cur \in Bundles /\ next.bundle = cur
              /\ RecordDescribes(records[Pkg], cur, cand)
              /\ ~next.started /\ ~next.observed
    /\ pc = "state.save" /\ cur = NoBundle /\ Busy(next)
           => /\ Busy(state) /\ next.bundle = state.bundle
              /\ next.phase = "pending" =>
                    /\ state.phase = "pending"
                    /\ next.started = state.started
                    /\ state.observed => next.observed
    /\ pc = "boot.save" => next = HealthCheck(state)

Alarmed(s) == s.phase = "failed" => s.recovery
RecoveryOK == Alarmed(state) /\ Alarmed(next)

\* A rollback works on the record of the current transaction, and what it has
\* restored stays restored.
RestoredSoFar ==
    \A p \in Captured(records[Pkg]) \ todo : files[p] = records[Pkg].saved[p]

RollbackOK ==
    /\ pc \in RollbackPCs
           => cur = state.bundle /\ next.phase = "rolledback" /\ RestoredSoFar
    /\ pc = "rollback.list" => todo = {} /\ mem[Pkg] = records[Pkg].prev
    /\ pc = "state.save" /\ next.phase = "rolledback"
           => \/ state.phase = "rolledback"
              \/ /\ cur = state.bundle /\ todo = {} /\ RestoredSoFar
                 /\ mem[Pkg] = records[Pkg].prev
                 /\ installed = [kind |-> "whole", list |-> mem]

\* A pending update has one saved health check behind it if its boot started.
CheckedOK ==
    state.phase = "pending"
        => checks <= IF state.started \/ state.observed THEN 1 ELSE 0

\* What holds between the steps of a running operation.
FlowOK == ControlOK /\ ApplyOK /\ SaveOK /\ RollbackOK

\* What holds of the update as its files record it.
UpdateOK == RecoveryOK /\ RecordBehindBusyUpdate /\ CheckedOK

IInv == TypeOK /\ FlowOK /\ UpdateOK

-----------------------------------------------------------------------------
(* Types. *)

LEMMA StateConstants == DefaultState \in States /\ CorruptState \in States
BY Zenon DEF DefaultState, CorruptState, States, Phases, MaybeBundle

LEMMA RecordConstants == NoRecord \in RecordFile /\ TornRecord \in RecordFile
BY DEF NoRecord, TornRecord, RecordFile, Snapshots, MaybeBundle

LEMMA SnapshotConstants == NoSnapshot \in SnapshotsOfAll
BY DEF NoSnapshot, SnapshotsOfAll, Contents, MaybeBundle

LEMMA ListConstants == EmptyList \in Lists /\ NoList \in ListFile
BY DEF EmptyList, Lists, NoList, ListFile, MaybeBundle

LEMMA CheckConstants == 0 \in 0..CheckCap
BY DEF CheckCap

LEMMA CaptureType ==
    ASSUME TypeOK, NEW b \in Bundles
    PROVE  /\ Capture(b) \in RecordFile /\ Now(b) \in SnapshotsOfAll
           /\ RecordDescribes(Capture(b), b, Now(b))
<1>1. mem[PkgOf[b]] \in MaybeBundle
  BY PkgOfType DEF TypeOK, Lists
<1>2. Capture(b) \in RecordFile
  BY <1>1 DEF TypeOK, Capture, RecordFile, Snapshots
<1>3. Now(b) \in SnapshotsOfAll
  BY <1>1 DEF TypeOK, Now, SnapshotsOfAll
<1>4. RecordDescribes(Capture(b), b, Now(b))
  BY DEF RecordDescribes, Capture, Now, Touched
<1> QED
  BY <1>2, <1>3, <1>4

LEMMA HealthCheckType ==
    ASSUME NEW s \in States
    PROVE  HealthCheck(s) \in States
BY ZenonT(60) DEF HealthCheck, States, Phases

LEMMA AfterStepType ==
    ASSUME step \in 0..12, NEW ok
    PROVE  AfterStep(ok) \in 0..12
BY DEF AfterStep

LEMMA CountCheckType ==
    ASSUME TypeOK
    PROVE  CountCheck \in 0..CheckCap
BY DEF TypeOK, CountCheck, CheckCap

\* The part of TypeOK that Return sets.
Returned ==
    /\ pc \in PCs /\ ret \in {"idle", "state.save", "install.next"}
    /\ cur \in MaybeBundle /\ todo \in SUBSET Paths /\ queue \in Seq(Pkgs)
    /\ next \in States /\ step \in 0..12 /\ stage \in Stages
    /\ cand \in SnapshotsOfAll

LEMMA ReturnType ==
    ASSUME TypeOK, NEW ok, Return(ok)
    PROVE  Returned'
<1>1. AfterStep(ok) \in 0..12
  BY AfterStepType DEF TypeOK
<1> QED
  BY <1>1, StateConstants, SnapshotConstants
     DEF TypeOK, Return, Returned, PCs, Stages, MaybeBundle

LEMMA BeginApplyType ==
    ASSUME TypeOK, NEW b \in Bundles, NEW f \in BOOLEAN, BeginApply(b, f)
    PROVE  TypeOK'
BY CaptureType
   DEF BeginApply, TypeOK, States, Phases, MaybeBundle, PCs, durable

\* Every step keeps the types, given what the program counter says of cur.
LEMMA TypeStep == TypeOK /\ ControlOK /\ [Next]_vars => TypeOK'
<1> SUFFICES ASSUME TypeOK, ControlOK, [Next]_vars
             PROVE  TypeOK'
  OBVIOUS
<1>1. CASE WriteStaged
  BY <1>1 DEF TypeOK, ControlOK, PCs, Stages, InstallerPCs, RollbackPCs, Pkg,
     durable, locals, history, WriteStaged
<1>2. CASE StoreRecord
  <2>1. cur \in Bundles /\ Pkg \in Pkgs
    BY <1>2, PkgOfType DEF StoreRecord, ControlOK, Pkg
  <2>2. records' \in [Pkgs -> RecordFile]
    BY <1>2, <2>1, CaptureType DEF StoreRecord, TypeOK
  <2>3. todo' \in SUBSET Paths
    BY <1>2, <2>1, FilesOfType DEF StoreRecord, TypeOK, OwnedBy, Lists, MaybeBundle
  <2> QED
    BY <1>2, <2>2, <2>3 DEF StoreRecord, TypeOK, PCs, history
<1>3. CASE DeleteStale
  BY <1>3 DEF TypeOK, ControlOK, PCs, Stages, InstallerPCs, RollbackPCs, Pkg,
     durable, locals, history, DeleteStale, Contents
<1>4. CASE BeginWrites
  BY <1>4, FilesOfType DEF TypeOK, ControlOK, PCs, Stages, InstallerPCs,
     RollbackPCs, Pkg, durable, locals, history, BeginWrites
<1>5. CASE WriteFile
  BY <1>5 DEF TypeOK, ControlOK, PCs, Stages, InstallerPCs, RollbackPCs, Pkg,
     durable, locals, history, WriteFile, Contents
<1>6. CASE EndWrites
  BY <1>6, Zenon DEF TypeOK, ControlOK, PCs, Stages, InstallerPCs, RollbackPCs, Pkg,
     durable, locals, history, EndWrites, Lists, MaybeBundle
<1>7. CASE SaveApplied
  BY <1>7 DEF TypeOK, ControlOK, PCs, Stages, InstallerPCs, RollbackPCs, Pkg,
     durable, locals, history, SaveApplied, ListFile
<1>8. CASE RestoreFile
  BY <1>8, PkgOfType DEF TypeOK, ControlOK, PCs, Stages, InstallerPCs,
     RollbackPCs, Pkg, durable, locals, history, RestoreFile, Captured,
     RecordFile, Snapshots, Contents
<1>9. CASE EndRestore
  BY <1>9, PkgOfType DEF TypeOK, ControlOK, PCs, Stages, InstallerPCs,
     RollbackPCs, Pkg, durable, locals, history, EndRestore, Lists,
     RecordFile, MaybeBundle
<1>10. CASE SaveRestored
  BY <1>10 DEF TypeOK, ControlOK, PCs, Stages, InstallerPCs, RollbackPCs, Pkg,
     durable, locals, history, SaveRestored, ListFile
<1>11. CASE SaveState
  <2>1. pre' \in SnapshotsOfAll /\ checks' \in 0..CheckCap
    BY <1>11, SnapshotConstants, CheckConstants DEF SaveState, TypeOK
  <2> QED
    BY <1>11, <2>1, ReturnType, Zenon DEF SaveState, TypeOK, Returned
<1>12. CASE InstallNext
  BY <1>12, IndexType DEF TypeOK, ControlOK, PCs, Stages, InstallerPCs,
     RollbackPCs, Pkg, durable, locals, history, InstallNext, MaybeBundle
<1>13. CASE InstallDone
  BY <1>13, ReturnType, Zenon DEF TypeOK, ControlOK, PCs, Stages, InstallerPCs,
     RollbackPCs, Pkg, durable, locals, history, InstallDone, Returned
<1>14. CASE RemoveFile
  BY <1>14, ReturnType, Zenon DEF TypeOK, ControlOK, PCs, Stages, InstallerPCs,
     RollbackPCs, Pkg, durable, locals, history, RemoveFile, Contents,
     Returned
<1>15. CASE EndRemove
  BY <1>15, Zenon DEF TypeOK, ControlOK, PCs, Stages, InstallerPCs, RollbackPCs, Pkg,
     durable, locals, history, EndRemove, Lists, MaybeBundle
<1>16. CASE SaveRemoved
  BY <1>16, ReturnType, Zenon DEF TypeOK, ControlOK, PCs, Stages, InstallerPCs,
     RollbackPCs, Pkg, durable, locals, history, SaveRemoved, ListFile,
     Returned
<1>17. CASE PrepareBoot
  BY <1>17, HealthCheckType DEF TypeOK, ControlOK, PCs, Stages, InstallerPCs,
     RollbackPCs, Pkg, durable, locals, history, PrepareBoot, AfterPrepare,
     ProofRuns
<1>18. CASE SaveBoot
  <2>1. state' \in States /\ checks' \in 0..CheckCap
    BY <1>18, CountCheckType DEF SaveBoot, TypeOK
  <2>2. CASE stage = "prepare"
    BY <1>18, <2>1, <2>2, StateConstants
       DEF SaveBoot, AfterPrepare, TypeOK, PCs, Stages
  <2>3. CASE stage # "prepare"
    <3>1. Returned'
      BY <1>18, <2>3, ReturnType DEF SaveBoot
    <3> QED
      BY <1>18, <2>1, <3>1 DEF SaveBoot, TypeOK, Returned
  <2> QED
    BY <2>2, <2>3
<1>19. CASE NoteShellReady
  BY <1>19, ReturnType, Zenon DEF TypeOK, ControlOK, PCs, Stages, InstallerPCs,
     RollbackPCs, Pkg, durable, locals, history, NoteShellReady, BeginSave,
     Refuse, States, Returned
<1>20. CASE WriteFails
  BY <1>20, ReturnType, Zenon DEF TypeOK, ControlOK, PCs, Stages, InstallerPCs,
     RollbackPCs, Pkg, durable, locals, history, WriteFails, Returned
<1>21. CASE ApplyStaged
  BY <1>21, BeginApplyType, Zenon DEF ApplyStaged, TypeOK
<1>22. CASE Confirm
  BY <1>22, ReturnType, ZenonT(60) DEF TypeOK, ControlOK, PCs, Stages, InstallerPCs,
     RollbackPCs, Pkg, durable, locals, history, Confirm, BeginSave, Refuse,
     States, Phases, Returned
<1>23. CASE Reject
  BY <1>23, ZenonT(60) DEF TypeOK, ControlOK, PCs, Stages, InstallerPCs, RollbackPCs, Pkg,
     durable, locals, history, Reject, BeginSave, States, Phases
<1>24. CASE ClearCompleted
  <2>1. [DefaultState EXCEPT !.recovery = state.recovery] \in States
    BY StateConstants, Zenon DEF TypeOK, States, DefaultState, Phases, MaybeBundle
  <2> QED
    BY <1>24, <2>1, ReturnType, Zenon
       DEF ClearCompleted, BeginSave, Refuse, TypeOK, Returned, PCs, durable, history
<1>25. CASE RequestRecovery
  BY <1>25, ReturnType, Zenon DEF TypeOK, ControlOK, PCs, Stages, InstallerPCs,
     RollbackPCs, Pkg, durable, locals, history, RequestRecovery, BeginSave,
     Refuse, States, Returned
<1>26. CASE ClearRecovery
  BY <1>26, ReturnType, Zenon DEF TypeOK, ControlOK, PCs, Stages, InstallerPCs,
     RollbackPCs, Pkg, durable, locals, history, ClearRecovery, BeginSave,
     Refuse, States, Returned
<1>27. CASE Rollback
  BY <1>27, ReturnType, PkgOfType, ZenonT(60) DEF TypeOK, ControlOK, PCs, Stages,
     InstallerPCs, RollbackPCs, Pkg, durable, locals, history, Rollback,
     Refuse, CanRollback, States, Phases, Captured, MaybeBundle, Returned
<1>28. CASE TamperedApply
  BY <1>28, ReturnType, Zenon DEF TypeOK, ControlOK, PCs, Stages, InstallerPCs,
     RollbackPCs, Pkg, durable, locals, history, TamperedApply, Returned
<1>29. CASE RunProof
  BY <1>29 DEF TypeOK, ControlOK, PCs, Stages, InstallerPCs, RollbackPCs, Pkg,
     durable, locals, history, RunProof
<1>30. CASE EnterSession
  BY <1>30 DEF TypeOK, ControlOK, PCs, Stages, InstallerPCs, RollbackPCs, Pkg,
     durable, locals, history, EnterSession
<1>31. CASE Logout
  BY <1>31 DEF TypeOK, ControlOK, PCs, Stages, InstallerPCs, RollbackPCs, Pkg,
     durable, locals, history, Logout
<1>32. CASE Reboot
  BY <1>32, StateConstants, SnapshotConstants, ListConstants DEF TypeOK,
     ControlOK, PCs, Stages, InstallerPCs, RollbackPCs, Pkg, durable, locals,
     history, Reboot, PowerOff, MaybeBundle
<1>33. CASE Boot
  BY <1>33, ListConstants DEF TypeOK, ControlOK, PCs, Stages,
     InstallerPCs, RollbackPCs, Pkg, durable, locals, history, Boot, ListFile
<1>34. CASE Crash
  BY <1>34, StateConstants, SnapshotConstants, ListConstants, SMTT(60) DEF TypeOK,
     ControlOK, PCs, Stages, InstallerPCs, RollbackPCs, Pkg, durable, locals,
     history, Crash, PowerOff, MaybeBundle
<1>35. CASE CrashTorn
  BY <1>35, StateConstants, RecordConstants, SnapshotConstants, ListConstants, SMTT(60) DEF TypeOK,
     ControlOK, PCs, Stages, InstallerPCs, RollbackPCs, Pkg, durable, locals,
     history, CrashTorn, PowerOff, MaybeBundle, Contents
<1>36. ASSUME NEW b \in Bundles, StageBundle(b) PROVE TypeOK'
  BY <1>36, CaptureType DEF TypeOK, ControlOK, PCs, Stages, InstallerPCs,
     RollbackPCs, Pkg, durable, locals, history, StageBundle, States, Phases,
     MaybeBundle
<1>37. ASSUME NEW b \in Bundles, ApplyBundle(b) PROVE TypeOK'
  BY <1>37, BeginApplyType, Zenon DEF ApplyBundle
<1>38. ASSUME NEW k \in Pkgs, Install(k) PROVE TypeOK'
  BY <1>38, OrderType DEF TypeOK, ControlOK, PCs, Stages, InstallerPCs,
     RollbackPCs, Pkg, durable, locals, history, Install
<1>39. ASSUME NEW k \in Pkgs, Remove(k) PROVE TypeOK'
  BY <1>39, FilesOfType DEF TypeOK, ControlOK, PCs, Stages, InstallerPCs,
     RollbackPCs, Pkg, durable, locals, history, Remove, Lists, MaybeBundle
<1>40. CASE UNCHANGED vars
  BY <1>40 DEF TypeOK, vars
<1> QED
  BY <1>1, <1>2, <1>3, <1>4, <1>5, <1>6, <1>7, <1>8, <1>9, <1>10, <1>11,
     <1>12, <1>13, <1>14, <1>15, <1>16, <1>17, <1>18, <1>19, <1>20, <1>21,
     <1>22, <1>23, <1>24, <1>25, <1>26, <1>27, <1>28, <1>29, <1>30, <1>31,
     <1>32, <1>33, <1>34, <1>35, <1>36, <1>37, <1>38, <1>39, <1>40, SMTT(60) DEF Next,
     Work, Command

-----------------------------------------------------------------------------
(* The running operation. *)

\* An operation that ends leaves nothing to say about its progress.
LEMMA IdleFlow ==
    ASSUME pc' = "idle", cur' = NoBundle, next' = DefaultState, Named(state)',
           stage' = "off" => step' = 0
    PROVE  FlowOK'
BY DEF FlowOK, ControlOK, ApplyOK, SaveOK, RollbackOK, Named, DefaultState,
       InstallerPCs, RollbackPCs

LEMMA ReturnFlow ==
    ASSUME FlowOK, NEW ok, Return(ok), Named(state)'
    PROVE  FlowOK'
BY IdleFlow DEF Return, AfterStep, FlowOK, ControlOK

LEMMA RefuseFlow ==
    ASSUME FlowOK, Refuse
    PROVE  FlowOK'
BY ReturnFlow, Zenon DEF Refuse, FlowOK, ControlOK, Named, durable

\* An operation that only edits the state file begins.
LEMMA BeginSaveFlow ==
    ASSUME FlowOK, pc = "idle", NEW s, BeginSave(s), Named(s), stage # "off",
           Busy(s) => Busy(state) /\ s.bundle = state.bundle,
           s.phase = "pending" => /\ state.phase = "pending"
                                  /\ s.started = state.started
                                  /\ state.observed => s.observed,
           s.phase = "rolledback" => state.phase = "rolledback"
    PROVE  FlowOK'
BY DEF FlowOK, ControlOK, ApplyOK, SaveOK, RollbackOK, Named, BeginSave, Busy,
       InstallerPCs, RollbackPCs, durable

LEMMA BeginApplyFlow ==
    ASSUME TypeOK, FlowOK, NEW b \in Bundles, NEW f \in BOOLEAN,
           BeginApply(b, f), stage # "off"
    PROVE  FlowOK'
<1>1. cand' = Now(cur)'
  BY DEF BeginApply, Now, durable
<1> QED
  BY <1>1
     DEF FlowOK, ControlOK, ApplyOK, SaveOK, RollbackOK, Named, BeginApply,
         Replaceable, Busy, InstallerPCs, RollbackPCs, durable

\* Nothing the flow depends on has changed.
LEMMA SameFlow ==
    ASSUME FlowOK, UNCHANGED <<files, installed, records, state, mem, pc, ret,
                               cur, todo, next, cand>>,
           stage' = "off" => pc = "idle" /\ step' = 0
    PROVE  FlowOK'
BY DEF FlowOK, ControlOK, ApplyOK, SaveOK, RollbackOK, Named, RestoredSoFar,
       Captured, Now, Pkg, Busy, HealthCheck, InstallerPCs, RollbackPCs

\* Every step keeps FlowOK.
LEMMA FlowStep == TypeOK /\ FlowOK /\ [Next]_vars => FlowOK'
<1> SUFFICES ASSUME TypeOK, FlowOK, [Next]_vars
             PROVE  FlowOK'
  BY SMTT(60)
<1>1. CASE WriteStaged
  BY <1>1, NoBundleNew, SMTT(60) DEF TypeOK, InstallerPCs, RollbackPCs, Pkg, Busy,
     durable, locals, history, ControlOK, Named, ApplyOK, SaveOK, RollbackOK,
     RestoredSoFar, FlowOK, WriteStaged
<1>2. CASE StoreRecord
  <2>1. cur \in Bundles /\ Pkg \in Pkgs /\ cand = Now(cur)
    BY <1>2, PkgOfType, Zenon DEF StoreRecord, FlowOK, ControlOK, ApplyOK, Pkg
  <2>2. RecordDescribes(records[Pkg], cur, cand)'
    BY <1>2, <2>1, CaptureType, SMTT(60) DEF StoreRecord, TypeOK, Pkg, history
  <2> QED
    BY <1>2, <2>1, <2>2, ZenonT(60)
       DEF StoreRecord, FlowOK, ControlOK, ApplyOK, SaveOK, RollbackOK, Named,
           Busy, InstallerPCs, RollbackPCs, history
<1>3. CASE DeleteStale
  BY <1>3, NoBundleNew, SMTT(60) DEF TypeOK, InstallerPCs, RollbackPCs, Pkg, Busy,
     durable, locals, history, ControlOK, Named, ApplyOK, SaveOK, RollbackOK,
     RestoredSoFar, FlowOK, DeleteStale, Contents
<1>4. CASE BeginWrites
  BY <1>4, NoBundleNew, SMTT(60) DEF TypeOK, InstallerPCs, RollbackPCs, Pkg, Busy,
     durable, locals, history, ControlOK, Named, ApplyOK, SaveOK, RollbackOK,
     RestoredSoFar, FlowOK, BeginWrites
<1>5. CASE WriteFile
  BY <1>5, NoBundleNew, SMTT(60) DEF TypeOK, InstallerPCs, RollbackPCs, Pkg, Busy,
     durable, locals, history, ControlOK, Named, ApplyOK, SaveOK, RollbackOK,
     RestoredSoFar, FlowOK, WriteFile, Contents
<1>6. CASE EndWrites
  BY <1>6, NoBundleNew, SMTT(60) DEF TypeOK, InstallerPCs, RollbackPCs, Pkg, Busy,
     durable, locals, history, ControlOK, Named, ApplyOK, SaveOK, RollbackOK,
     RestoredSoFar, FlowOK, EndWrites, Lists, MaybeBundle
<1>7. CASE SaveApplied
  BY <1>7, NoBundleNew, SMTT(60) DEF TypeOK, InstallerPCs, RollbackPCs, Pkg, Busy,
     durable, locals, history, ControlOK, Named, ApplyOK, SaveOK, RollbackOK,
     RestoredSoFar, FlowOK, SaveApplied, ListFile
<1>8. CASE RestoreFile
  BY <1>8, NoBundleNew, SMTT(60) DEF TypeOK, InstallerPCs, RollbackPCs, Pkg, Busy,
     durable, locals, history, ControlOK, Named, ApplyOK, SaveOK, RollbackOK,
     RestoredSoFar, FlowOK, RestoreFile, Captured, RecordFile, Snapshots,
     Contents
<1>9. CASE EndRestore
  <2>1. cur \in Bundles /\ Pkg \in Pkgs
    BY <1>9, PkgOfType DEF EndRestore, FlowOK, ControlOK, RollbackPCs, Pkg
  <2>2. mem'[Pkg'] = records'[Pkg'].prev
    BY <1>9, <2>1, SMTT(60) DEF EndRestore, TypeOK, Lists, Pkg, durable, locals
  <2>3. RestoredSoFar'
    BY <1>9, SMTT(60) DEF EndRestore, FlowOK, RollbackOK, RollbackPCs, RestoredSoFar,
                Captured, Pkg, durable, locals
  <2> QED
    BY <1>9, <2>1, <2>2, <2>3
       DEF EndRestore, FlowOK, ControlOK, ApplyOK, SaveOK, RollbackOK, Named,
           InstallerPCs, RollbackPCs, durable, locals
<1>10. CASE SaveRestored
  BY <1>10, NoBundleNew, SMTT(60) DEF TypeOK, InstallerPCs, RollbackPCs, Pkg, Busy,
     durable, locals, history, ControlOK, Named, ApplyOK, SaveOK, RollbackOK,
     RestoredSoFar, FlowOK, SaveRestored, ListFile
<1>11. CASE SaveState
  BY <1>11, ReturnFlow, ZenonT(60) DEF SaveState, FlowOK, ControlOK, Named
<1>12. CASE InstallNext
  <2>1. Head(queue) \in Pkgs
    BY <1>12 DEF InstallNext, TypeOK
  <2>2. CASE mem[Head(queue)] # NoBundle
    BY <1>12, <2>2, SameFlow DEF InstallNext, durable, history, FlowOK, ControlOK
  <2>3. CASE mem[Head(queue)] = NoBundle
    BY <1>12, <2>1, <2>3, IndexType
       DEF InstallNext, FlowOK, ControlOK, ApplyOK, SaveOK, RollbackOK, Named,
           InstallerPCs, RollbackPCs, durable
  <2> QED
    BY <2>2, <2>3
<1>13. CASE InstallDone
  BY <1>13, ReturnFlow, Zenon DEF InstallDone, FlowOK, ControlOK, Named, durable
<1>14. CASE RemoveFile
  <2>1. CASE Return(FALSE)
    BY <1>14, <2>1, ReturnFlow, ZenonT(60) DEF RemoveFile, FlowOK, ControlOK, Named
  <2>2. CASE pc' = pc /\ cur' = cur /\ next' = next /\ stage' = stage /\ step' = step
    BY <1>14, <2>2
       DEF RemoveFile, FlowOK, ControlOK, ApplyOK, SaveOK, RollbackOK, Named,
           InstallerPCs, RollbackPCs
  <2> QED
    BY <1>14, <2>1, <2>2, Zenon DEF RemoveFile
<1>15. CASE EndRemove
  BY <1>15, NoBundleNew DEF TypeOK, InstallerPCs, RollbackPCs, Pkg, Busy,
     durable, locals, history, ControlOK, Named, ApplyOK, SaveOK, RollbackOK,
     RestoredSoFar, FlowOK, EndRemove, Lists, MaybeBundle
<1>16. CASE SaveRemoved
  BY <1>16, ReturnFlow, Zenon DEF SaveRemoved, FlowOK, ControlOK, Named, durable
<1>17. CASE PrepareBoot
  <2>1. CASE state.phase # "corrupt"
    <3>1. next' = HealthCheck(state) /\ pc' = "boot.save" /\ stage' = stage
      BY <1>17, <2>1 DEF PrepareBoot
    <3>2. Named(next)' /\ HealthCheck(state)' = HealthCheck(state)
      BY <1>17, <3>1 DEF PrepareBoot, HealthCheck, TypeOK, States, FlowOK, ControlOK,
                        Named, durable
    <3>3. stage # "off"
      BY <1>17 DEF PrepareBoot, ProofRuns, FlowOK, ControlOK
    <3> QED
      BY <1>17, <3>1, <3>2, <3>3
         DEF PrepareBoot, FlowOK, ControlOK, ApplyOK, SaveOK, RollbackOK, Named,
             InstallerPCs, RollbackPCs, durable
  <2>2. CASE state.phase = "corrupt"
    BY <1>17, <2>2, SameFlow
       DEF PrepareBoot, AfterPrepare, durable, history
  <2> QED
    BY <2>1, <2>2, SMTT(30)
<1>18. CASE SaveBoot
  <2>1. cur = NoBundle /\ Named(state)'
    BY <1>18 DEF SaveBoot, FlowOK, ControlOK, Named
  <2>2. CASE stage = "prepare"
    BY <1>18, <2>1, <2>2, IdleFlow DEF SaveBoot, AfterPrepare
  <2>3. CASE stage # "prepare"
    BY <1>18, <2>1, <2>3, ReturnFlow DEF SaveBoot
  <2> QED
    BY <2>2, <2>3
<1>19. CASE NoteShellReady
  <2>1. pc = "idle" /\ stage # "off"
    BY <1>19, SMTT(60) DEF NoteShellReady, CanRun, ShellIdle, ProofRuns, FlowOK, ControlOK
  <2> QED
    BY <1>19, <2>1, BeginSaveFlow, RefuseFlow
       DEF NoteShellReady, FlowOK, ControlOK, Named, Busy, TypeOK, States
<1>20. CASE WriteFails
  BY <1>20, ReturnFlow, Zenon DEF WriteFails, FlowOK, ControlOK, Named, durable
<1>21. CASE ApplyStaged
  BY <1>21, BeginApplyFlow, Zenon DEF ApplyStaged, ShellIdle, TypeOK
<1>22. CASE Confirm
  <2>1. pc = "idle" /\ stage # "off"
    BY <1>22 DEF Confirm, CanRun, ShellIdle, ProofRuns, FlowOK, ControlOK
  <2> QED
    BY <1>22, <2>1, BeginSaveFlow, RefuseFlow, Zenon
       DEF Confirm, FlowOK, ControlOK, Named, Busy, TypeOK, States
<1>23. CASE Reject
  <2>1. pc = "idle" /\ stage # "off"
    BY <1>23 DEF Reject, CanRun, ShellIdle, ProofRuns, FlowOK, ControlOK
  <2> QED
    BY <1>23, <2>1, BeginSaveFlow, RefuseFlow, Zenon
       DEF Reject, FlowOK, ControlOK, Named, Busy, TypeOK, States
<1>24. CASE ClearCompleted
  <2>1. pc = "idle" /\ stage # "off"
    BY <1>24 DEF ClearCompleted, CanRun, ShellIdle, ProofRuns, FlowOK, ControlOK
  <2> QED
    BY <1>24, <2>1, BeginSaveFlow, RefuseFlow, SMTT(60)
       DEF ClearCompleted, FlowOK, ControlOK, Named, Busy, TypeOK, States, DefaultState
<1>25. CASE RequestRecovery
  <2>1. pc = "idle" /\ stage # "off"
    BY <1>25 DEF RequestRecovery, CanRun, ShellIdle, ProofRuns, FlowOK, ControlOK
  <2> QED
    BY <1>25, <2>1, BeginSaveFlow, RefuseFlow
       DEF RequestRecovery, FlowOK, ControlOK, Named, Busy, TypeOK, States
<1>26. CASE ClearRecovery
  <2>1. pc = "idle" /\ stage # "off"
    BY <1>26 DEF ClearRecovery, CanRun, ShellIdle, ProofRuns, FlowOK, ControlOK
  <2> QED
    BY <1>26, <2>1, BeginSaveFlow, RefuseFlow
       DEF ClearRecovery, FlowOK, ControlOK, Named, Busy, TypeOK, States, Replaceable
<1>27. CASE Rollback
  <2>1. CASE CanRollback /\ pc' = "rollback.file"
    <3>1. state.bundle \in Bundles /\ stage # "off"
      BY <1>27, <2>1 DEF Rollback, CanRollback, CanRun, ShellIdle, ProofRuns, FlowOK,
                        ControlOK, Named
    <3>2. /\ cur' = state'.bundle /\ next'.phase = "rolledback"
          /\ next'.bundle = state'.bundle
      BY <1>27, <2>1, Zenon DEF Rollback, Refuse, Return, TypeOK, States, durable
    <3>3. todo' = Captured(records[Pkg])'
      BY <1>27, <2>1 DEF Rollback, Refuse, Return, Pkg, Captured, durable
    <3> QED
      BY <1>27, <2>1, <3>1, <3>2, <3>3
         DEF Rollback, Refuse, Return, FlowOK, ControlOK, ApplyOK, SaveOK,
             RollbackOK, RestoredSoFar, Named, InstallerPCs, RollbackPCs, durable
  <2>2. CASE Refuse
    BY <2>2, RefuseFlow
  <2> QED
    BY <1>27, <2>1, <2>2 DEF Rollback
<1>28. CASE TamperedApply
  BY <1>28, ReturnFlow, ZenonT(60) DEF TamperedApply, FlowOK, ControlOK, Named, durable
<1>29. CASE RunProof
  BY <1>29, SameFlow DEF RunProof, ShellIdle, durable, locals, history
<1>30. CASE EnterSession
  BY <1>30, SameFlow DEF EnterSession, durable, locals, history
<1>31. CASE Logout
  BY <1>31, SameFlow DEF Logout, durable, locals, history
<1>32. CASE Reboot
  BY <1>32, IdleFlow DEF Reboot, FlowOK, ControlOK, Named, durable, PowerOff
<1>33. CASE Boot
  <2>1. pc = "idle" /\ Named(state)' /\ Named(next)'
    BY <1>33, SMTT(60) DEF Boot, FlowOK, ControlOK, Named, durable, locals
  <2> QED
    BY <1>33, <2>1, ZenonT(60)
       DEF Boot, FlowOK, ControlOK, ApplyOK, SaveOK, RollbackOK, InstallerPCs,
           RollbackPCs, locals
<1>34. CASE Crash
  BY <1>34, IdleFlow, SMTT(60) DEF Crash, FlowOK, ControlOK, Named, durable, PowerOff
<1>35. CASE CrashTorn
  BY <1>35, NoBundleNew, SMTT(60) DEF TypeOK, InstallerPCs, RollbackPCs, Pkg, Busy,
     durable, locals, history, ControlOK, Named, ApplyOK, SaveOK, RollbackOK,
     RestoredSoFar, FlowOK, CrashTorn, PowerOff, DefaultState, MaybeBundle,
     Contents, CorruptState
<1>36. ASSUME NEW b \in Bundles, StageBundle(b) PROVE FlowOK'
  BY <1>36, NoBundleNew, ZenonT(60) DEF TypeOK, InstallerPCs, RollbackPCs, Pkg, Busy,
     durable, locals, history, ControlOK, Named, ApplyOK, SaveOK, RollbackOK,
     RestoredSoFar, FlowOK, StageBundle, States, Phases, MaybeBundle, Capture,
     Replaceable, ShellIdle
<1>37. ASSUME NEW b \in Bundles, ApplyBundle(b) PROVE FlowOK'
  BY <1>37, BeginApplyFlow, ZenonT(60)
     DEF ApplyBundle, ShellIdle, ProofRuns, FlowOK, ControlOK
<1>38. ASSUME NEW k \in Pkgs, Install(k) PROVE FlowOK'
  BY <1>38, ZenonT(60)
     DEF Install, ShellIdle, FlowOK, ControlOK, ApplyOK, SaveOK, RollbackOK, Named,
         InstallerPCs, RollbackPCs, durable
<1>39. ASSUME NEW k \in Pkgs, Remove(k) PROVE FlowOK'
  BY <1>39, NoBundleNew, ZenonT(60) DEF TypeOK, InstallerPCs, RollbackPCs, Pkg, Busy,
     durable, locals, history, ControlOK, Named, ApplyOK, SaveOK, RollbackOK,
     RestoredSoFar, FlowOK, Remove, Lists, MaybeBundle, ShellIdle
<1>40. CASE UNCHANGED vars
  BY <1>40, SameFlow, SMTT(60) DEF vars, FlowOK, ControlOK
<1> QED
  BY <1>1, <1>2, <1>3, <1>4, <1>5, <1>6, <1>7, <1>8, <1>9, <1>10, <1>11,
     <1>12, <1>13, <1>14, <1>15, <1>16, <1>17, <1>18, <1>19, <1>20, <1>21,
     <1>22, <1>23, <1>24, <1>25, <1>26, <1>27, <1>28, <1>29, <1>30, <1>31,
     <1>32, <1>33, <1>34, <1>35, <1>36, <1>37, <1>38, <1>39, <1>40, SMTT(60) DEF Next,
     Work, Command

-----------------------------------------------------------------------------
(* The update transaction. *)

\* Only a step that touches the state file, the records or the history of the
\* transaction can disturb UpdateOK.
LEMMA QuietUpdate ==
    ASSUME UpdateOK, UNCHANGED <<state, records, pre, checks>>, Alarmed(next)'
    PROVE  UpdateOK'
BY Zenon DEF UpdateOK, RecoveryOK, Alarmed, RecordBehindBusyUpdate, Busy, CheckedOK

LEMMA ReturnAlarm ==
    ASSUME NEW ok, Return(ok)
    PROVE  Alarmed(next)'
BY DEF Return, Alarmed, DefaultState

LEMMA RefuseUpdate ==
    ASSUME UpdateOK, Refuse
    PROVE  UpdateOK'
BY QuietUpdate, ReturnAlarm, ZenonT(60) DEF Refuse, durable

LEMMA BeginSaveUpdate ==
    ASSUME UpdateOK, NEW s, BeginSave(s), Alarmed(s)
    PROVE  UpdateOK'
BY QuietUpdate DEF BeginSave, Alarmed, durable, history

\* Every step keeps UpdateOK.
LEMMA UpdateStep == TypeOK /\ FlowOK /\ UpdateOK /\ [Next]_vars => UpdateOK'
<1> SUFFICES ASSUME TypeOK, FlowOK, UpdateOK, [Next]_vars
             PROVE  UpdateOK'
  OBVIOUS
<1>1. CASE WriteStaged
  BY <1>1, QuietUpdate DEF WriteStaged, UpdateOK, RecoveryOK, Alarmed,
     locals, history
<1>2. CASE DeleteStale
  BY <1>2, QuietUpdate DEF DeleteStale, UpdateOK, RecoveryOK, Alarmed,
     history
<1>3. CASE BeginWrites
  BY <1>3, QuietUpdate DEF BeginWrites, UpdateOK, RecoveryOK, Alarmed,
     durable, history
<1>4. CASE WriteFile
  BY <1>4, QuietUpdate DEF WriteFile, UpdateOK, RecoveryOK, Alarmed, history
<1>5. CASE EndWrites
  BY <1>5, QuietUpdate DEF EndWrites, UpdateOK, RecoveryOK, Alarmed, durable,
     locals, history
<1>6. CASE SaveApplied
  BY <1>6, QuietUpdate DEF SaveApplied, UpdateOK, RecoveryOK, Alarmed,
     locals, history
<1>7. CASE RestoreFile
  BY <1>7, QuietUpdate DEF RestoreFile, UpdateOK, RecoveryOK, Alarmed,
     history
<1>8. CASE EndRestore
  BY <1>8, QuietUpdate DEF EndRestore, UpdateOK, RecoveryOK, Alarmed,
     durable, locals, history
<1>9. CASE SaveRestored
  BY <1>9, QuietUpdate DEF SaveRestored, UpdateOK, RecoveryOK, Alarmed,
     locals, history
<1>10. CASE InstallNext
  BY <1>10, QuietUpdate DEF InstallNext, UpdateOK, RecoveryOK, Alarmed,
     durable, history
<1>11. CASE InstallDone
  BY <1>11, QuietUpdate, ReturnAlarm, Zenon DEF InstallDone, UpdateOK, RecoveryOK,
     Alarmed, durable
<1>12. CASE RemoveFile
  BY <1>12, QuietUpdate, ReturnAlarm, Zenon DEF RemoveFile, UpdateOK, RecoveryOK,
     Alarmed, history
<1>13. CASE EndRemove
  BY <1>13, QuietUpdate DEF EndRemove, UpdateOK, RecoveryOK, Alarmed,
     durable, locals, history
<1>14. CASE SaveRemoved
  BY <1>14, QuietUpdate, ReturnAlarm, Zenon DEF SaveRemoved, UpdateOK, RecoveryOK,
     Alarmed, history
<1>15. CASE WriteFails
  BY <1>15, QuietUpdate, ReturnAlarm, Zenon DEF WriteFails, UpdateOK, RecoveryOK,
     Alarmed, durable
<1>16. CASE NoteShellReady
  BY <1>16, RefuseUpdate, BeginSaveUpdate DEF NoteShellReady, UpdateOK,
     RecoveryOK, Alarmed, TypeOK, States
<1>17. CASE Confirm
  BY <1>17, RefuseUpdate, BeginSaveUpdate, Zenon DEF Confirm, UpdateOK, RecoveryOK,
     Alarmed, TypeOK, States
<1>18. CASE Reject
  BY <1>18, RefuseUpdate, BeginSaveUpdate, Zenon DEF Reject, UpdateOK, RecoveryOK,
     Alarmed, TypeOK, States
<1>19. CASE ClearCompleted
  BY <1>19, RefuseUpdate, BeginSaveUpdate DEF ClearCompleted, UpdateOK,
     RecoveryOK, Alarmed, DefaultState
<1>20. CASE RequestRecovery
  BY <1>20, RefuseUpdate, BeginSaveUpdate DEF RequestRecovery, UpdateOK,
     RecoveryOK, Alarmed, TypeOK, States
<1>21. CASE ClearRecovery
  BY <1>21, RefuseUpdate, BeginSaveUpdate DEF ClearRecovery, UpdateOK,
     RecoveryOK, Alarmed, TypeOK, States, Replaceable, Busy
<1>22. CASE Rollback
  BY <1>22, RefuseUpdate, QuietUpdate, Zenon DEF Rollback, UpdateOK, RecoveryOK,
     Alarmed, TypeOK, States, durable, history
<1>23. CASE TamperedApply
  BY <1>23, QuietUpdate, ReturnAlarm, Zenon DEF TamperedApply, UpdateOK, RecoveryOK,
     Alarmed, durable
<1>24. CASE RunProof
  BY <1>24, QuietUpdate DEF RunProof, UpdateOK, RecoveryOK, Alarmed, durable,
     locals, history
<1>25. CASE EnterSession
  BY <1>25, QuietUpdate DEF EnterSession, UpdateOK, RecoveryOK, Alarmed,
     durable, locals, history
<1>26. CASE Logout
  BY <1>26, QuietUpdate DEF Logout, UpdateOK, RecoveryOK, Alarmed, durable,
     locals, history
<1>27. CASE PrepareBoot
  BY <1>27, QuietUpdate, ZenonT(60) DEF PrepareBoot, UpdateOK, RecoveryOK, Alarmed,
     HealthCheck, States, TypeOK, durable, history
<1>28. CASE ApplyStaged
  BY <1>28, QuietUpdate DEF ApplyStaged, UpdateOK, RecoveryOK, Alarmed,
     BeginApply, durable
<1>29. CASE Reboot
  BY <1>29, QuietUpdate DEF Reboot, UpdateOK, RecoveryOK, Alarmed, PowerOff,
     DefaultState, durable
<1>30. CASE Crash
  BY <1>30, QuietUpdate DEF Crash, UpdateOK, RecoveryOK, Alarmed, PowerOff,
     DefaultState, durable
<1>31. ASSUME NEW b \in Bundles, StageBundle(b) PROVE UpdateOK'
  BY <1>31, QuietUpdate, SMTT(60) DEF StageBundle, UpdateOK, RecoveryOK, Alarmed,
     durable
<1>32. ASSUME NEW b \in Bundles, ApplyBundle(b) PROVE UpdateOK'
  BY <1>32, QuietUpdate DEF ApplyBundle, UpdateOK, RecoveryOK,
     Alarmed, BeginApply, durable
<1>33. ASSUME NEW k \in Pkgs, Install(k) PROVE UpdateOK'
  BY <1>33, QuietUpdate, SMTT(60) DEF Install, UpdateOK, RecoveryOK, Alarmed, durable,
     history
<1>34. ASSUME NEW k \in Pkgs, Remove(k) PROVE UpdateOK'
  BY <1>34, QuietUpdate, SMTT(60) DEF Remove, UpdateOK, RecoveryOK, Alarmed, durable,
     history
<1>35. CASE StoreRecord
  <2>1. ~Busy(state)
    BY <1>35 DEF StoreRecord, FlowOK, ControlOK, ApplyOK
  <2> QED
    BY <1>35, <2>1, SMTT(60)
       DEF StoreRecord, UpdateOK, RecoveryOK, Alarmed, RecordBehindBusyUpdate,
           Busy, CheckedOK, history
<1>36. CASE CrashTorn
  <2>1. Alarmed(next)'
    BY <1>36 DEF CrashTorn, PowerOff, Alarmed, DefaultState
  <2>2. CASE UNCHANGED <<state, records>>
    BY <1>36, <2>1, <2>2, QuietUpdate, SMTT(60) DEF CrashTorn, PowerOff
  <2>3. CASE pc = "apply.record" /\ UNCHANGED state
    <3>1. ~Busy(state)
      BY <2>3 DEF FlowOK, ControlOK, ApplyOK
    <3> QED
      BY <1>36, <2>1, <2>3, <3>1
         DEF CrashTorn, PowerOff, UpdateOK, RecoveryOK, Alarmed, CheckedOK,
             RecordBehindBusyUpdate, Busy
  <2>4. CASE state' = CorruptState
    BY <2>1, <2>4, SMTT(60) DEF CorruptState, DefaultState, UpdateOK, RecoveryOK, Alarmed,
                      RecordBehindBusyUpdate, Busy, CheckedOK
  <2> QED
    BY <1>36, <2>2, <2>3, <2>4, SMTT(60) DEF CrashTorn
<1>37. CASE Boot
  BY <1>37 DEF Boot, UpdateOK, RecoveryOK, Alarmed, CheckedOK,
               RecordBehindBusyUpdate, Busy, durable, locals, history
<1>38. CASE SaveState
  <2>1. RecoveryOK'
    BY <1>38, SMTT(60) DEF SaveState, Return, UpdateOK, RecoveryOK, Alarmed, DefaultState
  <2>2. CASE cur # NoBundle /\ next.phase = "pending"
    <3>1. /\ ~Busy(state) /\ next.bundle = cur
          /\ RecordDescribes(records[Pkg], cur, cand)
      BY <1>38, <2>2 DEF SaveState, FlowOK, SaveOK
    <3>2. pre' = cand /\ state' = next /\ records' = records
      BY <1>38, <2>2 DEF SaveState
    <3>3. checks' = 0
      BY <1>38, <2>2, <3>1 DEF SaveState, Busy
    <3> QED
      BY <2>1, <3>1, <3>2, <3>3, SMTT(60)
         DEF UpdateOK, RecordBehindBusyUpdate, CheckedOK, Pkg
  <2>3. CASE cur = NoBundle /\ Busy(next)
    <3>1. Busy(state) /\ next.bundle = state.bundle
      BY <1>38, <2>3, SMTT(60) DEF SaveState, FlowOK, SaveOK
    <3>2. pre' = pre /\ state' = next /\ records' = records
      BY <1>38, <2>3, <3>1, NoBundleNew, SMTT(60) DEF SaveState, FlowOK, SaveOK, Busy
    <3>3. RecordBehindBusyUpdate'
      BY <3>1, <3>2, SMTT(60) DEF UpdateOK, RecordBehindBusyUpdate, Busy
    <3>4. next.phase = "pending" => /\ checks' = checks /\ state.phase = "pending"
                                    /\ next.started = state.started
                                    /\ state.observed => next.observed
      BY <1>38, <2>3 DEF SaveState, FlowOK, SaveOK
    <3>5. CheckedOK'
      BY <3>2, <3>4, SMTT(60) DEF UpdateOK, CheckedOK, TypeOK, CheckCap
    <3> QED
      BY <2>1, <3>3, <3>5 DEF UpdateOK
  <2>4. CASE ~Busy(next)
    BY <1>38, <2>1, <2>4, ZenonT(60)
       DEF SaveState, UpdateOK, RecordBehindBusyUpdate, Busy, CheckedOK
  <2>5. cur # NoBundle => next.phase # "failed"
    BY <1>38 DEF SaveState, FlowOK, SaveOK
  <2> QED
    BY <2>2, <2>3, <2>4, <2>5, SMTT(60) DEF Busy
<1>39. CASE SaveBoot
  <2>1. next = HealthCheck(state) /\ Alarmed(next)'
    BY <1>39 DEF SaveBoot, Return, FlowOK, SaveOK, Alarmed, DefaultState
  <2>2. CASE UNCHANGED <<state, checks>>
    BY <1>39, <2>1, <2>2, QuietUpdate DEF SaveBoot
  <2>3. CASE state' = next /\ checks' = CountCheck
    <3>1. RecoveryOK'
      BY <2>1, <2>3 DEF UpdateOK, RecoveryOK, Alarmed, HealthCheck, TypeOK, States
    <3>2. Busy(next) => Busy(state) /\ next.bundle = state.bundle
      BY <2>1, SMTT(60) DEF HealthCheck, Busy, TypeOK, States
    <3>3. RecordBehindBusyUpdate'
      BY <1>39, <2>3, <3>2 DEF SaveBoot, UpdateOK, RecordBehindBusyUpdate, Busy
    <3>4. next.phase = "pending" =>
             /\ state.phase = "pending" /\ ~state.started /\ ~state.observed
             /\ next.started
      BY <2>1 DEF HealthCheck, TypeOK, States
    <3>5. next.phase = "pending" => checks = 0 /\ checks' = 1
      BY <2>3, <3>4 DEF CountCheck, UpdateOK, CheckedOK, TypeOK, CheckCap
    <3>6. CheckedOK'
      BY <2>3, <3>4, <3>5, SMTT(60) DEF CheckedOK
    <3> QED
      BY <3>1, <3>3, <3>6 DEF UpdateOK
  <2> QED
    BY <1>39, <2>2, <2>3, SMTT(60) DEF SaveBoot
<1>40. CASE UNCHANGED vars
  BY <1>40, QuietUpdate DEF vars, UpdateOK, RecoveryOK, Alarmed
<1> QED
  BY <1>1, <1>2, <1>3, <1>4, <1>5, <1>6, <1>7, <1>8, <1>9, <1>10, <1>11,
     <1>12, <1>13, <1>14, <1>15, <1>16, <1>17, <1>18, <1>19, <1>20, <1>21,
     <1>22, <1>23, <1>24, <1>25, <1>26, <1>27, <1>28, <1>29, <1>30, <1>31,
     <1>32, <1>33, <1>34, <1>35, <1>36, <1>37, <1>38, <1>39, <1>40, SMTT(60) DEF Next,
     Work, Command

LEMMA InitInv == Init => IInv
<1> SUFFICES ASSUME Init PROVE IInv
  BY SMTT(60)
<1>1. TypeOK
  BY StateConstants, RecordConstants, SnapshotConstants, ListConstants,
     CheckConstants, SMTT(60)
     DEF Init, TypeOK, Contents, ListFile, MaybeBundle, PCs, Stages
<1>2. FlowOK
  BY ZenonT(60) DEF Init, FlowOK, ControlOK, ApplyOK, SaveOK, RollbackOK, Named,
         DefaultState, InstallerPCs, RollbackPCs
<1>3. UpdateOK
  BY DEF Init, UpdateOK, RecoveryOK, Alarmed, RecordBehindBusyUpdate, Busy,
         CheckedOK, DefaultState
<1> QED
  BY <1>1, <1>2, <1>3 DEF IInv

-----------------------------------------------------------------------------
(* Theorems. *)

\* IInv is an inductive invariant of the update model: types, the progress of
\* the running operation, and what the files say of the current transaction.
THEOREM Invariance == Spec => []IInv
<1>1. IInv /\ [Next]_vars => IInv'
  BY TypeStep, FlowStep, UpdateStep DEF IInv, FlowOK
<1> QED
  BY <1>1, InitInv, PTL DEF Spec

\* Every variable keeps the type of the structure it stands for, whatever the
\* packages, crashes, torn files and failed writes.
THEOREM TypesHold == Spec => []TypeOK
BY Invariance, PTL DEF IInv

\* The rollback record of an update that is pending or failed is whole and is
\* the snapshot apply_verified_bundle_bytes took before it wrote anything.
THEOREM RecordHolds == Spec => []RecordBehindBusyUpdate
BY Invariance, PTL DEF IInv, UpdateOK

\* prepare_boot, reject_pending_update and clear_recovery_request never leave a
\* failed update without a recovery request.
THEOREM FailureHolds == Spec => []FailedUpdateRequestsRecovery
<1>1. IInv => FailedUpdateRequestsRecovery
  BY DEF IInv, UpdateOK, RecoveryOK, Alarmed, FailedUpdateRequestsRecovery
<1> QED
  BY <1>1, Invariance, PTL

\* An update is not pending after two saved boot health checks.
THEOREM CheckHolds == Spec => []PendingSurvivesOneCheck
<1>1. IInv => PendingSurvivesOneCheck
  BY DEF IInv, TypeOK, UpdateOK, CheckedOK, PendingSurvivesOneCheck, CheckCap
<1> QED
  BY <1>1, Invariance, PTL

\* Both together: an update that is not confirmed is noticed.
THEOREM UnconfirmedHolds == Spec => []UnconfirmedIsNoticed
BY FailureHolds, CheckHolds, PTL DEF UnconfirmedIsNoticed

\* Only three actions write update-state.json.
LEMMA StateWriters ==
    Next => UNCHANGED state \/ SaveState \/ SaveBoot \/ CrashTorn
<1> SUFFICES ASSUME Next, ~SaveState, ~SaveBoot, ~CrashTorn
             PROVE  UNCHANGED state
  OBVIOUS
<1>1. CASE Work
  BY <1>1, Zenon
     DEF Work, WriteStaged, StoreRecord, DeleteStale, BeginWrites, WriteFile,
         EndWrites, SaveApplied, RestoreFile, EndRestore, SaveRestored,
         InstallNext, InstallDone, RemoveFile, EndRemove, SaveRemoved,
         PrepareBoot, NoteShellReady, WriteFails, BeginSave, Refuse, durable
<1>2. CASE Command
  BY <1>2, Zenon
     DEF Command, StageBundle, ApplyBundle, ApplyStaged, BeginApply, Confirm,
         Reject, ClearCompleted, RequestRecovery, ClearRecovery, Rollback,
         TamperedApply, RunProof, EnterSession, Logout, Reboot, Install, Remove,
         BeginSave, Refuse, durable
<1>3. CASE Boot \/ Crash
  BY <1>3 DEF Boot, Crash, durable
<1> QED
  BY <1>1, <1>2, <1>3 DEF Next

\* rollback_current_update of an update that was applied and not confirmed
\* brings back the files and the installed list from before the apply, also
\* after crashes in the middle of earlier rollbacks.
THEOREM RollbackHolds == Spec => RollbackUndoesApply
<1>1. IInv /\ [Next]_vars
        => [RollsBack /\ Busy(state) => Restored(pre, state.bundle)]_vars
  <2> SUFFICES ASSUME IInv, Next, RollsBack, Busy(state)
               PROVE  Restored(pre, state.bundle)
    OBVIOUS
  <2>1. SaveState
    <3>1. ~SaveBoot
      <4>1. SaveBoot => next = HealthCheck(state)
        BY DEF SaveBoot, IInv, FlowOK, SaveOK
      <4> QED
        BY <4>1, ZenonT(60) DEF SaveBoot, HealthCheck, RollsBack, Busy, IInv, TypeOK, States
    <3>2. ~CrashTorn
      BY DEF CrashTorn, RollsBack, CorruptState, DefaultState
    <3> QED
      BY <3>1, <3>2, StateWriters DEF RollsBack
  <2>2. /\ cur = state.bundle /\ todo = {} /\ RestoredSoFar
        /\ mem[Pkg] = records[Pkg].prev
        /\ installed = [kind |-> "whole", list |-> mem]
    BY <2>1 DEF SaveState, RollsBack, IInv, FlowOK, RollbackOK
  <2>3. RecordDescribes(records[Pkg], cur, pre)
    BY <2>2 DEF IInv, UpdateOK, RecordBehindBusyUpdate, Pkg
  <2>4. cur \in Bundles /\ Touched(cur, pre) \subseteq Paths
    <3>1. cur \in Bundles
      BY <2>2, SMTT(60) DEF IInv, FlowOK, ControlOK, Named, Busy
    <3> QED
      BY <3>1, FilesOfType
         DEF IInv, TypeOK, SnapshotsOfAll, Touched, OwnedBy, MaybeBundle
  <2>5. ASSUME NEW p \in Touched(cur, pre) PROVE files'[p] = pre.files[p]
    <3>1. p \in Paths /\ pre.files[p] \in Contents
      BY <2>4, SMTT(60) DEF IInv, TypeOK, SnapshotsOfAll
    <3>2. records[Pkg].saved[p] = pre.files[p]
      BY <2>3, <3>1, SMTT(60) DEF RecordDescribes
    <3>3. p \in Captured(records[Pkg])
      BY <3>1, <3>2, SpecialDistinct DEF Captured, Contents
    <3> QED
      BY <2>1, <2>2, <3>2, <3>3 DEF SaveState, RestoredSoFar
  <2> QED
    BY <2>1, <2>2, <2>3, <2>5 DEF SaveState, Restored, RecordDescribes, Pkg
<1> QED
  BY <1>1, Invariance, PTL DEF Spec, RollbackUndoesApply

=============================================================================
