------------------------- MODULE WarPkgCleanProofs --------------------------
(***************************************************************************)
(* More about WarPkgUpdate, for every set of packages, bundles and paths:  *)
(* recovery has a way out, the self-test leaves no trace, and the          *)
(* installed list describes the files.                                     *)
(***************************************************************************)
EXTENDS WarPkgUpdateProofs

-----------------------------------------------------------------------------
(* Recovery. *)

\* A state file that cannot be read comes from a torn write only.
Readable == state.phase # "corrupt" /\ next.phase # "corrupt"

\* No step but a torn write makes a state that load_state cannot parse.
LEMMA ReadableStep ==
    ASSUME ~WritesMayTear, IInv, Readable, [Next]_vars
    PROVE  Readable'
<1>1. /\ state \in States /\ next \in States
      /\ DefaultState.phase # "corrupt"
      /\ \A s \in States, r \in BOOLEAN :
            /\ [s EXCEPT !.recovery = r].phase = s.phase
            /\ [DefaultState EXCEPT !.recovery = r].phase # "corrupt"
      /\ \A s \in States : s.recovery \in BOOLEAN
  BY DEF IInv, TypeOK, States, DefaultState
<1>2. state.phase # "corrupt" /\ next.phase # "corrupt"
  BY DEF Readable
<1>3. HealthCheck(state).phase # "corrupt"
  BY <1>1, <1>2 DEF HealthCheck, States
<1>4. state'.phase # "corrupt"
  <2>1. state' \in {state, next}
    BY StateWriters, Zenon DEF CrashTorn, SaveState, SaveBoot, vars
  <2> QED
    BY <1>2, <2>1, Zenon
<1>5. CASE Work
  <2>1. [state EXCEPT !.observed = TRUE].phase = state.phase
    BY <1>1 DEF States
  <2> QED
    BY <1>1, <1>2, <1>3, <1>4, <1>5, <2>1, ZenonT(30)
       DEF Readable, Work, WriteStaged, StoreRecord, DeleteStale, BeginWrites,
           WriteFile, EndWrites, SaveApplied, RestoreFile, EndRestore,
           SaveRestored, SaveState, InstallNext, InstallDone, RemoveFile,
           EndRemove, SaveRemoved, PrepareBoot, SaveBoot, NoteShellReady,
           WriteFails, BeginSave, Refuse, Return, locals
<1>6. CASE Command
  <2> DEFINE confirmed == [state EXCEPT !.phase = "confirmed", !.started = FALSE,
                                        !.observed = FALSE, !.recovery = FALSE]
             rejected == [state EXCEPT !.phase = "failed", !.recovery = TRUE]
             undone == [state EXCEPT !.phase = "rolledback", !.started = FALSE,
                                     !.observed = FALSE, !.recovery = FALSE]
  <2>1. /\ confirmed.phase # "corrupt" /\ rejected.phase # "corrupt"
        /\ undone.phase # "corrupt"
    BY <1>1 DEF States
  <2>2. ASSUME NEW s, BeginSave(s), s.phase # "corrupt" PROVE next'.phase # "corrupt"
    BY <2>2, Zenon DEF BeginSave
  <2>3. Refuse => next'.phase # "corrupt"
    BY <1>1, Zenon DEF Refuse, Return
  <2>4. ASSUME NEW b, NEW f, BeginApply(b, f) PROVE next'.phase # "corrupt"
    BY <2>4 DEF BeginApply
  <2>5. ASSUME NEW b, StageBundle(b) PROVE next'.phase # "corrupt"
    BY <2>5 DEF StageBundle
  <2>6. Confirm \/ Reject \/ ClearCompleted \/ RequestRecovery \/ ClearRecovery
          => next'.phase # "corrupt"
    BY <1>1, <1>2, <2>1, <2>2, <2>3, ZenonT(30)
       DEF Confirm, Reject, ClearCompleted, RequestRecovery, ClearRecovery
  <2>7. Rollback => next'.phase # "corrupt"
    BY <2>1, <2>3, Zenon DEF Rollback
  <2>8. TamperedApply \/ RunProof \/ EnterSession \/ Logout \/ Reboot
           \/ (\E p \in Pkgs : Install(p) \/ Remove(p)) => next'.phase # "corrupt"
    BY <1>1, <1>2, ZenonT(30)
       DEF TamperedApply, RunProof, EnterSession, Logout, Reboot, Install, Remove,
           Return, PowerOff, locals
  <2>9. next'.phase # "corrupt"
    BY <1>6, <2>4, <2>5, <2>6, <2>7, <2>8, Zenon DEF Command, ApplyBundle, ApplyStaged
  <2> QED
    BY <1>4, <2>9, Zenon DEF Readable
<1>7. CASE Boot \/ Crash \/ CrashTorn \/ UNCHANGED vars
  BY <1>1, <1>2, <1>4, <1>7, Zenon
     DEF Readable, Boot, Crash, CrashTorn, PowerOff, locals, vars
<1> QED
  BY <1>5, <1>6, <1>7, Zenon DEF Next

\* As long as no write is torn, the recovery shell has a command that ends the
\* recovery: whatever writes fail and whenever the power does, a state that
\* clear_recovery_request refuses has a record that rollback can use.
THEOREM RecoveryHasExitHolds ==
    ASSUME ~WritesMayTear
    PROVE  Spec => []RecoveryHasExit
<1>1. Init => Readable
  BY DEF Init, Readable, DefaultState
<1>2. IInv /\ Readable /\ [Next]_vars => Readable'
  BY ReadableStep
<1>3. IInv /\ Readable => RecoveryHasExit
  BY DEF IInv, UpdateOK, RecordBehindBusyUpdate, RecordDescribes, Readable,
         RecoveryHasExit, Replaceable, CanRollback, Busy
<1> QED
  BY <1>1, <1>2, <1>3, Invariance, PTL DEF Spec

-----------------------------------------------------------------------------
(* The self-test. *)

\* The files that the update b touched, and the list, are those of snap.
Undone(snap, b) ==
    /\ \A p \in Touched(b, snap) : files[p] = snap.files[p]
    /\ mem[PkgOf[b]] = snap.prev
    /\ installed = [kind |-> "whole", list |-> mem]

\* Step 1 of run_offline_update_proof applies its bundle in an idle state.
SelfApplies ==
    step = 1 =>
        /\ ProofAvailable(state)
        /\ pc # "idle" => /\ pc \in InstallerPCs \cup {"apply.record", "state.save"}
                          /\ cur = ProofBundle /\ next.phase = "pending"
                          /\ next.bundle = ProofBundle
                          /\ pc # "state.save" => ret = "state.save"

\* Steps 2 to 5 have the record of the files that step 1 found.
SelfUpdates ==
    step \in 2..5 =>
        /\ state.bundle = ProofBundle
        /\ RecordDescribes(records[PkgOf[ProofBundle]], ProofBundle, cand)
        /\ step # 5 /\ pc # "idle" => /\ pc \in {"boot.save", "state.save"}
                                      /\ next.bundle = ProofBundle
        /\ step = 5 /\ pc # "idle" => /\ pc \in RollbackPCs \cup {"state.save"}
                                      /\ cur = ProofBundle /\ ~next.recovery
        /\ step = 5 /\ pc = "state.save" => Undone(cand, ProofBundle)

\* Steps 6 to 9 edit the state file only.
SelfClears ==
    step \in 6..9 =>
        /\ Undone(cand, ProofBundle)
        /\ pc \in {"idle", "state.save"} /\ ~(step = 9 /\ pc = "state.save")
        /\ step = 6 => ~state.recovery
        /\ step # 6 => state.phase = "none"
        /\ step \in {7, 9} => ~state.recovery
        /\ pc = "state.save" => next.phase = "none" /\ (step # 7 => ~next.recovery)

\* Where the self-test stands, step by step.
SelfOK ==
    (stage = "prepare" => step = 0) /\ SelfApplies /\ SelfUpdates /\ SelfClears

\* Where a step of the self-test leads.
LEMMA AfterStepFacts ==
    ASSUME step \in 0..12
    PROVE  /\ step \in 1..8 => AfterStep(TRUE) = step + 1
           /\ step \notin 1..8 => AfterStep(TRUE) \notin 1..9
           /\ AfterStep(FALSE) \notin 1..9
           /\ step = 0 => AfterStep(TRUE) = 0 /\ AfterStep(FALSE) = 0
<1>1. CASE step = 0
  BY <1>1 DEF AfterStep
<1>2. CASE step \in 1..9
  BY <1>2 DEF AfterStep
<1>3. CASE step \in 10..12
  BY <1>3 DEF AfterStep
<1>4. step = 0 \/ step \in 1..9 \/ step \in 10..12
  OBVIOUS
<1> QED
  BY <1>1, <1>2, <1>3, <1>4, Zenon

\* Which operation each step is.
LEMMA ProofStep ==
    ASSUME step \in 0..12
    PROVE  /\ ProofRuns("apply") => step = 1
           /\ ProofRuns("prepare") => step = 2
           /\ ProofRuns("ready") => step = 3
           /\ ProofRuns("confirm") => step = 4
           /\ ProofRuns("rollback") => step \in {5, 10}
           /\ ProofRuns("clear") => step \in {6, 11}
           /\ ProofRuns("request") => step = 7
           /\ ProofRuns("resume") => step \in {8, 12}
           /\ ProofRuns("tampered") => step = 9
BY DEF ProofRuns, ProofOps

\* Outside the self-test there is nothing to say.
LEMMA OutOfTest ==
    ASSUME step' \notin 1..9, stage' = "prepare" => step' = 0
    PROVE  SelfOK'
BY DEF SelfOK, SelfApplies, SelfUpdates, SelfClears

\* A step that fails ends the strict part of the self-test.
LEMMA TestFails ==
    ASSUME TypeOK, SelfOK, Return(FALSE)
    PROVE  SelfOK'
<1>1. step' \notin 1..9 /\ (step = 0 => step' = 0)
  BY AfterStepFacts, Zenon DEF Return, TypeOK
<1>2. stage' = "prepare" => stage = "prepare"
  BY DEF Return
<1> QED
  BY <1>1, <1>2, OutOfTest DEF SelfOK

\* The self-test begins when the state is idle.
LEMMA TestBegins ==
    ASSUME step' = 1, pc' = "idle", ProofAvailable(state'), stage' # "prepare"
    PROVE  SelfOK'
BY DEF SelfOK, SelfApplies, SelfUpdates, SelfClears, ProofAvailable

\* Between steps.
LEMMA Between ==
    ASSUME NEW k \in 1..8, step = k, stage # "prepare", TypeOK, Return(TRUE)
    PROVE  step' = k + 1 /\ pc' = "idle" /\ cand' = cand /\ stage' = stage
<1>1. AfterStep(TRUE) = k + 1
  BY AfterStepFacts, Zenon DEF TypeOK
<1>2. step # 0 /\ k + 1 # 0
  OBVIOUS
<1> QED
  BY <1>1, <1>2, Zenon DEF Return

\* The steps of an apply, up to its save.
LEMMA TestApplies ==
    ASSUME SelfOK, step = 1, UNCHANGED <<state, cur, ret, next, step, stage>>,
           pc \notin {"idle", "state.save"},
           pc' \in InstallerPCs \cup {"apply.record"} \/ pc' = ret
    PROVE  SelfOK'
BY DEF SelfOK, SelfApplies, SelfUpdates, SelfClears, ProofAvailable, InstallerPCs

\* Undone says nothing of the update state.
LEMMA UndoneFrame ==
    ASSUME NEW snap, NEW b, Undone(snap, b), UNCHANGED <<files, mem, installed>>
    PROVE  Undone(snap, b)'
BY DEF Undone

\* An operation of the self-test that only edits the state file.
LEMMA TestSaves ==
    ASSUME SelfOK, step \in 2..8, pc = "idle", NEW s, BeginSave(s),
           step \in 2..4 => s.bundle = state.bundle,
           step # 5,
           step \in 6..8 => s.phase = "none" /\ (step # 7 => ~s.recovery)
    PROVE  SelfOK'
<1>1. /\ next' = s /\ pc' = "state.save"
      /\ UNCHANGED <<files, mem, installed, records, state, cand, step, stage>>
  BY DEF BeginSave, durable, history
<1>2. SelfApplies'
  BY <1>1 DEF SelfApplies
<1>3. SelfUpdates'
  BY <1>1 DEF SelfOK, SelfUpdates, RecordDescribes
<1>4. step \in 6..8 => Undone(cand, ProofBundle)'
  BY <1>1 DEF SelfOK, SelfClears, Undone
<1>5. SelfClears'
  BY <1>1, <1>4 DEF SelfOK, SelfClears
<1> QED
  BY <1>1, <1>2, <1>3, <1>5 DEF SelfOK

\* How a step moves the position of the self-test.
LEMMA StepMoves ==
    ASSUME Next
    PROVE  \/ step' = step /\ (stage' = "prepare" => stage \in {"prepare", "off"})
           \/ Return(TRUE) \/ Return(FALSE)
           \/ step' = 0 /\ stage' = "off"
           \/ RunProof
           \/ pc' = "idle" /\ AfterPrepare(state')
<1>1. CASE Work
  <2>1. (next.phase = "pending") \in {TRUE, FALSE}
    BY Zenon
  <2>2. SaveBoot => \/ Return(TRUE) \/ Return(FALSE)
                    \/ pc' = "idle" /\ AfterPrepare(state')
    BY <2>1, Zenon DEF SaveBoot
  <2>3. PrepareBoot => \/ step' = step /\ stage' = stage
                       \/ pc' = "idle" /\ AfterPrepare(state')
    BY DEF PrepareBoot, durable, AfterPrepare
  <2> QED
    BY <1>1, <2>2, <2>3, ZenonT(30)
       DEF Work, WriteStaged, StoreRecord, DeleteStale, BeginWrites, WriteFile,
           EndWrites, SaveApplied, RestoreFile, EndRestore, SaveRestored, SaveState,
           InstallNext, InstallDone, RemoveFile, EndRemove, SaveRemoved,
           NoteShellReady, WriteFails, BeginSave, Refuse
<1>2. CASE Command
  BY <1>2, ZenonT(30)
     DEF Command, StageBundle, ApplyBundle, ApplyStaged, BeginApply, Confirm,
         Reject, ClearCompleted, RequestRecovery, ClearRecovery, Rollback,
         TamperedApply, EnterSession, Logout, Reboot, Install, Remove,
         BeginSave, Refuse, PowerOff
<1>3. CASE Boot \/ Crash \/ CrashTorn
  BY <1>3, Zenon DEF Boot, Crash, CrashTorn, PowerOff
<1> QED
  BY <1>1, <1>2, <1>3, Zenon DEF Next

\* Outside its strict steps the self-test can only begin.
LEMMA OutsideStep ==
    ASSUME TypeOK, ControlOK, SelfOK, Next, step \notin 1..9
    PROVE  SelfOK'
<1>1. CASE step' = step /\ (stage' = "prepare" => stage \in {"prepare", "off"})
  BY <1>1, OutOfTest DEF SelfOK, ControlOK
<1>2. CASE Return(TRUE)
  <2>0. step \notin 1..8 /\ step \in 0..12
    BY DEF TypeOK
  <2>1. step' \notin 1..9 /\ (step = 0 => step' = 0)
    BY <1>2, <2>0, AfterStepFacts, Zenon DEF Return
  <2>2. stage' = "prepare" => stage = "prepare"
    BY <1>2 DEF Return
  <2> QED
    BY <2>1, <2>2, OutOfTest DEF SelfOK
<1>3. CASE Return(FALSE)
  BY <1>3, TestFails
<1>4. CASE step' = 0 /\ stage' = "off"
  BY <1>4, OutOfTest
<1>5. CASE RunProof
  <2>1. step' = 1 /\ pc' = "idle" /\ ProofAvailable(state') /\ stage' # "prepare"
    BY <1>5 DEF RunProof, ShellIdle, durable
  <2> QED
    BY <2>1, TestBegins
<1>6. CASE pc' = "idle" /\ AfterPrepare(state')
  <2>1. step' = 0 \/ (step' = 1 /\ ProofAvailable(state'))
    BY <1>6 DEF AfterPrepare
  <2>2. stage' # "prepare"
    BY <1>6 DEF AfterPrepare
  <2> QED
    BY <1>6, <2>1, <2>2, OutOfTest, TestBegins
<1> QED
  BY <1>1, <1>2, <1>3, <1>4, <1>5, <1>6, StepMoves, Zenon

\* What can happen between two strict steps of the self-test.
LEMMA BetweenActions ==
    ASSUME TypeOK, ControlOK, SelfOK, Next, step \in 1..9, pc = "idle"
    PROVE  \/ step = 1 /\ BeginApply(ProofBundle, FALSE)
           \/ step = 2 /\ PrepareBoot
           \/ step = 3 /\ NoteShellReady
           \/ step = 4 /\ Confirm
           \/ step = 5 /\ Rollback
           \/ step = 6 /\ ClearCompleted
           \/ step = 7 /\ RequestRecovery
           \/ step = 8 /\ ClearRecovery
           \/ step = 9 /\ TamperedApply
           \/ EnterSession \/ Crash
<1>1. step # 0 /\ step \notin 10..12
  OBVIOUS
<1>2. stage \notin {"off", "prepare"} /\ ~ShellIdle
  BY <1>1 DEF ControlOK, SelfOK, ShellIdle
<1>3. CASE Work
  <2>1. PrepareBoot \/ NoteShellReady
    BY <1>3, ZenonT(30)
       DEF Work, WriteStaged, StoreRecord, DeleteStale, BeginWrites, WriteFile,
           EndWrites, SaveApplied, RestoreFile, EndRestore, SaveRestored, SaveState,
           InstallNext, InstallDone, RemoveFile, EndRemove, SaveRemoved, SaveBoot,
           WriteFails
  <2> QED
    BY <1>1, <1>2, <2>1, ProofStep, Zenon DEF PrepareBoot, NoteShellReady, TypeOK
<1>4. CASE Command
  <2>1. \/ ProofRuns("apply") /\ BeginApply(ProofBundle, FALSE)
        \/ ProofRuns("confirm") /\ Confirm
        \/ ProofRuns("rollback") /\ Rollback
        \/ ProofRuns("clear") /\ ClearCompleted
        \/ ProofRuns("request") /\ RequestRecovery
        \/ ProofRuns("resume") /\ ClearRecovery
        \/ ProofRuns("tampered") /\ TamperedApply
        \/ EnterSession
    <3>1. ASSUME NEW b, ApplyBundle(b)
          PROVE  ProofRuns("apply") /\ BeginApply(ProofBundle, FALSE)
      BY <1>2, <3>1, Zenon DEF ApplyBundle
    <3>2. Confirm \/ Rollback \/ RequestRecovery \/ ClearRecovery
            => \/ ProofRuns("confirm") /\ Confirm
               \/ ProofRuns("rollback") /\ Rollback
               \/ ProofRuns("request") /\ RequestRecovery
               \/ ProofRuns("resume") /\ ClearRecovery
      BY <1>2, Zenon DEF Confirm, Rollback, RequestRecovery, ClearRecovery, CanRun
    <3>3. /\ ClearCompleted => ProofRuns("clear")
          /\ TamperedApply => ProofRuns("tampered")
      BY Zenon DEF ClearCompleted, TamperedApply
    <3>4. /\ \A b \in Bundles : ~StageBundle(b)
          /\ ~ApplyStaged /\ ~Reject /\ ~RunProof /\ ~Logout /\ ~Reboot
          /\ \A p \in Pkgs : ~Install(p) /\ ~Remove(p)
      BY <1>2, Zenon DEF StageBundle, ApplyStaged, Reject, RunProof, Logout, Reboot,
                         Install, Remove
    <3> QED
      BY <1>4, <3>1, <3>2, <3>3, <3>4, Zenon DEF Command
  <2>2. /\ ProofRuns("apply") => step = 1
        /\ ProofRuns("confirm") => step = 4
        /\ ProofRuns("rollback") => step = 5
        /\ ProofRuns("clear") => step = 6
        /\ ProofRuns("request") => step = 7
        /\ ProofRuns("resume") => step = 8
        /\ ProofRuns("tampered") => step = 9
    BY ProofStep DEF TypeOK
  <2> QED
    BY <2>1, <2>2, Zenon
<1>5. CASE Boot \/ CrashTorn
  BY <1>2, <1>5 DEF Boot, CrashTorn
<1> QED
  BY <1>3, <1>4, <1>5, Zenon DEF Next

\* Starting a session does not concern the self-test.
LEMMA SessionStep ==
    ASSUME SelfOK, EnterSession
    PROVE  SelfOK'
<1>1. /\ UNCHANGED <<files, mem, installed, records, state, cand>>
      /\ UNCHANGED <<step, pc, cur, ret, next>>
      /\ stage' # "prepare"
  BY DEF EnterSession, durable, history, locals
<1>2. SelfApplies' /\ SelfUpdates'
  BY <1>1 DEF SelfOK, SelfApplies, SelfUpdates, Undone, ProofAvailable
<1>3. SelfClears'
  BY <1>1 DEF SelfOK, SelfClears, Undone
<1> QED
  BY <1>1, <1>2, <1>3 DEF SelfOK

\* Each strict step of the self-test starts where the one before it ended.
LEMMA BetweenStep ==
    ASSUME TypeOK, ControlOK, SelfOK, Next, step \in 1..9, pc = "idle"
    PROVE  SelfOK'
<1>1. state \in States /\ stage # "prepare"
  BY DEF TypeOK, SelfOK
<1>2. CASE step = 1 /\ BeginApply(ProofBundle, FALSE)
  <2>1. /\ pc' = "apply.record" /\ cur' = ProofBundle /\ ret' = "state.save"
        /\ next'.phase = "pending" /\ next'.bundle = ProofBundle
        /\ state' = state /\ step' = 1 /\ stage' = stage
    BY <1>2 DEF BeginApply, durable
  <2> QED
    BY <1>2, <2>1 DEF SelfOK, SelfApplies, SelfUpdates, SelfClears, ProofAvailable
<1>3. CASE step = 2 /\ PrepareBoot
  <2>1. CASE state.phase = "corrupt"
    <3>1. step' = 0 /\ stage' = "ready"
      BY <1>3, <2>1 DEF PrepareBoot, AfterPrepare, ProofAvailable
    <3> QED
      BY <3>1, OutOfTest
  <2>2. CASE state.phase # "corrupt"
    <3>1. /\ pc' = "boot.save" /\ next' = HealthCheck(state)
          /\ UNCHANGED <<step, stage, records, state, cand>>
      BY <1>3, <2>2 DEF PrepareBoot, durable, history
    <3>2. HealthCheck(state).bundle = state.bundle
      BY <1>1, ZenonT(30) DEF HealthCheck, States
    <3> QED
      BY <1>1, <1>3, <3>1, <3>2
         DEF SelfOK, SelfApplies, SelfUpdates, SelfClears, RecordDescribes
  <2> QED
    BY <2>1, <2>2
<1>4. CASE step = 3 /\ NoteShellReady
  <2> DEFINE s == [state EXCEPT !.observed = TRUE]
  <2>1. Refuse \/ BeginSave(s)
    BY <1>4 DEF NoteShellReady
  <2>2. s.bundle = state.bundle
    BY <1>1 DEF States
  <2>3. step \in 2..8 /\ step \notin 6..8 /\ step # 5
    BY <1>4
  <2> HIDE DEF s
  <2> QED
    BY <1>4, <2>1, <2>2, <2>3, TestSaves, TestFails, Zenon DEF Refuse
<1>5. CASE step = 4 /\ Confirm
  <2> DEFINE s == [state EXCEPT !.phase = "confirmed", !.started = FALSE,
                                !.observed = FALSE, !.recovery = FALSE]
  <2>1. Refuse \/ BeginSave(s)
    BY <1>5, Zenon DEF Confirm
  <2>2. s.bundle = state.bundle
    BY <1>1 DEF States
  <2>3. step \in 2..8 /\ step \notin 6..8 /\ step # 5
    BY <1>5
  <2> HIDE DEF s
  <2> QED
    BY <1>5, <2>1, <2>2, <2>3, TestSaves, TestFails, Zenon DEF Refuse
<1>6. CASE step = 5 /\ Rollback
  <2>1. CASE Refuse
    BY <2>1, TestFails DEF Refuse
  <2>2. CASE ~Refuse
    <3> DEFINE s == [state EXCEPT !.phase = "rolledback", !.started = FALSE,
                                  !.observed = FALSE, !.recovery = FALSE]
    <3>1. /\ pc' = "rollback.file" /\ cur' = state.bundle /\ next' = s
          /\ UNCHANGED <<step, stage, records, state, cand>>
      BY <1>6, <2>2 DEF Rollback, durable, history
    <3>2. ~s.recovery
      BY <1>1 DEF States
    <3> HIDE DEF s
    <3> QED
      BY <1>1, <1>6, <3>1, <3>2
         DEF SelfOK, SelfApplies, SelfUpdates, SelfClears, RecordDescribes, RollbackPCs
  <2> QED
    BY <2>1, <2>2
<1>7. CASE step = 6 /\ ClearCompleted
  <2> DEFINE s == [DefaultState EXCEPT !.recovery = state.recovery]
  <2>1. Refuse \/ BeginSave(s)
    BY <1>7 DEF ClearCompleted
  <2>2. s.phase = "none" /\ ~s.recovery
    BY <1>1, <1>7 DEF States, DefaultState, SelfOK, SelfClears
  <2>3. step \in 2..8 /\ step \notin 2..4 /\ step # 5
    BY <1>7
  <2> HIDE DEF s
  <2> QED
    BY <1>7, <2>1, <2>2, <2>3, TestSaves, TestFails, Zenon DEF Refuse
<1>8. CASE step = 7 /\ RequestRecovery
  <2> DEFINE s == [state EXCEPT !.recovery = TRUE]
  <2>1. Refuse \/ BeginSave(s)
    BY <1>8 DEF RequestRecovery
  <2>2. s.phase = "none"
    BY <1>1, <1>8 DEF States, SelfOK, SelfClears
  <2>3. step \in 2..8 /\ step \notin 2..4 /\ step # 5 /\ step = 7
    BY <1>8
  <2> HIDE DEF s
  <2> QED
    BY <1>8, <2>1, <2>2, <2>3, TestSaves, TestFails, Zenon DEF Refuse
<1>9. CASE step = 8 /\ ClearRecovery
  <2> DEFINE s == [state EXCEPT !.recovery = FALSE]
  <2>1. Refuse \/ BeginSave(s)
    BY <1>9 DEF ClearRecovery
  <2>2. s.phase = "none" /\ ~s.recovery
    BY <1>1, <1>9 DEF States, SelfOK, SelfClears
  <2>3. step \in 2..8 /\ step \notin 2..4 /\ step # 5
    BY <1>9
  <2> HIDE DEF s
  <2> QED
    BY <1>9, <2>1, <2>2, <2>3, TestSaves, TestFails, Zenon DEF Refuse
<1>10. CASE step = 9 /\ TamperedApply
  <2>1. CASE Return(FALSE)
    BY <2>1, TestFails
  <2>2. CASE Return(TRUE)
    <3>1. AfterStep(TRUE) \notin 1..9
      <4>1. step \notin 1..8 /\ step \in 0..12
        BY <1>10
      <4> QED
        BY <4>1, AfterStepFacts, Zenon
    <3>2. step' \notin 1..9 /\ stage' # "prepare"
      BY <1>1, <2>2, <3>1, Zenon DEF Return
    <3> QED
      BY <3>2, OutOfTest
  <2> QED
    BY <1>10, <2>1, <2>2, Zenon DEF TamperedApply
<1>11. CASE EnterSession
  BY <1>11, SessionStep
<1>12. CASE Crash
  <2>1. step' = 0 /\ stage' = "off"
    BY <1>12 DEF Crash, PowerOff
  <2> QED
    BY <2>1, OutOfTest
<1> QED
  BY <1>2, <1>3, <1>4, <1>5, <1>6, <1>7, <1>8, <1>9, <1>10, <1>11, <1>12,
     BetweenActions, Zenon

\* What can happen while a strict step of the self-test runs.
LEMMA RunningActions ==
    ASSUME ControlOK, SelfOK, Next, step \in 1..9, pc # "idle"
    PROVE  \/ /\ step = 1
              /\ StoreRecord \/ DeleteStale \/ BeginWrites \/ WriteFile
                    \/ EndWrites \/ SaveApplied
           \/ step = 5 /\ (RestoreFile \/ EndRestore \/ SaveRestored)
           \/ step \in 1..8 /\ SaveState
           \/ step \in 2..4 /\ SaveBoot
           \/ Return(FALSE) \/ EnterSession
           \/ step' = 0 /\ stage' = "off"
<1>1. /\ step # 0 /\ stage # "off"
      /\ step = 1 \/ step \in 2..4 \/ step = 5 \/ step \in 6..9
  BY DEF ControlOK
<1>2. /\ step = 1 => pc \in InstallerPCs \cup {"apply.record", "state.save"}
      /\ step \in 2..4 => pc \in {"boot.save", "state.save"}
      /\ step = 5 => pc \in RollbackPCs \cup {"state.save"}
      /\ step \in 6..9 => pc = "state.save" /\ step # 9
  BY DEF SelfOK, SelfApplies, SelfUpdates, SelfClears
<1>3. CASE Work
  <2>1. /\ StoreRecord \/ DeleteStale \/ BeginWrites \/ WriteFile
              \/ EndWrites \/ SaveApplied => pc \in InstallerPCs \cup {"apply.record"}
        /\ RestoreFile \/ EndRestore \/ SaveRestored => pc \in RollbackPCs
        /\ SaveState => pc = "state.save"
        /\ SaveBoot => pc = "boot.save"
        /\ WriteStaged \/ InstallNext \/ InstallDone \/ RemoveFile \/ EndRemove
              \/ SaveRemoved
             => pc \in {"stage.write", "install.next", "remove.file", "remove.list"}
        /\ ~PrepareBoot /\ ~NoteShellReady
        /\ WriteFails => Return(FALSE)
    BY Zenon
       DEF WriteStaged, StoreRecord, DeleteStale, BeginWrites, WriteFile, EndWrites,
           SaveApplied, RestoreFile, EndRestore, SaveRestored, SaveState, InstallNext,
           InstallDone, RemoveFile, EndRemove, SaveRemoved, SaveBoot, PrepareBoot,
           NoteShellReady, WriteFails, InstallerPCs, RollbackPCs
  <2>2. /\ pc \in InstallerPCs \cup {"apply.record"} => step = 1
        /\ pc \in RollbackPCs => step = 5
        /\ pc = "state.save" => step \in 1..8
        /\ pc = "boot.save" => step \in 2..4
        /\ pc \notin {"stage.write", "install.next", "remove.file", "remove.list"}
    BY <1>1, <1>2 DEF InstallerPCs, RollbackPCs
  <2> QED
    BY <1>3, <2>1, <2>2, Zenon DEF Work
<1>4. CASE Command
  BY <1>4, ZenonT(30)
     DEF Command, StageBundle, ApplyBundle, ApplyStaged, Confirm, Reject,
         ClearCompleted, RequestRecovery, ClearRecovery, Rollback, TamperedApply,
         RunProof, Logout, Reboot, Install, Remove, CanRun, ShellIdle, ProofRuns
<1>5. CASE Boot \/ Crash \/ CrashTorn
  BY <1>1, <1>5, Zenon DEF Boot, Crash, CrashTorn, PowerOff
<1> QED
  BY <1>3, <1>4, <1>5, Zenon DEF Next

\* The save that ends a strict step.
LEMMA SavedStep ==
    ASSUME TypeOK, FlowOK, SelfOK, step \in 1..8, SaveState
    PROVE  SelfOK'
<1>1. /\ step' = step + 1 /\ pc' = "idle" /\ stage' = stage /\ stage # "prepare"
      /\ UNCHANGED <<cand, files, installed, records, mem>>
      /\ state' = next /\ pc = "state.save"
  <2>1. stage # "prepare"
    BY DEF SelfOK
  <2>2. step' = step + 1 /\ pc' = "idle" /\ cand' = cand /\ stage' = stage
    <3>1. PICK k \in 1..8 : step = k
      OBVIOUS
    <3> QED
      BY <2>1, <3>1, Between, Zenon DEF SaveState
  <2> QED
    BY <2>1, <2>2 DEF SaveState
<1>2. CASE step = 1
  <2>1. cur = ProofBundle /\ next.phase = "pending" /\ next.bundle = ProofBundle
    BY <1>1, <1>2 DEF SelfOK, SelfApplies
  <2>2. RecordDescribes(records[PkgOf[ProofBundle]], ProofBundle, cand)
    BY <1>1, <2>1, ProofBundleType, NoBundleNew DEF FlowOK, SaveOK, Pkg
  <2> QED
    BY <1>1, <1>2, <2>1, <2>2
       DEF SelfOK, SelfApplies, SelfUpdates, SelfClears, RecordDescribes
<1>3. CASE step \in 2..4
  BY <1>1, <1>3 DEF SelfOK, SelfApplies, SelfUpdates, SelfClears, RecordDescribes
<1>4. CASE step = 5
  <2>1. Undone(cand, ProofBundle) /\ ~next.recovery
    BY <1>1, <1>4 DEF SelfOK, SelfUpdates
  <2>2. Undone(cand, ProofBundle)'
    BY <1>1, <2>1 DEF Undone
  <2> QED
    BY <1>1, <1>4, <2>1, <2>2 DEF SelfOK, SelfApplies, SelfUpdates, SelfClears
<1>5. CASE step \in 6..8
  <2>1. Undone(cand, ProofBundle) /\ next.phase = "none" /\ (step # 7 => ~next.recovery)
    BY <1>1, <1>5 DEF SelfOK, SelfClears
  <2>2. Undone(cand, ProofBundle)'
    BY <1>1, <2>1 DEF Undone
  <2> QED
    BY <1>1, <1>5, <2>1, <2>2 DEF SelfOK, SelfApplies, SelfUpdates, SelfClears
<1> QED
  BY <1>2, <1>3, <1>4, <1>5

\* Once every file is restored and the list is saved, nothing of the update
\* is left.
LEMMA RestoredIsUndone ==
    ASSUME TypeOK, FlowOK, pc = "rollback.list", cur = ProofBundle, SaveRestored,
           RecordDescribes(records[PkgOf[ProofBundle]], ProofBundle, cand)
    PROVE  Undone(cand, ProofBundle)'
<1>1. /\ RestoredSoFar /\ todo = {} /\ mem[Pkg] = records[Pkg].prev
      /\ UNCHANGED <<files, mem, cand>> /\ installed' = [kind |-> "whole", list |-> mem]
  BY DEF FlowOK, RollbackOK, RollbackPCs, SaveRestored, history
<1>2. Touched(ProofBundle, cand) \subseteq Paths
  BY ProofBundleType, FilesOfType
     DEF TypeOK, SnapshotsOfAll, Touched, OwnedBy, MaybeBundle
<1>3. ASSUME NEW p \in Touched(ProofBundle, cand) PROVE files[p] = cand.files[p]
  <2>1. p \in Paths /\ cand.files[p] \in Contents
    BY <1>2 DEF TypeOK, SnapshotsOfAll
  <2>2. records[Pkg].saved[p] = cand.files[p]
    BY <2>1 DEF RecordDescribes, Pkg
  <2>3. p \in Captured(records[Pkg])
    BY <2>1, <2>2, SpecialDistinct DEF Captured, Contents
  <2> QED
    BY <1>1, <2>2, <2>3 DEF RestoredSoFar
<1>4. mem[PkgOf[ProofBundle]] = cand.prev
  BY <1>1 DEF RecordDescribes, Pkg
<1> QED
  BY <1>1, <1>3, <1>4 DEF Undone, Touched

\* A strict step of the self-test keeps to its own operation.
LEMMA RunningStep ==
    ASSUME TypeOK, FlowOK, SelfOK, Next, step \in 1..9, pc # "idle"
    PROVE  SelfOK'
<1>0. ControlOK /\ stage # "prepare"
  BY DEF FlowOK, SelfOK
<1>1. CASE /\ step = 1
           /\ StoreRecord \/ DeleteStale \/ BeginWrites \/ WriteFile
                 \/ EndWrites \/ SaveApplied
  <2>1. /\ UNCHANGED <<state, cur, ret, next, step, stage>> /\ pc # "state.save"
        /\ pc' \in InstallerPCs \cup {"apply.record"} \/ pc' = ret
    BY <1>1, Zenon
       DEF StoreRecord, DeleteStale, BeginWrites, WriteFile, EndWrites, SaveApplied,
           durable, locals, InstallerPCs
  <2> QED
    BY <1>1, <2>1, TestApplies
<1>2. CASE step = 5 /\ (RestoreFile \/ EndRestore)
  <2>1. /\ UNCHANGED <<state, cur, next, records, step, stage, cand>>
        /\ pc' \in RollbackPCs
    BY <1>2, Zenon DEF RestoreFile, EndRestore, durable, locals, history, RollbackPCs
  <2> QED
    BY <1>0, <1>2, <2>1
       DEF SelfOK, SelfApplies, SelfUpdates, SelfClears, RecordDescribes, RollbackPCs
<1>3. CASE step = 5 /\ SaveRestored
  <2>1. /\ UNCHANGED <<state, cur, next, records, step, stage, cand>>
        /\ pc' = "state.save" /\ pc = "rollback.list"
    BY <1>3 DEF SaveRestored, locals, history
  <2>2. /\ cur = ProofBundle
        /\ RecordDescribes(records[PkgOf[ProofBundle]], ProofBundle, cand)
    BY <1>3, <2>1 DEF SelfOK, SelfUpdates
  <2>3. Undone(cand, ProofBundle)'
    BY <1>3, <2>1, <2>2, RestoredIsUndone
  <2> QED
    BY <1>0, <1>3, <2>1, <2>3
       DEF SelfOK, SelfApplies, SelfUpdates, SelfClears, RecordDescribes
<1>4. CASE step \in 1..8 /\ SaveState
  BY <1>4, SavedStep
<1>5. CASE step \in 2..4 /\ SaveBoot
  <2>1. Return(next.phase = "pending") /\ UNCHANGED records /\ state' \in {state, next}
    BY <1>0, <1>5 DEF SaveBoot
  <2>2. Return(TRUE) \/ Return(FALSE)
    <3>1. (next.phase = "pending") \in {TRUE, FALSE}
      BY Zenon
    <3> QED
      BY <2>1, <3>1, Zenon
  <2>3. CASE Return(TRUE)
    <3>1. PICK k \in 1..8 : step = k /\ k \in 2..4
      BY <1>5
    <3>2. step' = k + 1 /\ pc' = "idle" /\ cand' = cand /\ stage' = stage
      BY <1>0, <2>3, <3>1, Between, Zenon
    <3>3. state.bundle = ProofBundle /\ next.bundle = ProofBundle
      BY <1>5 DEF SelfOK, SelfUpdates
    <3> QED
      BY <1>0, <2>1, <3>1, <3>2, <3>3
         DEF SelfOK, SelfApplies, SelfUpdates, SelfClears, RecordDescribes
  <2> QED
    BY <2>2, <2>3, TestFails, Zenon
<1>6. CASE Return(FALSE)
  BY <1>6, TestFails
<1>7. CASE EnterSession
  BY <1>7, SessionStep
<1>8. CASE step' = 0 /\ stage' = "off"
  BY <1>8, OutOfTest
<1> QED
  BY <1>0, <1>1, <1>2, <1>3, <1>4, <1>5, <1>6, <1>7, <1>8, RunningActions, Zenon

\* Every step keeps the self-test on its course or ends it.
LEMMA SelfStep ==
    ASSUME IInv, SelfOK, [Next]_vars
    PROVE  SelfOK'
<1>1. TypeOK /\ FlowOK /\ ControlOK
  BY DEF IInv, FlowOK
<1>2. CASE UNCHANGED vars
  BY <1>2 DEF vars, SelfOK, SelfApplies, SelfUpdates, SelfClears, Undone,
              RecordDescribes, ProofAvailable
<1>3. CASE Next
  BY <1>1, <1>3, OutsideStep, BetweenStep, RunningStep, Zenon
<1> QED
  BY <1>2, <1>3

\* A self-test that passes has undone what it did: the files that its bundle
\* touched, the installed list and the update state are those it found, however
\* many commands, failed writes and power losses came before it.
THEOREM SelfTestHolds == Spec => SelfTestLeavesNoTrace
<1>1. Init => SelfOK
  <2>1. Init => step = 0 /\ stage = "off"
    BY Zenon DEF Init
  <2>2. step = 0 => SelfApplies /\ SelfUpdates /\ SelfClears
    BY DEF SelfApplies, SelfUpdates, SelfClears
  <2> QED
    BY <2>1, <2>2, Zenon DEF SelfOK
<1>2. IInv /\ SelfOK /\ [Next]_vars => SelfOK'
  BY SelfStep
<1>3. IInv /\ SelfOK /\ [Next]_vars
        => [step = 9 /\ step' = 0 /\ stage' # "off"
              => Restored(cand, ProofBundle) /\ ProofAvailable(state')]_vars
  <2> SUFFICES ASSUME IInv, SelfOK, Next, step = 9, step' = 0, stage' # "off"
               PROVE  Restored(cand, ProofBundle) /\ ProofAvailable(state')
    OBVIOUS
  <2>1. /\ pc = "idle" /\ Undone(cand, ProofBundle)
        /\ state.phase = "none" /\ ~state.recovery
    BY DEF SelfOK, SelfClears
  <2>2. TamperedApply
    <3>1. TypeOK /\ ControlOK
      BY DEF IInv, FlowOK
    <3>2. ~EnterSession /\ ~Crash
      BY DEF EnterSession, Crash, PowerOff
    <3> QED
      BY <2>1, <3>1, <3>2, BetweenActions
  <2>3. UNCHANGED <<files, installed, mem, state>>
    BY <2>2 DEF TamperedApply, durable
  <2> QED
    BY <2>1, <2>3 DEF Restored, Undone, ProofAvailable
<1> QED
  BY <1>1, <1>2, <1>3, Invariance, PTL DEF Spec, SelfTestLeavesNoTrace

-----------------------------------------------------------------------------
(* The installed list and the files. *)

\* Nothing fails, no two packages own the same path, and the index lists a
\* package under its own name, which PackageManager verifies.
Orderly ==
    /\ ~WritesMayFail /\ MaxCrashes = 0
    /\ \A b, c \in Bundles : PkgOf[b] # PkgOf[c] => FilesOf[b] \cap FilesOf[c] = {}
    /\ \A k \in Pkgs : PkgOf[IndexBundle[k]] = k

\* Where the files of one package are in between, and where the list is.
ChangingPCs == {"apply.delete", "apply.write", "remove.file", "rollback.file"}
ListingPCs == {"apply.list", "remove.list", "rollback.list"}

\* The list that the next boot, or the running kernel, goes by.
ListNow == IF stage = "off" THEN installed.list ELSE mem

\* The paths and the versions of package k, and whether its files are whole.
Belongs(k, p) == \E b \in Bundles : PkgOf[b] = k /\ p \in FilesOf[b]
Versions(k) == {b \in Bundles : PkgOf[b] = k} \cup {NoBundle}
Intact(list, k) == \A p \in OwnedBy(list[k]) : files[p] = list[k]

\* The list on disk is the list in memory except just before it is saved.
ListOK ==
    /\ installed.kind = "whole"
    /\ \A k \in Pkgs : ListNow[k] \in Versions(k)
    /\ stage # "off" /\ pc \notin ListingPCs => installed.list = mem

\* Only the package that is being changed may have other files than its list
\* entry says.
IntactOK ==
    \A k \in Pkgs : \/ pc \in ChangingPCs /\ k = Pkg
                    \/ Intact(ListNow, k)

\* A rollback record holds a version of its package, complete, and only paths
\* of that package.
RecordOwn(k, rec) ==
    rec.kind = "whole" =>
        /\ rec.prev \in Versions(k)
        /\ \A p \in OwnedBy(rec.prev) : rec.saved[p] = rec.prev
        /\ \A p \in Captured(rec) : Belongs(k, p)

RecordsOK == \A k \in Pkgs : RecordOwn(k, records[k])

\* What the installer has still to do.
WorkOK ==
    /\ pc \in {"idle", "boot.save", "install.next", "apply.list"} => todo = {}
    /\ pc = "apply.delete" => \A p \in todo : Belongs(Pkg, p)
    /\ pc = "apply.write" => /\ todo \subseteq FilesOf[cur]
                             /\ \A p \in FilesOf[cur] \ todo : files[p] = cur
    /\ pc = "remove.file" => /\ mem[Pkg] = cur /\ todo \subseteq FilesOf[cur]
                             /\ \A p \in todo : files[p] = cur
    /\ pc = "rollback.file" => records[Pkg].kind = "whole"

\* The list, the files, the records and the work in hand agree.
FilesOK == ListOK /\ IntactOK /\ RecordsOK /\ WorkOK

\* A path of one package is in no version of another.
LEMMA OtherPackage ==
    ASSUME Orderly, NEW k \in Pkgs, NEW j \in Pkgs, j # k, NEW p, Belongs(k, p),
           NEW v \in Versions(j)
    PROVE  p \notin OwnedBy(v)
BY DEF Orderly, Belongs, Versions, OwnedBy

\* Records that nothing writes stay as good as they were.
LEMMA RecordsSame ==
    ASSUME RecordsOK, UNCHANGED records
    PROVE  RecordsOK'
BY DEF RecordsOK, RecordOwn, Captured, Belongs, OwnedBy, Versions

\* A step that leaves list and files alone, between operations.
LEMMA QuietFiles ==
    ASSUME ListOK, IntactOK, UNCHANGED <<files, installed, mem>>,
           stage # "off", stage' # "off", pc \notin ChangingPCs \cup ListingPCs
    PROVE  ListOK' /\ IntactOK'
<1>1. ListNow' = ListNow /\ ListNow = mem
  BY DEF ListNow
<1>2. ListOK'
  BY <1>1 DEF ListOK, Versions
<1>3. IntactOK'
  BY <1>1 DEF IntactOK, Intact, OwnedBy
<1> QED
  BY <1>2, <1>3

\* A step that writes one path of the package being changed.
LEMMA TouchFile ==
    ASSUME Orderly, PkgOf[cur] \in Pkgs, ListOK, IntactOK, RecordsOK,
           UNCHANGED <<installed, mem, records, cur, pc, stage>>,
           pc \in ChangingPCs, stage # "off", NEW p, Belongs(Pkg, p), NEW v,
           files' = [files EXCEPT ![p] = v]
    PROVE  ListOK' /\ IntactOK' /\ RecordsOK'
<1>1. ListNow' = ListNow /\ Pkg' = Pkg
  BY DEF ListNow, Pkg
<1>2. ListOK'
  BY <1>1 DEF ListOK, Versions
<1>3. ASSUME NEW k \in Pkgs, k # Pkg PROVE Intact(ListNow, k)'
  <2>1. Intact(ListNow, k) /\ ListNow[k] \in Versions(k)
    BY <1>3 DEF IntactOK, ListOK
  <2>2. p \notin OwnedBy(ListNow[k])
    BY <1>3, <2>1, OtherPackage DEF Pkg
  <2> QED
    BY <1>1, <2>1, <2>2 DEF Intact, OwnedBy
<1>4. IntactOK'
  BY <1>1, <1>3 DEF IntactOK
<1> QED
  BY <1>2, <1>4, RecordsSame

\* A step that enters in the list what the files of the package have become.
LEMMA EnterVersion ==
    ASSUME mem \in Lists, PkgOf[cur] \in Pkgs, ListOK, IntactOK, RecordsOK,
           UNCHANGED <<installed, files, records, cur, stage>>,
           pc \in ChangingPCs, pc' \in ListingPCs, stage # "off",
           NEW v \in Versions(Pkg), \A p \in OwnedBy(v) : files[p] = v,
           mem' = [mem EXCEPT ![Pkg] = v]
    PROVE  ListOK' /\ IntactOK' /\ RecordsOK'
<1>1. /\ ListNow = mem /\ ListNow' = mem' /\ mem'[Pkg] = v
      /\ \A k \in Pkgs : k # Pkg => mem'[k] = mem[k]
  BY DEF ListNow, Lists, Pkg
<1>2. ListOK'
  BY <1>1 DEF ListOK, Versions
<1>3. ASSUME NEW k \in Pkgs PROVE Intact(ListNow, k)'
  <2>1. CASE k = Pkg
    BY <1>1, <2>1 DEF Intact, OwnedBy
  <2>2. CASE k # Pkg
    BY <1>1, <2>2 DEF IntactOK, Intact, OwnedBy
  <2> QED
    BY <2>1, <2>2
<1> QED
  BY <1>2, <1>3, RecordsSame DEF IntactOK

\* A step that saves the list.
LEMMA SaveList ==
    ASSUME ListOK, IntactOK, RecordsOK, UNCHANGED <<mem, files, records>>,
           pc \in ListingPCs, stage # "off", stage' # "off",
           installed' = [kind |-> "whole", list |-> mem]
    PROVE  ListOK' /\ IntactOK' /\ RecordsOK'
<1>1. ListNow' = ListNow /\ ListNow = mem /\ pc \notin ChangingPCs
  BY DEF ListNow, ListingPCs, ChangingPCs
<1>2. ListOK'
  BY <1>1 DEF ListOK, Versions
<1>3. IntactOK'
  BY <1>1 DEF IntactOK, Intact, OwnedBy
<1> QED
  BY <1>2, <1>3, RecordsSame

\* The steps of an apply.
LEMMA ApplyFiles ==
    ASSUME Orderly, TypeOK, ControlOK, FilesOK,
           StoreRecord \/ DeleteStale \/ BeginWrites \/ WriteFile \/ EndWrites
              \/ SaveApplied
    PROVE  FilesOK'
<1>1. /\ stage # "off" /\ cur \in Bundles /\ Pkg \in Pkgs /\ cur \in Versions(Pkg)
      /\ PkgOf[cur] \in Pkgs /\ FilesOf[cur] \in SUBSET Paths
      /\ \A p \in FilesOf[cur] : Belongs(Pkg, p)
      /\ mem[Pkg] \in Versions(Pkg)
  <2>1. stage # "off" /\ cur \in Bundles
    BY DEF ControlOK, StoreRecord, DeleteStale, BeginWrites, WriteFile, EndWrites,
           SaveApplied, InstallerPCs
  <2> QED
    BY <2>1, PkgOfType, FilesOfType DEF Pkg, Versions, Belongs, FilesOK, ListOK, ListNow
<1>2. ListOK /\ IntactOK /\ RecordsOK /\ WorkOK
  BY DEF FilesOK
<1>3. CASE StoreRecord
  <2>1. /\ UNCHANGED <<files, installed, mem, cur, stage>> /\ pc = "apply.record"
        /\ pc' = "apply.delete" /\ records' = [records EXCEPT ![Pkg] = Capture(cur)]
        /\ todo' = OwnedBy(mem[Pkg]) \ FilesOf[cur]
    BY <1>3 DEF StoreRecord
  <2>2. ListOK' /\ IntactOK'
    BY <1>1, <1>2, <2>1, QuietFiles DEF ChangingPCs, ListingPCs
  <2>3. RecordOwn(Pkg, Capture(cur))
    <3>1. \A p \in OwnedBy(mem[Pkg]) : files[p] = mem[Pkg]
      BY <1>1, <1>2, <2>1 DEF IntactOK, Intact, ListNow, ChangingPCs
    <3>2. \A p \in OwnedBy(mem[Pkg]) : p \in Paths /\ Belongs(Pkg, p)
      BY <1>1, FilesOfType DEF Versions, OwnedBy, Belongs
    <3> QED
      BY <1>1, <3>1, <3>2 DEF RecordOwn, Capture, Captured, Pkg
  <2>4. RecordsOK'
    <3>1. \A k \in Pkgs : RecordOwn(k, records'[k])
      BY <1>1, <1>2, <2>1, <2>3 DEF RecordsOK, TypeOK
    <3> QED
      BY <3>1 DEF RecordsOK, RecordOwn, Captured, Belongs, OwnedBy, Versions
  <2>5. WorkOK'
    <3>1. \A p \in OwnedBy(mem[Pkg]) : Belongs(Pkg, p)
      BY <1>1 DEF Versions, OwnedBy, Belongs
    <3> QED
      BY <2>1, <3>1 DEF WorkOK, Pkg, Belongs
  <2> QED
    BY <2>2, <2>4, <2>5, SMTT(30) DEF FilesOK
<1>4. CASE DeleteStale
  <2>1. PICK p \in todo : files' = [files EXCEPT ![p] = Absent] /\ todo' = todo \ {p}
    BY <1>4, Zenon DEF DeleteStale
  <2>2. pc = "apply.delete" /\ UNCHANGED <<installed, records, mem, pc, cur, stage>>
    BY <1>4 DEF DeleteStale
  <2>3. Belongs(Pkg, p)
    BY <1>2, <2>2 DEF WorkOK
  <2>4. ListOK' /\ IntactOK' /\ RecordsOK'
    BY <1>1, <1>2, <2>1, <2>2, <2>3, TouchFile, Zenon DEF ChangingPCs
  <2>5. WorkOK'
    BY <1>2, <2>1, <2>2 DEF WorkOK, Belongs, Pkg
  <2> QED
    BY <2>4, <2>5 DEF FilesOK
<1>5. CASE BeginWrites
  <2>1. /\ pc = "apply.delete" /\ pc' = "apply.write" /\ todo' = FilesOf[cur]
        /\ UNCHANGED <<files, installed, records, mem, cur, stage>>
    BY <1>5 DEF BeginWrites, durable
  <2>2. ListOK'
    BY <1>2, <2>1 DEF ListOK, ListNow, ListingPCs, Versions
  <2>3. IntactOK'
    BY <1>2, <2>1 DEF IntactOK, Intact, ListNow, ChangingPCs, OwnedBy, Pkg
  <2>4. WorkOK'
    BY <2>1 DEF WorkOK
  <2> QED
    BY <1>2, <2>1, <2>2, <2>3, <2>4, RecordsSame DEF FilesOK
<1>6. CASE WriteFile
  <2>1. PICK p \in todo : files' = [files EXCEPT ![p] = cur] /\ todo' = todo \ {p}
    BY <1>6, Zenon DEF WriteFile
  <2>2. pc = "apply.write" /\ UNCHANGED <<installed, records, mem, pc, cur, stage>>
    BY <1>6 DEF WriteFile
  <2>3. Belongs(Pkg, p)
    BY <1>1, <1>2, <2>2 DEF WorkOK
  <2>4. ListOK' /\ IntactOK' /\ RecordsOK'
    BY <1>1, <1>2, <2>1, <2>2, <2>3, TouchFile, Zenon DEF ChangingPCs
  <2>5. WorkOK'
    BY <1>1, <1>2, <2>1, <2>2 DEF WorkOK, TypeOK
  <2> QED
    BY <2>4, <2>5 DEF FilesOK
<1>7. CASE EndWrites
  <2>1. /\ pc = "apply.write" /\ todo = {} /\ pc' = "apply.list"
        /\ mem' = [mem EXCEPT ![Pkg] = cur]
        /\ UNCHANGED <<files, installed, records, cur, stage, todo>>
    BY <1>7 DEF EndWrites, durable, locals
  <2>2. \A p \in OwnedBy(cur) : files[p] = cur
    BY <1>1, <1>2, <2>1, NoBundleNew DEF WorkOK, OwnedBy
  <2>3. ListOK' /\ IntactOK' /\ RecordsOK'
    BY <1>1, <1>2, <2>1, <2>2, EnterVersion, Zenon DEF ChangingPCs, ListingPCs, TypeOK
  <2>4. WorkOK'
    BY <2>1 DEF WorkOK
  <2> QED
    BY <2>3, <2>4 DEF FilesOK
<1>8. CASE SaveApplied
  <2>1. /\ pc = "apply.list" /\ pc' = ret /\ todo' = todo
        /\ installed' = [kind |-> "whole", list |-> mem]
        /\ UNCHANGED <<files, mem, records, stage>>
    BY <1>8 DEF SaveApplied, locals
  <2>2. ret \in {"state.save", "install.next"} /\ todo = {}
    BY <1>2, <2>1 DEF ControlOK, InstallerPCs, WorkOK
  <2>3. ListOK' /\ IntactOK' /\ RecordsOK'
    BY <1>1, <1>2, <2>1, SaveList DEF ListingPCs
  <2>4. WorkOK'
    BY <2>1, <2>2 DEF WorkOK
  <2> QED
    BY <2>3, <2>4 DEF FilesOK
<1> QED
  BY <1>3, <1>4, <1>5, <1>6, <1>7, <1>8

\* The steps of a rollback.
LEMMA RollbackFiles ==
    ASSUME Orderly, TypeOK, ControlOK, RollbackOK, FilesOK,
           RestoreFile \/ EndRestore \/ SaveRestored
    PROVE  FilesOK'
<1>1. /\ stage # "off" /\ Pkg \in Pkgs /\ PkgOf[cur] \in Pkgs
      /\ ListOK /\ IntactOK /\ RecordsOK /\ WorkOK
  <2>1. stage # "off" /\ cur \in Bundles
    BY DEF ControlOK, RestoreFile, EndRestore, SaveRestored, RollbackPCs
  <2> QED
    BY <2>1, PkgOfType DEF Pkg, FilesOK
<1>2. ASSUME pc = "rollback.file"
      PROVE  /\ records[Pkg].prev \in Versions(Pkg)
             /\ \A p \in OwnedBy(records[Pkg].prev) :
                   records[Pkg].saved[p] = records[Pkg].prev
             /\ \A p \in Captured(records[Pkg]) : Belongs(Pkg, p)
  BY <1>1, <1>2 DEF WorkOK, RecordsOK, RecordOwn
<1>3. CASE RestoreFile
  <2>1. PICK p \in todo : /\ files' = [files EXCEPT ![p] = records[Pkg].saved[p]]
                          /\ todo' = todo \ {p}
    BY <1>3, Zenon DEF RestoreFile
  <2>2. pc = "rollback.file" /\ UNCHANGED <<installed, records, mem, pc, cur, stage>>
    BY <1>3 DEF RestoreFile
  <2>3. Belongs(Pkg, p)
    BY <1>2, <2>2 DEF ControlOK
  <2>4. ListOK' /\ IntactOK' /\ RecordsOK'
    BY <1>1, <2>1, <2>2, <2>3, TouchFile, Zenon DEF ChangingPCs
  <2>5. WorkOK'
    BY <1>1, <2>2 DEF WorkOK, Pkg
  <2> QED
    BY <2>4, <2>5 DEF FilesOK
<1>4. CASE EndRestore
  <2> DEFINE v == records[Pkg].prev
  <2>1. /\ pc = "rollback.file" /\ todo = {} /\ pc' = "rollback.list"
        /\ mem' = [mem EXCEPT ![Pkg] = v]
        /\ UNCHANGED <<files, installed, records, cur, stage>>
    BY <1>4 DEF EndRestore, durable, locals
  <2>2. ASSUME NEW p \in OwnedBy(v) PROVE files[p] = v
    <3>1. v \in Bundles /\ p \in Paths
      BY <1>2, <2>1, FilesOfType DEF Versions, OwnedBy
    <3>2. records[Pkg].saved[p] = v
      BY <1>2, <2>1
    <3>3. p \in Captured(records[Pkg])
      BY <3>1, <3>2, SpecialDistinct DEF Captured
    <3> QED
      BY <2>1, <3>2, <3>3 DEF RollbackOK, RollbackPCs, RestoredSoFar
  <2>3. v \in Versions(Pkg)
    BY <1>2, <2>1
  <2> HIDE DEF v
  <2>4. ListOK' /\ IntactOK' /\ RecordsOK'
    BY <1>1, <2>1, <2>2, <2>3, EnterVersion, Zenon DEF ChangingPCs, ListingPCs, TypeOK
  <2>5. WorkOK'
    BY <2>1 DEF WorkOK
  <2> QED
    BY <2>4, <2>5 DEF FilesOK
<1>5. CASE SaveRestored
  <2>1. /\ pc = "rollback.list" /\ pc' = "state.save"
        /\ installed' = [kind |-> "whole", list |-> mem]
        /\ UNCHANGED <<files, mem, records, stage>>
    BY <1>5 DEF SaveRestored
  <2>2. ListOK' /\ IntactOK' /\ RecordsOK'
    BY <1>1, <2>1, SaveList DEF ListingPCs
  <2>3. WorkOK'
    BY <2>1 DEF WorkOK
  <2> QED
    BY <2>2, <2>3 DEF FilesOK
<1> QED
  BY <1>3, <1>4, <1>5

\* The steps of a removal: no file of the package is missing.
LEMMA RemoveFiles ==
    ASSUME Orderly, TypeOK, ControlOK, FilesOK, RemoveFile \/ EndRemove \/ SaveRemoved
    PROVE  FilesOK'
<1>1. /\ stage # "off" /\ ListOK /\ IntactOK /\ RecordsOK /\ WorkOK
  BY Zenon DEF ControlOK, RemoveFile, EndRemove, SaveRemoved, FilesOK
<1>2. ASSUME pc = "remove.file"
      PROVE  cur \in Bundles /\ Pkg \in Pkgs /\ PkgOf[cur] \in Pkgs
  BY <1>2, PkgOfType DEF ControlOK, Pkg
<1>3. CASE RemoveFile
  <2>1. pc = "remove.file" /\ UNCHANGED <<installed, records, mem>>
    BY <1>3 DEF RemoveFile
  <2>2. \A p \in todo : files[p] # Absent
    BY <1>1, <1>2, <2>1, SpecialDistinct DEF WorkOK
  <2>3. PICK p \in todo : /\ files' = [files EXCEPT ![p] = Absent] /\ todo' = todo \ {p}
                          /\ UNCHANGED <<pc, cur, stage>>
    BY <1>3, <2>2, Zenon DEF RemoveFile
  <2>4. Belongs(Pkg, p)
    BY <1>1, <1>2, <2>1 DEF WorkOK, Belongs, Pkg
  <2>5. ListOK' /\ IntactOK' /\ RecordsOK'
    BY <1>1, <1>2, <2>1, <2>3, <2>4, TouchFile, Zenon DEF ChangingPCs
  <2>6. WorkOK'
    BY <1>1, <2>1, <2>3 DEF WorkOK, Pkg, TypeOK
  <2> QED
    BY <2>5, <2>6 DEF FilesOK
<1>4. CASE EndRemove
  <2>1. /\ pc = "remove.file" /\ pc' = "remove.list"
        /\ mem' = [mem EXCEPT ![Pkg] = NoBundle]
        /\ UNCHANGED <<files, installed, records, cur, stage>>
    BY <1>4 DEF EndRemove, durable, locals
  <2>2. NoBundle \in Versions(Pkg) /\ \A p \in OwnedBy(NoBundle) : files[p] = NoBundle
    BY DEF Versions, OwnedBy
  <2>3. ListOK' /\ IntactOK' /\ RecordsOK'
    BY <1>1, <1>2, <2>1, <2>2, EnterVersion, Zenon DEF ChangingPCs, ListingPCs, TypeOK
  <2>4. WorkOK'
    BY <2>1 DEF WorkOK
  <2> QED
    BY <2>3, <2>4 DEF FilesOK
<1>5. CASE SaveRemoved
  <2>1. /\ pc = "remove.list" /\ pc' = "idle" /\ todo' = {}
        /\ installed' = [kind |-> "whole", list |-> mem]
        /\ UNCHANGED <<files, mem, records>>
        /\ stage' \in {stage, "first"}
    BY <1>5 DEF SaveRemoved, Return
  <2>2. ListOK' /\ IntactOK' /\ RecordsOK'
    BY <1>1, <2>1, SaveList DEF ListingPCs
  <2>3. WorkOK'
    BY <2>1 DEF WorkOK
  <2> QED
    BY <2>2, <2>3 DEF FilesOK
<1> QED
  BY <1>3, <1>4, <1>5

\* Steps that change neither the files nor the lists, and the paths they leave
\* to be done.
Quiet ==
    /\ UNCHANGED <<files, installed, records, mem>>
    /\ pc \in {"idle", "stage.write", "state.save", "boot.save", "install.next"}
    /\ stage # "off" /\ stage' # "off"

NothingToDo ==
    \/ pc' \in {"stage.write", "apply.record", "state.save"}
    \/ /\ pc' \in {"idle", "boot.save", "install.next", "apply.delete"}
       /\ \/ todo' = {}
          \/ todo' = todo /\ pc \in {"idle", "boot.save", "install.next"}

\* Quiet steps keep the agreement.
LEMMA QuietStep ==
    ASSUME FilesOK, Quiet, NothingToDo
    PROVE  FilesOK'
<1>1. ListOK' /\ IntactOK'
  BY QuietFiles DEF FilesOK, Quiet, ChangingPCs, ListingPCs
<1>2. RecordsOK'
  BY RecordsSame DEF FilesOK, Quiet
<1>3. WorkOK'
  BY DEF FilesOK, WorkOK, NothingToDo
<1> QED
  BY <1>1, <1>2, <1>3 DEF FilesOK

\* A return leaves nothing to do.
LEMMA ReturnQuiet ==
    ASSUME stage # "off", NEW ok, Return(ok)
    PROVE  NothingToDo /\ stage' # "off"
<1>1. pc' = "idle" /\ todo' = {} /\ stage' \in {stage, "first"}
  BY Zenon DEF Return
<1> QED
  BY <1>1 DEF NothingToDo

\* So does a command that is refused, or that only edits the state file.
LEMMA RefuseQuiet ==
    ASSUME stage # "off", pc = "idle", Refuse
    PROVE  Quiet /\ NothingToDo
BY ReturnQuiet, Zenon DEF Refuse, Quiet, durable

LEMMA SaveQuiet ==
    ASSUME stage # "off", pc = "idle", NEW s, BeginSave(s)
    PROVE  Quiet /\ NothingToDo
BY Zenon DEF BeginSave, Quiet, NothingToDo, durable

\* The steps of Work that are quiet.
LEMMA QuietWork ==
    ASSUME ControlOK,
           WriteStaged \/ SaveState \/ InstallNext \/ InstallDone \/ PrepareBoot
              \/ SaveBoot \/ NoteShellReady
    PROVE  Quiet /\ NothingToDo
<1>1. stage # "off"
  <2>1. ProofRuns("prepare") \/ ProofRuns("ready") => stage # "off"
    BY DEF ProofRuns, ControlOK
  <2>2. PrepareBoot \/ NoteShellReady => stage # "off"
    BY <2>1 DEF PrepareBoot, NoteShellReady
  <2> QED
    BY <2>2, Zenon
       DEF ControlOK, WriteStaged, SaveState, InstallNext, InstallDone, SaveBoot
<1>2. CASE WriteStaged
  BY <1>1, <1>2 DEF WriteStaged, Quiet, NothingToDo
<1>3. CASE SaveState
  BY <1>1, <1>3, ReturnQuiet, Zenon DEF SaveState, Quiet
<1>4. CASE InstallNext
  BY <1>1, <1>4 DEF InstallNext, Quiet, NothingToDo, durable
<1>5. CASE InstallDone
  BY <1>1, <1>5, ReturnQuiet, Zenon DEF InstallDone, Quiet, durable
<1>6. CASE PrepareBoot
  BY <1>1, <1>6 DEF PrepareBoot, AfterPrepare, Quiet, NothingToDo, durable
<1>7. CASE SaveBoot
  <2>1. /\ UNCHANGED <<files, installed, records, mem>> /\ pc = "boot.save"
        /\ \/ stage' = "ready" /\ pc' = "idle" /\ todo' = todo
           \/ Return(next.phase = "pending")
    BY <1>7, Zenon DEF SaveBoot, AfterPrepare
  <2>2. NothingToDo /\ stage' # "off"
    <3>1. CASE stage' = "ready" /\ pc' = "idle" /\ todo' = todo
      BY <2>1, <3>1 DEF NothingToDo
    <3>2. CASE Return(next.phase = "pending")
      BY <1>1, <3>2, ReturnQuiet, Zenon
    <3> QED
      BY <2>1, <3>1, <3>2
  <2> QED
    BY <1>1, <2>1, <2>2 DEF Quiet
<1>8. CASE NoteShellReady
  BY <1>1, <1>8, RefuseQuiet, SaveQuiet, Zenon DEF NoteShellReady
<1> QED
  BY <1>2, <1>3, <1>4, <1>5, <1>6, <1>7, <1>8

\* Every command but a removal, a rollback, a new session and a reboot.
LEMMA QuietCommand ==
    ASSUME ControlOK, Command,
           \A p \in Pkgs : ~Remove(p), ~Rollback, ~EnterSession, ~Reboot
    PROVE  Quiet /\ NothingToDo
<1>1. ASSUME NEW op, CanRun(op) \/ ProofRuns(op) \/ ShellIdle
      PROVE  stage # "off" /\ pc = "idle"
  BY <1>1 DEF CanRun, ProofRuns, ShellIdle, ControlOK
<1>2. ShellIdle => stage # "off" /\ pc = "idle"
  BY DEF ShellIdle
<1>3. ASSUME NEW b, StageBundle(b) PROVE Quiet /\ NothingToDo
  BY <1>2, <1>3 DEF StageBundle, Quiet, NothingToDo, durable
<1>4. ASSUME stage # "off", pc = "idle", NEW b, NEW f, BeginApply(b, f)
      PROVE  Quiet /\ NothingToDo
  BY <1>4 DEF BeginApply, Quiet, NothingToDo, durable
<1>5. ASSUME NEW b, ApplyBundle(b) PROVE Quiet /\ NothingToDo
  BY <1>1, <1>2, <1>4, <1>5, Zenon DEF ApplyBundle
<1>6. ApplyStaged => Quiet /\ NothingToDo
  BY <1>2, <1>4, Zenon DEF ApplyStaged
<1>7. Confirm \/ Reject \/ ClearCompleted \/ RequestRecovery \/ ClearRecovery
        => Quiet /\ NothingToDo
  BY <1>1, <1>2, RefuseQuiet, SaveQuiet, ZenonT(30)
     DEF Confirm, Reject, ClearCompleted, RequestRecovery, ClearRecovery
<1>8. TamperedApply => Quiet /\ NothingToDo
  <2> SUFFICES ASSUME TamperedApply PROVE Quiet /\ NothingToDo
    OBVIOUS
  <2>1. stage # "off" /\ pc = "idle"
    BY <1>1, Zenon DEF TamperedApply
  <2> QED
    BY <2>1, ReturnQuiet, Zenon DEF TamperedApply, Quiet, durable
<1>9. RunProof \/ Logout => Quiet /\ NothingToDo
  BY <1>2 DEF RunProof, Logout, Quiet, NothingToDo, durable, locals
<1>10. ASSUME NEW p, Install(p) PROVE Quiet /\ NothingToDo
  BY <1>2, <1>10 DEF Install, Quiet, NothingToDo, durable
<1> QED
  BY <1>3, <1>5, <1>6, <1>7, <1>8, <1>9, <1>10, Zenon DEF Command

\* installer::remove starts from the files of the installed version.
LEMMA RemoveBegins ==
    ASSUME FilesOK, NEW k \in Pkgs, Remove(k)
    PROVE  FilesOK'
<1>1. /\ pc = "idle" /\ stage # "off" /\ mem[k] # NoBundle
      /\ pc' = "remove.file" /\ cur' = mem[k] /\ todo' = FilesOf[mem[k]]
      /\ UNCHANGED <<files, installed, records, mem, stage>>
  BY DEF Remove, ShellIdle, durable
<1>2. ListOK /\ IntactOK /\ RecordsOK
  BY DEF FilesOK
<1>3. ListOK' /\ IntactOK' /\ RecordsOK'
  BY <1>1, <1>2, QuietFiles, RecordsSame DEF ChangingPCs, ListingPCs
<1>4. PkgOf[mem[k]] = k /\ \A p \in FilesOf[mem[k]] : files[p] = mem[k]
  BY <1>1, <1>2
     DEF ListOK, IntactOK, Intact, ListNow, Versions, OwnedBy, ChangingPCs
<1>5. WorkOK'
  BY <1>1, <1>4 DEF WorkOK, Pkg
<1> QED
  BY <1>3, <1>5 DEF FilesOK

\* rollback_current_update starts from a record that it could read.
LEMMA RollbackBegins ==
    ASSUME ControlOK, FilesOK, Rollback
    PROVE  FilesOK'
<1>1. pc = "idle" /\ stage # "off"
  BY DEF Rollback, CanRun, ShellIdle, ProofRuns, ControlOK
<1>2. CASE Refuse
  BY <1>1, <1>2, RefuseQuiet, QuietStep
<1>3. CASE ~Refuse
  <2>1. /\ pc' = "rollback.file" /\ cur' = state.bundle
        /\ records[PkgOf[state.bundle]].kind = "whole"
        /\ UNCHANGED <<files, installed, records, mem, stage>>
    BY <1>3 DEF Rollback, CanRollback, durable
  <2>2. ListOK' /\ IntactOK' /\ RecordsOK'
    BY <1>1, <2>1, QuietFiles, RecordsSame DEF FilesOK, ChangingPCs, ListingPCs
  <2>3. WorkOK'
    BY <2>1 DEF WorkOK, Pkg
  <2> QED
    BY <2>2, <2>3 DEF FilesOK
<1> QED
  BY <1>2, <1>3

\* Switching off and booting keep the list that counts.
LEMMA PowerFiles ==
    ASSUME ControlOK, FilesOK, Boot \/ Reboot
    PROVE  FilesOK'
<1>1. /\ pc = "idle" /\ pc' = "idle" /\ todo' = {}
      /\ UNCHANGED <<files, installed, records>>
      /\ installed.kind = "whole" /\ ListNow' = installed.list
      /\ stage' # "off" => mem' = installed.list
  BY DEF ControlOK, FilesOK, ListOK, WorkOK, Boot, Reboot, PowerOff, ShellIdle, durable,
         locals, ListNow
<1>2. ListNow = installed.list
  BY <1>1 DEF FilesOK, ListOK, ListNow, ListingPCs
<1>3. ListOK'
  BY <1>1, <1>2 DEF FilesOK, ListOK, Versions
<1>4. IntactOK'
  BY <1>1, <1>2 DEF FilesOK, IntactOK, Intact, OwnedBy, ChangingPCs
<1>5. WorkOK'
  BY <1>1 DEF WorkOK
<1> QED
  BY <1>1, <1>3, <1>4, <1>5, RecordsSame DEF FilesOK

\* Nothing that the invariant speaks of changes.
LEMMA SameFiles ==
    ASSUME FilesOK, UNCHANGED <<files, installed, records, mem, pc, cur, todo>>,
           (stage' = "off") <=> (stage = "off")
    PROVE  FilesOK'
<1>1. ListNow' = ListNow /\ Pkg' = Pkg
  BY DEF ListNow, Pkg
<1>2. ListOK' /\ IntactOK'
  BY <1>1 DEF FilesOK, ListOK, IntactOK, Intact, OwnedBy, Versions
<1>3. WorkOK'
  BY <1>1 DEF FilesOK, WorkOK, Belongs
<1> QED
  BY <1>2, <1>3, RecordsSame DEF FilesOK

\* Every step keeps list, files and records in agreement.
LEMMA FilesStep ==
    ASSUME Orderly, IInv, FilesOK, [Next]_vars
    PROVE  FilesOK'
<1>1. TypeOK /\ ControlOK /\ RollbackOK
  BY DEF IInv, FlowOK
<1>2. CASE UNCHANGED vars
  BY <1>2, SameFiles DEF vars
<1>3. CASE Work
  <2>1. ~WriteFails
    BY Zenon DEF Orderly, WriteFails
  <2> QED
    BY <1>1, <1>3, <2>1, ApplyFiles, RollbackFiles, RemoveFiles, QuietWork,
       QuietStep, Zenon DEF Work
<1>4. CASE Command
  <2>1. EnterSession => FilesOK'
    <3>1. EnterSession => /\ UNCHANGED <<files, installed, records, mem, pc, cur, todo>>
                          /\ stage # "off" /\ stage' # "off"
      BY DEF EnterSession, durable, locals
    <3> QED
      BY <3>1, SameFiles
  <2> QED
    BY <1>1, <1>4, <2>1, RemoveBegins, RollbackBegins, PowerFiles, QuietCommand,
       QuietStep, Zenon
<1>5. CASE Boot
  BY <1>1, <1>5, PowerFiles
<1>6. ~Crash /\ ~CrashTorn
  <2>1. ~(crashes < MaxCrashes)
    BY <1>1 DEF Orderly, TypeOK
  <2> QED
    BY <2>1, Zenon DEF Crash, CrashTorn
<1> QED
  BY <1>2, <1>3, <1>4, <1>5, <1>6 DEF Next

\* The installed list tells the truth about the files through every sequence of
\* installs, removals, updates, rollbacks, self-tests and reboots, as long as no
\* write fails, the power holds and no two packages own the same path.
THEOREM InstalledFilesHold ==
    ASSUME Orderly
    PROVE  Spec => []InstalledFilesIntact
<1>1. Init => FilesOK
  <2> SUFFICES ASSUME Init PROVE FilesOK
    OBVIOUS
  <2>1. ListOK /\ IntactOK
    BY DEF Init, ListOK, IntactOK, Intact, ListNow, EmptyList, Versions, OwnedBy,
           ListingPCs
  <2>2. RecordsOK
    BY DEF Init, RecordsOK, RecordOwn, NoRecord
  <2>3. WorkOK
    BY DEF Init, WorkOK
  <2> QED
    BY <2>1, <2>2, <2>3 DEF FilesOK
<1>2. IInv /\ FilesOK /\ [Next]_vars => FilesOK'
  BY FilesStep
<1>3. FilesOK => InstalledFilesIntact
  BY DEF FilesOK, IntactOK, Intact, ListNow, ChangingPCs, InstalledFilesIntact
<1> QED
  BY <1>1, <1>2, <1>3, Invariance, PTL DEF Spec

=============================================================================
