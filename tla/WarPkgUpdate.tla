---------------------------- MODULE WarPkgUpdate ----------------------------
(***************************************************************************)
(* The WarPkg offline-update transaction: staging, applying, boot health,  *)
(* confirmation, rollback and recovery (kernel/src/pkg/update.rs), the     *)
(* installer and package manager that change the same files                *)
(* (pkg/installer.rs, pkg/mod.rs), the self-test run at every idle boot    *)
(* (pkg/smoke.rs) and the boot sequence that calls them (main.rs).         *)
(*                                                                         *)
(* Each write to WarFS is one step, because each one reaches the disk on   *)
(* its own and power can be lost between any two.  A crash in front of a   *)
(* write may leave that file torn: the disk layer rewrites data blocks in  *)
(* place before it rewrites the directory entry (disk/persist.rs), so a    *)
(* reader can find bytes that parse as neither the old nor the new file.   *)
(*                                                                         *)
(* A file's contents are named by the bundle that wrote them.              *)
(***************************************************************************)
EXTENDS Integers, Sequences, FiniteSets

CONSTANTS
    Paths,          \* file paths that packages own
    Pkgs,           \* package names
    Bundles,        \* signed bundles, one per package version
    PkgOf,          \* manifest.name of a bundle
    FilesOf,        \* the paths in manifest.files of a bundle
    IndexBundle,    \* the bundle the package index offers for a package
    InstallOrder,   \* resolve_dependencies(index, p), a sequence of packages
    ProofBundle,    \* the bundle the boot self-test applies (hello-world)
    NoBundle,       \* None, for an Option over bundles
    Absent,         \* contents of a path with no file
    Local,          \* contents not written by any bundle
    Torn,           \* contents left by an interrupted write
    NotCaptured,    \* a path a rollback record says nothing about
    WritesMayFail,  \* whether WarFS may refuse a write (capacity, read-only)
    WritesMayTear,  \* whether a crash may leave the file being written torn
    MaxCrashes      \* bound: power losses

ASSUME PkgOfType == PkgOf \in [Bundles -> Pkgs]
ASSUME FilesOfType == FilesOf \in [Bundles -> SUBSET Paths]
ASSUME IndexType == IndexBundle \in [Pkgs -> Bundles]
ASSUME OrderType == InstallOrder \in [Pkgs -> Seq(Pkgs)]
ASSUME ProofBundleType == ProofBundle \in Bundles
ASSUME NoBundleNew == NoBundle \notin Bundles
ASSUME SpecialDistinct ==
    /\ {Absent, Local, Torn, NotCaptured} \cap Bundles = {}
    /\ Absent # Local /\ Absent # Torn /\ Local # Torn
    /\ NotCaptured \notin {Absent, Local, Torn}
ASSUME FlagsType == WritesMayFail \in BOOLEAN /\ WritesMayTear \in BOOLEAN
ASSUME MaxCrashesType == MaxCrashes \in Nat

VARIABLES
    files,      \* durable: contents of every path
    installed,  \* durable: /var/pkg/installed.json, a list or Torn
    records,    \* durable: /var/pkg/rollback/<name>.json
    staged,     \* durable: bundles with a whole copy under /var/pkg/staged
    state,      \* durable: /var/pkg/update-state.json
    mem,        \* volatile: PackageManager.installed
    pc,         \* volatile: the next write of the running operation
    ret,        \* volatile: where apply_verified_bundle returns to
    cur,        \* volatile: the bundle the running operation works on
    todo,       \* volatile: the paths it has still to write or delete
    queue,      \* volatile: packages PackageManager::install has yet to visit
    next,       \* volatile: the UpdateState the operation will save
    step,       \* volatile: position in the self-test, 0 when not running
    stage,      \* volatile: how far the boot has come
    crashes,    \* power losses so far
    cand,       \* history: the files when the running stage or apply began
    pre,        \* history: the files when the current transaction began
    checks      \* history: boots since the last apply whose health check was
                \* saved, counted up to CheckCap

durable == <<files, installed, records, staged, state>>
history == <<cand, pre, checks>>
locals == <<ret, cur, todo, queue, next>>
vars == <<files, installed, records, staged, state, mem, pc, ret, cur, todo,
          queue, next, step, stage, crashes, cand, pre, checks>>

-----------------------------------------------------------------------------
(* The persisted values. *)

Contents == Bundles \cup {Absent, Local, Torn}
MaybeBundle == Bundles \cup {NoBundle}
Lists == [Pkgs -> MaybeBundle]
EmptyList == [p \in Pkgs |-> NoBundle]
NoList == [kind |-> "torn", list |-> EmptyList]
ListFile == [kind : {"torn", "whole"}, list : Lists]

\* UpdatePhase, with "none" for current = None and "corrupt" for a state file
\* that load_state cannot parse.
Phases == {"none", "staged", "pending", "confirmed", "failed", "rolledback",
           "corrupt"}

\* UpdateState with its UpdateTransaction flattened in.
States == [phase : Phases, bundle : MaybeBundle, isStaged : BOOLEAN,
           started : BOOLEAN, observed : BOOLEAN, recovery : BOOLEAN]

DefaultState == [phase |-> "none", bundle |-> NoBundle, isStaged |-> FALSE,
                 started |-> FALSE, observed |-> FALSE, recovery |-> FALSE]
CorruptState == [DefaultState EXCEPT !.phase = "corrupt"]

\* RollbackRecord: no file yet, a file that does not parse, or a whole one.
Snapshots == [Paths -> Contents \cup {NotCaptured}]
RecordFile == [kind : {"none", "torn", "whole"}, prev : MaybeBundle,
               saved : Snapshots]
NoRecord == [kind |-> "none", prev |-> NoBundle,
             saved |-> [p \in Paths |-> NotCaptured]]
TornRecord == [NoRecord EXCEPT !.kind = "torn"]

\* The files of an Option<InstalledPackage>.
OwnedBy(b) == IF b = NoBundle THEN {} ELSE FilesOf[b]

\* Mutant: forgets the files only the previous version has.
BugCaptureNewOnly(b) ==
    [kind |-> "whole", prev |-> mem[PkgOf[b]],
     saved |-> [p \in Paths |->
                  IF p \in FilesOf[b] THEN files[p] ELSE NotCaptured]]

\* capture_rollback_record: the paths of the new manifest and of the version
\* it replaces, as they are now.
Capture(b) ==
    [kind |-> "whole", prev |-> mem[PkgOf[b]],
     saved |-> [p \in Paths |->
                  IF p \in FilesOf[b] \cup OwnedBy(mem[PkgOf[b]])
                  THEN files[p] ELSE NotCaptured]]

\* All files, and the version of b's package, as they are now: the reference
\* the rollback record is measured against.
SnapshotsOfAll == [files : [Paths -> Contents], prev : MaybeBundle]
NoSnapshot == [files |-> [p \in Paths |-> Absent], prev |-> NoBundle]
Now(b) == [files |-> files, prev |-> mem[PkgOf[b]]]

\* The paths an update from snap to b writes or deletes.
Touched(b, snap) == FilesOf[b] \cup OwnedBy(snap.prev)

Pkg == PkgOf[cur]

\* The paths of rollback.files.
Captured(rec) == {p \in Paths : rec.saved[p] # NotCaptured}

\* ensure_state_replaceable, on a state that load_state accepted
Busy(s) == s.phase \in {"pending", "failed"}

\* Mutant: a failed update may be replaced.
BugReplaceableFailed(s) == s.phase \notin {"corrupt", "pending"}

Replaceable(s) == s.phase # "corrupt" /\ ~Busy(s)

\* should_enter_recovery
ShouldEnterRecovery == state.phase = "corrupt" \/ state.recovery

\* proof_available
ProofAvailable(s) == s.phase = "none" /\ ~s.recovery

PCs == {"idle", "stage.write", "apply.record", "apply.delete", "apply.write",
        "apply.list", "install.next", "remove.file", "remove.list",
        "rollback.file", "rollback.list", "state.save", "boot.save"}

\* try_kernel_main before and after prepare_boot, then kernel_main's loop: its
\* first and later rounds, and the two kinds of session.
Stages == {"off", "prepare", "ready", "first", "top", "shell", "recovery"}

\* Mutant: forgets to clear the recovery request it made.
BugProofOpsNoResume ==
    <<"apply", "prepare", "ready", "confirm", "rollback", "clear", "request",
      "clear", "tampered", "rollback", "clear", "resume">>

\* run_offline_update_proof: positions 1..9 are its strict steps, 10..12 the
\* clean-up it runs, ignoring errors, when one of them fails.
ProofOps == <<"apply", "prepare", "ready", "confirm", "rollback", "clear",
              "request", "resume", "tampered", "rollback", "clear", "resume">>

\* Mutant: retries the self-test after its clean-up.
BugAfterStepRetry(ok) ==
    CASE step = 0 -> 0
      [] step \in 1..9 -> IF ok THEN (step + 1) % 10 ELSE 10
      [] step \in 10..12 -> IF step = 12 THEN 1 ELSE step + 1

AfterStep(ok) ==
    CASE step = 0 -> 0
      [] step \in 1..9 -> IF ok THEN (step + 1) % 10 ELSE 10
      [] step \in 10..12 -> (step + 1) % 13

CheckCap == 2
CountCheck ==
    IF state.phase = "pending" /\ checks < CheckCap THEN checks + 1 ELSE checks

-----------------------------------------------------------------------------
(* Control: who may run, and how an operation returns. *)

ShellIdle == pc = "idle" /\ stage \in {"shell", "recovery"} /\ step = 0
ProofRuns(op) == pc = "idle" /\ step # 0 /\ ProofOps[step] = op
CanRun(op) == ShellIdle \/ ProofRuns(op)

\* Back to the shell, to the next step of the self-test, or, from the call of
\* note_shell_ready that ends try_kernel_main, to the interactive loop.
Return(ok) ==
    /\ pc' = "idle" /\ ret' = "idle"
    /\ cur' = NoBundle /\ todo' = {} /\ queue' = <<>> /\ next' = DefaultState
    /\ step' = AfterStep(ok)
    /\ stage' = IF stage = "ready" /\ step = 0 THEN "first" ELSE stage
    /\ cand' = IF AfterStep(ok) = 0 THEN NoSnapshot ELSE cand

\* An operation that edits only update-state.json: compute, then save.
BeginSave(s) ==
    /\ next' = s
    /\ pc' = "state.save"
    /\ UNCHANGED <<durable, mem, ret, cur, todo, queue, step, stage, crashes,
                   history>>

Refuse ==
    /\ Return(FALSE)
    /\ UNCHANGED <<durable, mem, crashes, pre, checks>>

-----------------------------------------------------------------------------
(* Operations of the update transaction. *)

\* stage_bundle_from_path, up to the write of the staged copy.
StageBundle(b) ==
    /\ ShellIdle
    /\ Replaceable(state)
    /\ pc' = "stage.write" /\ cur' = b
    /\ next' = [phase |-> "staged", bundle |-> b, isStaged |-> TRUE,
                started |-> FALSE, observed |-> FALSE,
                recovery |-> state.recovery]
    /\ cand' = Now(b)
    /\ UNCHANGED <<durable, mem, ret, todo, queue, step, stage, crashes, pre,
                   checks>>

WriteStaged ==
    /\ pc = "stage.write"
    /\ staged' = staged \cup {cur}
    /\ pc' = "state.save"
    /\ UNCHANGED <<files, installed, records, state, mem, locals, step, stage,
                   crashes, history>>

\* apply_verified_bundle_bytes, up to its first write.
BeginApply(b, fromStaged) ==
    /\ Replaceable(state)
    /\ pc' = "apply.record" /\ cur' = b /\ ret' = "state.save"
    /\ next' = [phase |-> "pending", bundle |-> b, isStaged |-> fromStaged,
                started |-> FALSE, observed |-> FALSE, recovery |-> FALSE]
    /\ cand' = Now(b)
    /\ UNCHANGED <<durable, mem, todo, queue, step, stage, crashes, pre,
                   checks>>

\* apply_bundle_from_path: the path given may be that of a staged copy.
\* The self-test starts in an idle state, so it is never refused.
ApplyBundle(b) ==
    \/ ShellIdle /\ BeginApply(b, FALSE)
    \/ ShellIdle /\ b \in staged /\ BeginApply(b, TRUE)
    \/ ProofRuns("apply") /\ b = ProofBundle /\ BeginApply(b, FALSE)

\* apply_staged_bundle: a torn staged copy fails verification.
ApplyStaged ==
    /\ ShellIdle
    /\ state.isStaged
    /\ state.bundle \in staged
    /\ BeginApply(state.bundle, TRUE)

\* Mutant: no record for a package that was not installed before.
BugStoreRecordOfUpgrade ==
    /\ pc = "apply.record"
    /\ records' = IF mem[Pkg] = NoBundle THEN records
                  ELSE [records EXCEPT ![Pkg] = Capture(cur)]
    /\ pc' = "apply.delete"
    /\ todo' = OwnedBy(mem[Pkg]) \ FilesOf[cur]
    /\ UNCHANGED <<files, installed, staged, state, mem, ret, cur, queue, next,
                   step, stage, crashes, history>>

\* store_rollback_record, then on to the files the new version drops.
StoreRecord ==
    /\ pc = "apply.record"
    /\ records' = [records EXCEPT ![Pkg] = Capture(cur)]
    /\ pc' = "apply.delete"
    /\ todo' = OwnedBy(mem[Pkg]) \ FilesOf[cur]
    /\ UNCHANGED <<files, installed, staged, state, mem, ret, cur, queue, next,
                   step, stage, crashes, history>>

\* installer::apply_verified_bundle.  The order of the paths is the manifest's,
\* which the model leaves open.  Deleting a missing file is not an error here.
DeleteStale ==
    /\ pc = "apply.delete" /\ todo # {}
    /\ \E p \in todo :
          /\ files' = [files EXCEPT ![p] = Absent]
          /\ todo' = todo \ {p}
    /\ UNCHANGED <<installed, records, staged, state, mem, pc, ret, cur, queue,
                   next, step, stage, crashes, history>>

BeginWrites ==
    /\ pc = "apply.delete" /\ todo = {}
    /\ pc' = "apply.write" /\ todo' = FilesOf[cur]
    /\ UNCHANGED <<durable, mem, ret, cur, queue, next, step, stage, crashes,
                   history>>

WriteFile ==
    /\ pc = "apply.write" /\ todo # {}
    /\ \E p \in todo :
          /\ files' = [files EXCEPT ![p] = cur]
          /\ todo' = todo \ {p}
    /\ UNCHANGED <<installed, records, staged, state, mem, pc, ret, cur, queue,
                   next, step, stage, crashes, history>>

EndWrites ==
    /\ pc = "apply.write" /\ todo = {}
    /\ mem' = [mem EXCEPT ![Pkg] = cur]
    /\ pc' = "apply.list"
    /\ UNCHANGED <<durable, locals, step, stage, crashes, history>>

\* save_installed_list at the end of apply_verified_bundle.
SaveApplied ==
    /\ pc = "apply.list"
    /\ installed' = [kind |-> "whole", list |-> mem]
    /\ pc' = ret
    /\ UNCHANGED <<files, records, staged, state, mem, locals, step, stage,
                   crashes, history>>

\* confirm_pending_update
Confirm ==
    /\ CanRun("confirm")
    /\ \/ /\ state.phase = "pending" /\ state.observed
          /\ BeginSave([state EXCEPT !.phase = "confirmed", !.started = FALSE,
                                      !.observed = FALSE, !.recovery = FALSE])
       \/ /\ ~(state.phase = "pending" /\ state.observed)
          /\ Refuse

\* reject_pending_update
Reject ==
    /\ ShellIdle
    /\ state.phase = "pending"
    /\ BeginSave([state EXCEPT !.phase = "failed", !.recovery = TRUE])

\* clear_completed_state: called by the self-test only.
ClearCompleted ==
    /\ ProofRuns("clear")
    /\ \/ /\ Replaceable(state)
          /\ BeginSave([DefaultState EXCEPT !.recovery = state.recovery])
       \/ ~Replaceable(state) /\ Refuse

\* request_recovery
RequestRecovery ==
    /\ CanRun("request")
    /\ \/ state.phase # "corrupt" /\ BeginSave([state EXCEPT !.recovery = TRUE])
       \/ state.phase = "corrupt" /\ Refuse

\* Mutant: resumes whatever the update's phase.
BugClearRecoveryAlways ==
    /\ CanRun("resume")
    /\ BeginSave([state EXCEPT !.recovery = FALSE])

\* clear_recovery_request
ClearRecovery ==
    /\ CanRun("resume")
    /\ \/ Replaceable(state) /\ BeginSave([state EXCEPT !.recovery = FALSE])
       \/ ~Replaceable(state) /\ Refuse

\* rollback_current_update: whatever the phase, as long as the record of the
\* transaction's package can be read.
CanRollback ==
    /\ state.phase \notin {"none", "corrupt"}
    /\ records[PkgOf[state.bundle]].kind = "whole"

Rollback ==
    /\ CanRun("rollback")
    /\ \/ /\ CanRollback
          /\ cur' = state.bundle
          /\ todo' = Captured(records[PkgOf[state.bundle]])
          /\ next' = [state EXCEPT !.phase = "rolledback", !.started = FALSE,
                                   !.observed = FALSE, !.recovery = FALSE]
          /\ pc' = "rollback.file"
          /\ UNCHANGED <<durable, mem, ret, queue, step, stage, crashes, history>>
       \/ ~CanRollback /\ Refuse

\* restore_rollback_files
RestoreFile ==
    /\ pc = "rollback.file" /\ todo # {}
    /\ \E p \in todo :
          /\ files' = [files EXCEPT ![p] = records[Pkg].saved[p]]
          /\ todo' = todo \ {p}
    /\ UNCHANGED <<installed, records, staged, state, mem, pc, ret, cur, queue,
                   next, step, stage, crashes, history>>

\* Mutant: leaves the package list alone.
BugEndRestoreKeepsList ==
    /\ pc = "rollback.file" /\ todo = {}
    /\ pc' = "rollback.list"
    /\ UNCHANGED <<durable, mem, locals, step, stage, crashes, history>>

EndRestore ==
    /\ pc = "rollback.file" /\ todo = {}
    /\ mem' = [mem EXCEPT ![Pkg] = records[Pkg].prev]
    /\ pc' = "rollback.list"
    /\ UNCHANGED <<durable, locals, step, stage, crashes, history>>

SaveRestored ==
    /\ pc = "rollback.list"
    /\ installed' = [kind |-> "whole", list |-> mem]
    /\ pc' = "state.save"
    /\ UNCHANGED <<files, records, staged, state, mem, locals, step, stage,
                   crashes, history>>

\* save_state, the last step of every operation above.
SaveState ==
    /\ pc = "state.save"
    /\ state' = next
    /\ pre' = IF cur = NoBundle /\ next.phase \in {state.phase, "failed"}
               THEN pre
               ELSE IF next.phase \in {"staged", "pending"}
                    THEN cand ELSE NoSnapshot
    /\ checks' = IF state.phase # next.phase THEN 0 ELSE checks
    /\ Return(TRUE)
    /\ UNCHANGED <<files, installed, records, staged, mem, crashes>>

-----------------------------------------------------------------------------
(* The package manager, which knows nothing of the transaction. *)

\* PackageManager::install: every package of the resolved order that is not
\* installed yet gets the index version; no rollback record is taken.
Install(p) ==
    /\ ShellIdle
    /\ pc' = "install.next" /\ queue' = InstallOrder[p] /\ ret' = "install.next"
    /\ UNCHANGED <<durable, mem, cur, todo, next, step, stage, crashes, history>>

InstallNext ==
    /\ pc = "install.next" /\ queue # <<>>
    /\ queue' = Tail(queue)
    /\ \/ mem[Head(queue)] # NoBundle /\ UNCHANGED <<pc, cur>>
       \/ /\ mem[Head(queue)] = NoBundle
          /\ cur' = IndexBundle[Head(queue)]
          /\ pc' = "apply.delete"
    /\ UNCHANGED <<durable, mem, ret, todo, next, step, stage, crashes, history>>

InstallDone ==
    /\ pc = "install.next" /\ queue = <<>>
    /\ Return(TRUE)
    /\ UNCHANGED <<durable, mem, crashes, pre, checks>>

\* installer::remove
Remove(p) ==
    /\ ShellIdle
    /\ mem[p] # NoBundle
    /\ pc' = "remove.file" /\ cur' = mem[p] /\ todo' = FilesOf[mem[p]]
    /\ UNCHANGED <<durable, mem, ret, queue, next, step, stage, crashes, history>>

\* A file that is already gone ends the command with an error, half done.
RemoveFile ==
    /\ pc = "remove.file" /\ todo # {}
    /\ \E p \in todo :
          \/ /\ files[p] # Absent
             /\ files' = [files EXCEPT ![p] = Absent]
             /\ todo' = todo \ {p}
             /\ UNCHANGED <<pc, ret, cur, queue, next, step, stage, cand>>
          \/ /\ files[p] = Absent
             /\ Return(FALSE)
             /\ UNCHANGED files
    /\ UNCHANGED <<installed, records, staged, state, mem, crashes, pre, checks>>

EndRemove ==
    /\ pc = "remove.file" /\ todo = {}
    /\ mem' = [mem EXCEPT ![Pkg] = NoBundle]
    /\ pc' = "remove.list"
    /\ UNCHANGED <<durable, locals, step, stage, crashes, history>>

SaveRemoved ==
    /\ pc = "remove.list"
    /\ installed' = [kind |-> "whole", list |-> mem]
    /\ Return(TRUE)
    /\ UNCHANGED <<files, records, staged, state, mem, crashes, pre, checks>>

-----------------------------------------------------------------------------
(* Boot. *)

\* pkg::init: a list that does not parse is an empty list.
Boot ==
    /\ stage = "off"
    /\ stage' = "prepare"
    /\ mem' = IF installed.kind = "whole" THEN installed.list ELSE EmptyList
    /\ UNCHANGED <<durable, pc, locals, step, crashes, history>>

\* What prepare_boot makes of the state it loads.
HealthCheck(s) ==
    CASE s.phase = "pending" /\ (s.started \/ s.observed)
             -> [s EXCEPT !.phase = "failed", !.recovery = TRUE]
      [] s.phase = "pending" /\ ~(s.started \/ s.observed)
             -> [s EXCEPT !.started = TRUE]
      [] s.phase = "failed" -> [s EXCEPT !.recovery = TRUE]
      [] OTHER -> s

\* try_kernel_main goes on to the self-test when the saved state is idle.
AfterPrepare(s) ==
    /\ stage' = "ready"
    /\ step' = IF ProofAvailable(s) THEN 1 ELSE 0

PrepareBoot ==
    /\ pc = "idle"
    /\ stage = "prepare" \/ ProofRuns("prepare")
    /\ \/ /\ state.phase # "corrupt"
          /\ pc' = "boot.save" /\ next' = HealthCheck(state)
          /\ UNCHANGED <<step, stage>>
       \/ /\ state.phase = "corrupt"
          /\ AfterPrepare(state)
          /\ UNCHANGED <<pc, next>>
    /\ UNCHANGED <<durable, mem, ret, cur, todo, queue, crashes, history>>

\* The last lines of prepare_boot: a save that fails is ignored.
SaveBoot ==
    /\ pc = "boot.save"
    /\ \/ state' = next /\ checks' = CountCheck
       \/ WritesMayFail /\ UNCHANGED <<state, checks>>
    /\ \/ /\ stage = "prepare"
          /\ AfterPrepare(state')
          /\ pc' = "idle" /\ next' = DefaultState
          /\ UNCHANGED <<ret, cur, todo, queue, cand>>
       \/ stage # "prepare" /\ Return(next.phase = "pending")
    /\ UNCHANGED <<files, installed, records, staged, mem, crashes, pre>>

\* note_shell_ready: the last call of try_kernel_main, and a self-test step.
NoteShellReady ==
    /\ pc = "idle"
    /\ (stage = "ready" /\ step = 0) \/ ProofRuns("ready")
    /\ \/ /\ state.phase = "pending" /\ state.started /\ ~state.observed
          /\ BeginSave([state EXCEPT !.observed = TRUE])
       \/ /\ ~(state.phase = "pending" /\ state.started /\ ~state.observed)
          /\ Refuse

\* The last strict step of the self-test: stage a tampered copy, see it refused
\* before anything is written, delete it.
TamperedApply ==
    /\ ProofRuns("tampered")
    /\ Return(TRUE) \/ (WritesMayFail /\ Return(FALSE))
    /\ UNCHANGED <<durable, mem, crashes, pre, checks>>

\* "warpkg proof" from the shell
RunProof ==
    /\ ShellIdle
    /\ ProofAvailable(state)
    /\ step' = 1
    /\ UNCHANGED <<durable, mem, pc, locals, stage, crashes, history>>

\* kernel_main's loop: the first round opens the login screen without asking
\* for recovery, every later one asks first.
EnterSession ==
    /\ stage \in {"first", "top"}
    /\ stage' = IF stage = "top" /\ ShouldEnterRecovery
                THEN "recovery" ELSE "shell"
    /\ UNCHANGED <<durable, mem, pc, locals, step, crashes, history>>

\* shell::run returns
Logout ==
    /\ ShellIdle
    /\ stage' = "top"
    /\ UNCHANGED <<durable, mem, pc, locals, step, crashes, history>>

-----------------------------------------------------------------------------
(* What goes wrong. *)

\* WarFS refuses the write the operation is about to do (FilesystemFull,
\* ReadOnly): the operation returns an error and undoes nothing.
WriteFails ==
    /\ WritesMayFail
    /\ \/ pc \in {"stage.write", "apply.record", "apply.list", "remove.list",
                   "rollback.list", "state.save"}
       \/ pc \in {"apply.delete", "apply.write", "remove.file",
                   "rollback.file"} /\ todo # {}
    /\ Return(FALSE)
    /\ UNCHANGED <<durable, mem, crashes, pre, checks>>

PowerOff ==
    /\ stage' = "off" /\ pc' = "idle" /\ step' = 0 /\ mem' = EmptyList
    /\ ret' = "idle" /\ cur' = NoBundle /\ todo' = {} /\ queue' = <<>>
    /\ next' = DefaultState /\ cand' = NoSnapshot
    /\ UNCHANGED <<pre, checks>>

\* The operator reboots from the shell.
Reboot ==
    /\ ShellIdle
    /\ PowerOff
    /\ UNCHANGED <<durable, crashes>>

\* Power is lost between two writes.
Crash ==
    /\ stage # "off" /\ crashes < MaxCrashes
    /\ crashes' = crashes + 1
    /\ PowerOff
    /\ UNCHANGED durable

\* Power is lost during the next write, which leaves its file torn.  Deleting
\* clears one directory entry and cannot tear.
CrashTorn ==
    /\ WritesMayTear /\ pc # "idle" /\ crashes < MaxCrashes
    /\ crashes' = crashes + 1
    /\ PowerOff
    /\ \/ /\ pc = "stage.write"
          /\ staged' = staged \ {cur}
          /\ UNCHANGED <<files, installed, records, state>>
       \/ /\ pc = "apply.record"
          /\ records' = [records EXCEPT ![Pkg] = TornRecord]
          /\ UNCHANGED <<files, installed, staged, state>>
       \/ /\ \E p \in todo :
                /\ \/ pc = "apply.write"
                   \/ pc = "rollback.file" /\ records[Pkg].saved[p] # Absent
                /\ files' = [files EXCEPT ![p] = Torn]
          /\ UNCHANGED <<installed, records, staged, state>>
       \/ /\ pc \in {"apply.list", "remove.list", "rollback.list"}
          /\ installed' = NoList
          /\ UNCHANGED <<files, records, staged, state>>
       \/ /\ pc \in {"state.save", "boot.save"}
          /\ state' = CorruptState
          /\ UNCHANGED <<files, installed, records, staged>>

-----------------------------------------------------------------------------

Init ==
    /\ files \in [Paths -> {Absent, Local}]
    /\ installed = [kind |-> "whole", list |-> EmptyList]
    /\ records = [p \in Pkgs |-> NoRecord]
    /\ staged = {}
    /\ state = DefaultState
    /\ mem = EmptyList
    /\ pc = "idle" /\ ret = "idle" /\ cur = NoBundle
    /\ todo = {} /\ queue = <<>> /\ next = DefaultState
    /\ step = 0 /\ stage = "off" /\ crashes = 0
    /\ cand = NoSnapshot /\ pre = NoSnapshot /\ checks = 0

\* The steps the kernel takes by itself once an operation or a boot has begun.
Work ==
    \/ WriteStaged \/ StoreRecord \/ DeleteStale \/ BeginWrites \/ WriteFile
    \/ EndWrites \/ SaveApplied \/ RestoreFile \/ EndRestore \/ SaveRestored
    \/ SaveState \/ InstallNext \/ InstallDone \/ RemoveFile \/ EndRemove
    \/ SaveRemoved \/ PrepareBoot \/ SaveBoot \/ NoteShellReady \/ WriteFails

\* What the operator, or the self-test in the operator's place, starts.
Command ==
    \/ \E b \in Bundles : StageBundle(b) \/ ApplyBundle(b)
    \/ ApplyStaged \/ Confirm \/ Reject \/ ClearCompleted \/ RequestRecovery
    \/ ClearRecovery \/ Rollback \/ TamperedApply \/ RunProof \/ EnterSession
    \/ Logout \/ Reboot
    \/ \E p \in Pkgs : Install(p) \/ Remove(p)

Next == Work \/ Command \/ Boot \/ Crash \/ CrashTorn

Spec == Init /\ [][Next]_vars

\* A step of the self-test that starts an operation.
SelfTest == step # 0 /\ Command

\* The kernel runs one operation at a time to its end, and the boot and the
\* self-test are straight-line code: their steps are not postponed for ever.
FairSpec == Spec /\ WF_vars(Work) /\ WF_vars(SelfTest)

-----------------------------------------------------------------------------
(* Properties. *)

\* The variables keep the types of the structures they stand for.
TypeOK ==
    /\ files \in [Paths -> Contents]
    /\ installed \in ListFile
    /\ records \in [Pkgs -> RecordFile]
    /\ staged \in SUBSET Bundles
    /\ state \in States /\ next \in States
    /\ mem \in Lists
    /\ pc \in PCs
    /\ ret \in {"idle", "state.save", "install.next"}
    /\ cur \in MaybeBundle
    /\ todo \in SUBSET Paths
    /\ queue \in Seq(Pkgs)
    /\ step \in 0..12
    /\ stage \in Stages
    /\ crashes \in Nat
    /\ cand \in SnapshotsOfAll /\ pre \in SnapshotsOfAll
    /\ checks \in 0..CheckCap

RecordDescribes(rec, b, snap) ==
    /\ rec.kind = "whole" /\ rec.prev = snap.prev
    /\ rec.saved = [p \in Paths |-> IF p \in Touched(b, snap)
                                   THEN snap.files[p] ELSE NotCaptured]

\* While an update awaits confirmation or has failed, the rollback record on
\* disk is whole and says of every file the update touched, and of no other,
\* what it was just before that update was applied: no command, self-test,
\* crash or torn write has replaced it.
RecordBehindBusyUpdate ==
    Busy(state) => RecordDescribes(records[PkgOf[state.bundle]], state.bundle, pre)

\* A failed update always leaves recovery requested, whatever commands,
\* crashes and failed saves lie between the failure and now.
FailedUpdateRequestsRecovery == state.phase = "failed" => state.recovery

\* An update is still pending after at most one saved health check: the second
\* boot that gets that far marks it failed.
PendingSurvivesOneCheck == state.phase = "pending" => checks <= 1

\* An update that is not confirmed cannot go on unnoticed: by the second saved
\* health check it has failed, and from then on recovery is requested.
UnconfirmedIsNoticed == FailedUpdateRequestsRecovery /\ PendingSurvivesOneCheck

\* Whenever the shell is entered with recovery requested, some command of the
\* recovery shell ends the request: resume, rollback, confirm, or reject and
\* then rollback.
RecoveryHasExit ==
    stage \in {"shell", "recovery"} /\ pc = "idle" /\ ShouldEnterRecovery
        => Replaceable(state) \/ CanRollback

\* The package manager's list tells the truth: every file of an installed
\* version is there with that version's contents when no operation is running.
InstalledFilesIntact ==
    pc = "idle" /\ stage \notin {"off", "prepare"} =>
        \A k \in Pkgs : \A p \in OwnedBy(mem[k]) : files[p] = mem[k]

Restored(snap, b) ==
    /\ \A p \in Touched(b, snap) : files'[p] = snap.files[p]
    /\ mem'[PkgOf[b]] = snap.prev
    /\ installed' = [kind |-> "whole", list |-> mem']

RollsBack == state.phase # "rolledback" /\ state'.phase = "rolledback"

\* Rolling back an update that was applied and not confirmed leaves every file
\* the update touched, and the installed list, as they were before the apply,
\* also when an earlier rollback was cut short by a crash.
RollbackUndoesApply ==
    [][RollsBack /\ Busy(state) => Restored(pre, state.bundle)]_vars

\* "warpkg rollback" always brings back the pre-apply file system state of the
\* current transaction, whatever its phase.
RollbackAlwaysRestores == [][RollsBack => Restored(pre, state.bundle)]_vars

\* A self-test that passes leaves the files it installed over, the installed
\* list and the update state as it found them.
SelfTestLeavesNoTrace ==
    [][step = 9 /\ step' = 0 /\ stage' # "off"
        => Restored(cand, ProofBundle) /\ ProofAvailable(state')]_vars

\* Every boot that keeps its power reaches the interactive loop: the health
\* check, the self-test and its clean-up come to an end.
BootReachesShell == stage = "prepare" ~> stage \in {"first", "off"}
===========================================================================
