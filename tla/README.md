# WarOS: specifications, model checking and proofs

TLA+ modules for the parts of WarOS whose correctness depends on orderings that
tests hardly reach: power losses between writes, device errors, interrupts
between lock scopes, rings shared with devices, and long sequences of operator
commands. Paths below are relative to `kernel/src/`; `PROJECT.json` maps every
definition to the lines it models and lists the hazards each property is for.

## 1. The system and its parts

WarOS is a single-CPU x86-64 kernel in Rust (`kernel/`), with host crates for
quantum circuits, cryptography and package bundles (`crates/`). All kernel code
runs in one foreground thread: boot, then a loop of login, shell and
background-task polling. Concurrency comes from the timer and keyboard
interrupts, from devices working on shared memory, and from the machine losing
power.

| Part | Module(s) | What makes it hard | What must hold |
|---|---|---|---|
| WarPkg update (`pkg/`) | WarPkgUpdate | five durable files, separate writes, a crash or refusal at each | rollback restores; a failed update is noticed; recovery has an exit |
| WarFS on disk (`disk/persist.rs`, `format.rs`) | WarDisk, BlockAlloc | write-behind, crash between data and entry, growth | no shared blocks; a save damages no other file; first fit |
| Sector cache, virtio-blk (`disk/cache.rs`, `virtio_blk.rs`) | BlockDisk, AtomicDisk | the device runs concurrently; failed writes; index wrap | reads return what was written |
| Processes, scheduler, tasks (`exec/`, `task/`) | ExecSched | ticks between lock scopes | a program runs on its own stack; none queued twice |
| Capabilities (`security/capabilities.rs`) | Capabilities | whose process the shell is changes under the caller | sets only shrink |
| Address spaces, self-tests (`exec/`, `fs/mod.rs`) | UserMemory, SelfTests | memory runs out half way; power cuts in a test | a frame has one owner; the tests pass and leave nothing |
| Physical frames, MMIO (`memory/`) | FrameAllocator | exhaustion, runs, failed mappings | no frame twice; the count is true |
| Accounts, login, preferences (`auth/`, `ui/`) | Access | refused, dropped and torn saves, restarts | root stays; numbers are never reused |
| WarFS files and commands (`fs/`, `shell/`) | WarFiles, WarShell | permissions, pipes, scripts, late failures at close | only the entitled change a file; pipes clean up |
| Keyboards and input (`drivers/keyboard.rs`, `hal/input`) | Ps2Keyboard, HidReport, Input | producer in an interrupt; controller re-initialised | keys arrive as typed, in order |
| Console and prompt (`display/`, `interactive.rs`) | Console, ShellLoop | keys, output and timers in any order | the line on the screen is the line edited |
| Network stack, firewall (`net/`, `security/firewall`) | NetStack, NetCalls, Firewall | late answers, vanishing adapters, shared DHCP socket | one DHCP owner; sockets given back |
| Network cards (`net/virtio`, `hal/net`) | VirtioNet, E1000, Rtl8169, FrameFifo | rings shared with the card, link loss | frames in order, none lost or twice |
| USB (`hal/usb`) | Xhci, UsbDescriptors | hot-plug, faults, late completions, slots only the controller still has | slots follow ports; one transfer in flight |
| Quantum simulator (`quantum/`) | Amplitudes, Quantum | long sequences of gates, saved circuits | unit norm; the circuit is the state |

How the parts interact: the shell loop runs commands, polls tasks and drives
WarPkg; WarPkg's every write is a WarFS write; WarFS writes behind to the disk
through the cache and the driver. The modules follow these layers, and each
states what the layer above assumes: `BlockDisk` implements `AtomicDisk`
(sectors read as written, a failed write leaves its own sector in doubt),
`BlockAlloc` shows that the allocation loop is the first fit `WarDisk` uses, and
`WarDisk` justifies `WarPkgUpdate`'s view that a file write is a step that may
fail, or be torn by a power loss while the other files stay as they are
(`OthersUntouched`). The rings of the network cards each implement
`FrameFifo`: frames in order. `SelfTests` runs over `UserMemory`, `Input` over
`Ps2Keyboard` and `HidReport`, `ShellLoop` over `Console`, `WarShell` over
`WarFiles`, `NetCalls` over `NetStack` and `Firewall`.

## 2. Modules

**WarPkgUpdate.** The five durable things WarPkg keeps (package files, installed
list, rollback records, staged bundles, update state), the list in memory, the
running operation, the position in the self-test and the stage of the boot. One
action is one WarFS write, or the stretch of code up to it. `Crash` stops before
the next write, `CrashTorn` inside it, `WriteFails` is a write WarFS refuses.
Bundles are model values: a file's contents are the bundle that wrote it.

**WarDisk.** The files in RAM, the superblock's state byte, the file table, the
data blocks, the operation in progress, and `behind`, which says that an ignored
error or a format has made RAM and disk differ. One action is one device write,
which may fail or be the last before a power loss.

**BlockAlloc.** The loop of `allocate_blocks`, one step per range, started on
any table. The sort is unstable, so `AllocInit` takes every sorted order.

**BlockDisk, AtomicDisk.** The cache (data and use counter of each sector), the
driver's single request in one DMA region, the ring indices modulo their size,
and the device, which takes, works on and completes a request between any two
steps of the driver. A failed write may or may not have reached the medium. In
the refinement mapping a sector's possible contents are the cached data, or the
medium.

**ExecSched.** The process table, the run queues, current process and scheduler
switch, the active kernel stack, the task list with its lock, the logged-in
user, and the foreground thread as a stack of frames. One action is one lock
scope or one stretch with interrupts off. `Tick` comes between any two of them,
except where interrupts are off (after a program's last system call until
`run_user_process_with_reap` ends) or its `try_lock` fails. `PidsLeft` stops new
commands before the bound on pids, so that every command begun can finish.

**Capabilities.** The process table as sets of capability bits, the process that
stands for the shell, the current process, the queued ones, and the sessions; an
action is one command, one turn of the shell's loop, the start or end of a
background job, or a tick, which may come between any two and make a queued
process the current one. Commands typed ahead run without a turn in between
(`su` followed by another command). `ensured` says that the loop has ensured the
shell and nothing has taken its place since. `TransitionProof` is the boot's own
test as an operator; it runs with interrupts off and is one step.

**FrameAllocator.** The bitmap, the search hint, the cached count, the frames
held by DMA buffers, mapped pages and page tables, and the MMIO windows, started
on any memory map. One action is one call.

**UserMemory, SelfTests.** The address space of a process (segments, stack,
heap, maps) over a reduced layout with the frames behind it; the boot's test
programs as the sequence of calls their machine code makes with what each
compares, over processes, descriptors and seeded files, with power cuts and full
tables. User programs also call `brk`, `mmap` and `munmap` with any page and
length; `munmap` takes pages of any kind out and leaves the regions as they are,
which the history variable `gone` records: the range check of the system calls
still accepts a page the program unmapped itself.

**Access.** The accounts in memory and in `users.db`, the session, the shared
preferences, and the stages of the main loop from boot over setup, the
preferences page and the login to the shell. A save may be refused, which the
caller sees, or be dropped on the way by a device error, which nobody sees
(`disk/mod.rs:245`); the power may fail between any two steps, and inside a save
it leaves what a dropped one leaves. `users.db` is overwritten in place, its
entry last: `Left` is the old database, the new one or, when accounts came or
went, a file that cannot be read, on which the boot starts again with root alone.
The disk is taken to be mounted and an account's record to lie in one sector.
`behind` says that a save was dropped since the last one that got through.

**WarFiles, WarShell.** WarFS as operators from a file list to a file list, each
with the checks of its function; over it the commands, redirections, pipelines,
aliases, `source`, `su`, `logout`, and the file calls of programs with staged
creation. A command line is a tree of words; what a filter prints is a function
of the file it reads.

**Ps2Keyboard, HidReport, Input.** The two scan-code decoders and the choice
between them, the reading of a USB report, and the path from keyboards over
IRQ 1, the raw ring, the controller's re-initialisation and the merged queue to
`try_read_keypress`. The foreground is `todo`, the steps its call still has to
take; interrupts and keys come between any two. History variables hold the keys
typed and whether something was lost on a way the code accepts (a full ring, a
reply taken by the interrupt, a controller left without translation).

**Console, ShellLoop.** The cursor and scrolling of the text screen; every key
of the line editor, the history and its draft, and the timers by which the
prompt polls tasks and network. Times are ranks of the tick counts in the code.
The debug panel (`render_shell_debug_panel`, enabled in the code) is a set of
cells painted over after keys, commands and prompts; text that scrolls takes
what the panel left with it.

**NetStack, NetCalls, Firewall.** The state behind the `NET` lock with the
functions that change it; the calls (DHCP by hand and by pump, DNS, ping, HTTP,
HTTPS) with every poll between their steps; rules and tracked connections.
smoltcp and the outside world are external.

**VirtioNet, E1000, Rtl8169, FrameFifo.** Descriptor rings with their indices,
ownership and notifications, each against its card, and the Realtek driver's
link recovery and transmit watchdog. The Intel card sends from TDH up to TDT, so
a ring that is full to the last descriptor is empty to it (`Wedged`).

**Xhci, UsbDescriptors.** Port scans, slots, commands, control transfers, class
set-up and rearming, one action per wait on the controller, whose completions
may be late or bad; classification of descriptors. `probe_controllers` drops the
driver's state first and resets the controller later, and its `init` may fail in
between. The history variable `orphans` holds the slots the controller keeps and
the driver does not: dropped without Disable Slot, or after one that failed, or
enabled by a command answered too late.

**Amplitudes, Quantum.** Registers of qubits with amplitudes in exact arithmetic
(multiples of pi/8), gates, measurement, saved circuits and built-in programs.

### Sums of parts

`MCKernel`, `MCUsers` and `MCDevices` each check several components that share no
state. The variable `about` of `Parts` says which of them moves in a behaviour;
the others rest in one of their initial states. A state of the sum is a state of
one part, so the run checks each part's properties on exactly that part's
behaviours. Where one component is used with two sets of bounds ("tasks" and
"sessions" of ExecSched, "lines", "aliases" and "fds" of WarShell, "edit" and
"time" of ShellLoop, "dhcp", "sockets" and "rules" of NetCalls), each is a part
of its own. Parts that may really stop stutter explicitly, so that deadlock is
still checked for the others; in `devices` every part may stop.

## 3. Runs

| Run | Module | What it shows | Bounds |
|---|---|---|---|
| `update_crash` | MCWarPkgUpdate | `RecordBehindBusyUpdate`: the rollback record of a pending or failed update is the snapshot before its first write; `UnconfirmedIsNoticed`: an update whose checks did not succeed is not taken for good; `RollbackUndoesApply`; `SelfTestLeavesNoTrace` | two versions of one package, the second dropping a file; one power loss, with a torn file |
| `update_write_fails` | MCWarPkgUpdate | any number of refused writes; `RecoveryHasExit`; every boot reaches the interactive loop (`BootReachesShell`) | two versions with the same file; a failing delete of a dropped file is covered by the proofs only |
| `update_dependencies` | MCWarPkgUpdate | `InstalledFilesIntact`: the installed list describes the files | a package in two versions and its dependency; no failures |
| `disk_faults` | MCWarDisk | `NoSharedBlocks`; `DiskHoldsRam`; `OthersUntouched`: a save damages no other file | three names, two slots, four blocks, files of at most two blocks, three blocks of RAM; any number of errors and crashes |
| `block_disk` | BlockDisk | cache, driver, queue and device implement AtomicDisk (`ReadsWhatWasWritten`); `CallsReturn` | three sectors, cache of two with one generation (any entry may be evicted), ring indices of two values (they wrap at once), calls of up to two sectors |
| `kernel` | MCKernel | ExecSched: `QueuedOnce`, `UserOnOwnStack`, `RunReturnsCleanly` (after a program the table, the stack and the scheduler are as before), `SessionCommandsFinish`. FrameAllocator: `GivenOutOnce`, `FramesAccounted`. SelfTests: `AddressSpacesHold`, `SelfTestsPass`. Quantum: `CircuitIsTheState`, `BuiltinsKeepTheirWord`. BlockAlloc: `FirstFit` | seven pids in a table of three, two users; nine frames and four memory maps; machines of 12, 38 and 46 frames, two boots; three qubits, two operations; two files on four blocks |
| `users` | MCUsers | WarShell: `DiskFollowsRam`, `OnlyTheEntitledChange`, `PipesCleanUp`. Input: `KeypressIsTyped`. ShellLoop: `PromptTellsTheTruth`. Access: `AccountsAgree`, `UidsFresh`. Capabilities: `ShellIsTheSessions`, `DropsAreOneWay` | three files of two tokens, one user beside root; two or three taps; lines of two keys on a screen of three by three with a panel of two cells; three accounts, one power cut; root and one ordinary user, a table of three processes, five pids |
| `devices` | MCDevices | Xhci: `SlotsFollowPorts`, `OneTransferInFlight`. NetCalls: `LeaseRecordsAgree`, `SocketsGivenBack`, `AnswersLetIn`. The three cards: each direction implements FrameFifo (`VirtioInOrder`, `E1000InOrder` up to a burst that fills the ring, `RtlInOrder`) | two ports, two faults, one late completion; two leases, two sockets, one tracked connection; rings of two or three, two frames; allow and deny rules |
| `rollback_of_staged` | MCWarPkgUpdate | *violated* | as `update_crash`, no power loss |
| `disk_long_name` | MCWarDisk | *violated* | two names, one cut to the other |
| `exec_killed_runs` | MCExecSched | *violated* | spawn and kill |
| `exec_task_lock` | MCExecSched | *violated* | spawn of a listing |

The bounds are enough for what they are to show: two versions let an update
replace and drop a file and be rolled back over; two slots and four blocks let a
file grow in place, move into another's gap and fail to fit; a cache of two in
front of three sectors evicts; two background programs and the shell contend in
three queues; every table, ring, queue and counter of the models fills up or
wraps within its bound, and the frame counts of the machines are one at which
the tests cannot start, one at which they run out half way and one at which they
pass. Bounds that are not constants are conjuncts of the MC modules, with a
comment ("Bound").

What the violated runs show:

- `rollback_of_staged`: `rollback_current_update` accepts a transaction that is
  only staged and restores a record an earlier transaction of the package left.
  The self-test at boot leaves one for hello-world, so installing hello-world,
  staging an update and rolling it back removes the installed package.
- `disk_long_name`: a path may have 96 bytes; its directory entry keeps 95.
- `exec_killed_runs`: `kill_process` marks a process dead and unqueues it in
  two lock scopes; a tick in between runs it again, and it stays "running".
- `exec_task_lock`: `task::tick` holds the task list's lock while it polls, so
  a background `tasks`, `kill` or `spawn` waits for its own poller for ever.

Further disagreements met while modelling, for which no run states the sentence:

- A post-update boot that dies before `prepare_boot` saves is not counted,
  though `docs/WARPKG_UPDATES_AND_RECOVERY.md` says it is.
- The first session after a boot with recovery requested is an ordinary login
  (a comment in `main.rs` says why).
- `wait` on an unfinished background command never returns: its loop does not
  poll the tasks.
- With the process table full the shell gets pid 1, whether or not there is such
  a process (`unwrap_or(1)`).
- While the PS/2 controller is initialised again with interrupts on, IRQ 1 can
  take the replies; the decoder may then read Enter as `a`, which the comment at
  `drivers/keyboard.rs:371` excludes. `KeypressIsTyped` names this disturbance.
- The prompt's timer for tasks starts at `u64::MAX` and, unlike the network's,
  has no special case for it (`interactive.rs:247`): tasks are polled once per
  line only.
- `teardown_slot` drops a slot without Disable Slot when no address was given
  (`hal/usb/xhci.rs:3612`), and also when Disable Slot fails: the controller keeps
  the slot, and after a failed Disable Slot an armed transfer into a freed buffer.
- A burst that fills the e1000's transmit ring stops it for good: `send_frame`
  keeps no descriptor free, and equal head and tail mean empty to the card.
- After a tick at the prompt, or `su` with a command typed ahead, that command goes
  by the capabilities of the process that is current then, which need not be the
  session's shell.
- A save of `users.db` that the device or the power cuts short can leave a file
  that does not parse; the next boot starts with the default root account.
- A power cut between the seeding of the root account and the setup leaves a
  saved database, so the next boot goes to the login and not to the setup.
- `hal/usb/xhci.rs:1027` says that rearming "recovers from lost events"; a
  transfer whose completion was dropped counts as in flight and is not rearmed.

### Fairness

`update_write_fails`: weak fairness of the kernel's own steps (`Work`,
`SelfTest`); the boot and the operations are straight-line code. `block_disk`:
weak fairness of the driver's loop, which nothing preempts for ever, and of the
device; a device that never answers hangs the driver, which has no timeout.
`kernel`, where users log in and out: weak fairness of the foreground thread and
strong fairness of `SysExit` (a program that keeps calling `execve` exits in the
end; the code cannot force it). No other run assumes any.

## 4. Proofs

All theorems hold for every value of the constants that satisfies the named
assumptions of the component's module: any packages, bundles, paths, number of
power losses and failing writes; any disk, table, cache, ring and file sizes;
any memory map.

**WarPkgUpdateProofs.** `IInv == TypeOK /\ FlowOK /\ UpdateOK` is inductive.
The promises relate the files on disk to each other and say nothing of an
operation half way, so they are not inductive alone. `ApplyOK` and `SaveOK` say
what an apply owes before each write: that the record already describes the
files of before, that the state it will save replaces no busy one, and that
`boot.save` will save the verdict on the current state. `RollbackOK` says that
what a rollback has restored stays restored; that is why a rollback cut short
can be repeated. `CheckedOK` ties the number of saved checks to the flags in the
state file. From it `TypesHold`, `RecordHolds` (`RecordBehindBusyUpdate`) and
`UnconfirmedHolds` (`UnconfirmedIsNoticed`), the invariants of `update_crash`,
and `RollbackHolds`, the action property `RollbackUndoesApply`.

**WarPkgCleanProofs.** Three results add an invariant to `IInv`. `RecoveryHasExitHolds`
(`RecoveryHasExit`) assumes that no write is torn (`~WritesMayTear`), and needs
only that a state file which nobody tears can be read (`Readable`): every
update that `clear_recovery_request` refuses then has a record for `rollback`.
`SelfTestHolds` (`SelfTestLeavesNoTrace`) needs no assumption. `SelfOK` follows
the nine strict steps of `run_offline_update_proof`: the apply records the files
it finds (`SelfApplies`), the record and the bundle stay those of the apply until
the rollback has put every file back (`SelfUpdates`), and the rest edits the
state file only (`SelfClears`); any failure, crash or logout leaves that course
for good. `InstalledFilesHold` (`InstalledFilesIntact`) assumes `Orderly`: no
write fails, the power holds, no two packages own a path, and the index lists a
package under its own name. Only the last is checked by the code, which compares
the manifest with the index entry: after a write that fails half way, or with a
path in two packages, the list can be wrong. `FilesOK` says that at every moment at
most one package, the one being changed, has other files than the list says,
that a rollback record holds a complete version of its own package, and what
each loop of the installer has left to do.

**WarDiskProofs.** `IInv == TypeOK /\ NoSharedBlocks /\ FlightOK`. `FlightOK`
is what makes the entry safe to write: from the moment blocks are chosen until
the entry names them, no other entry claims one. The allocator's part rests on
a lemma that disregarding an entry frees nothing another entry holds.
`BlocksNeverShared` follows; `FilesKeepTheirBlocks` is the action property
`OthersUntouched`, from the same invariant.

A second invariant, `SInv`, is about contents. The code keeps RAM within its limit
by bytes (`RamOK`), so that a disk which holds what RAM holds can be loaded is a
fact about counting: `used_space` is the size of a set of tagged blocks, and
`KeptFits` compares that set with the blocks the entries claim. `OneEntryEach`,
`SlotOK` and `KindOK` say that a name has one entry, which slot a write may
reuse, and which operation is under way; `DiskOK` and `SyncOK` that every file
but the one in hand is on the disk, unless an operation has failed since, and
that a sync has stored all it has passed in any case. `DiskHoldsRamHolds`
(`DiskHoldsRam`) and the action property `SyncStoresFilesHolds`
(`SyncStoresFiles`) follow under `NamesFit`: every path fits the entry's name
field. Without it the second is false, as `disk_long_name` shows.

**BlockDiskProofs.** `IInv == TypeOK /\ FlowOK /\ RingOK`. `FlowOK` ties the
call in progress to the request region; `RingOK` says which of the ring indices
differ, by exactly one modulo their range, in each phase of a request, and that
a completed request has moved its data. `OneOwner` (`RegionHasOneOwner`) follows
from it for every ring size of at least two, and `Refines` shows, one action at
a time, that cache, driver, queue and device implement `AtomicDisk`
(`ReadsWhatWasWritten`): a hit and a successful read are its `Read`, a miss of a
write its `Begin`, the device's work its `Transfer`, a completion its `Commit`
or `Fail`, dropping or evicting cached data its `Settle`.

**AllocatorProofs.** For the frames, `IInv == Accounts /\ Mappings`: what is clear in the
bitmap is usable, usable frames lie below the index the scans stop at, the
cached count is the cardinality of the usable clear frames, and every other frame
has one owner; each window lies below the next one to be given out.
`GivenOutOnceHolds`, `AccountsHold` (`FramesAccounted`) and `TypesHold` follow.
For the blocks, `LoopInv` is the loop's invariant: the ranges passed end at or
before the candidate, and no start before the candidate is free. With `FirstFit`
it is inductive, because the ranges still to come start at or after the one
looked at. `LoopHolds` and `AllocatesFirstFit` follow.

**UsersProofs, accounts.** `AccessInv` holds the two databases, in memory and in `users.db`,
to be well formed (finite, every account's number below the next one, names and
numbers one to one), with root in each that can be read, equal in their accounts
while no save was dropped, and ahead of every number ever saved with an account.
The saved `next` may lag behind the one in memory, since a creation that was
refused is undone except for the counter, and since a dropped save may leave the
old file; that is why freshness has to be stated of both. A database that cannot
be read takes the numbers with it (`issued` is empty then). Lemmas say that
undoing a refused creation, deletion or password change gives back the database
of before, and that whatever a cut save leaves is well formed. `AccountsAgreeHolds`,
`UidsFreshHolds` and `AccessTypesHold` follow, for any names, passwords, table
size and number of power cuts.

**UsersProofs, capabilities.** `CapsInv` says of the process table that its pids,
and the queued ones, lie below the next one and that no process has more than its
user's default set; that while the shell is ensured it is in the table with the
session's user, or there is no process under its pid, and nothing else is current;
and what is still true before the first session. A job or a tick ends `ensured`,
so the part about queued processes needs nothing of the order of the queues. From it
`ShellIsTheSessionsHolds`, the action property `DropsAreOneWayHolds` and
`CapsTypesHold`, for any users, capabilities and table size of at least two.

**ExecSchedSteps, ExecSchedProofs.** The stack of the kernel thread decides
which process may be where, so `IInv` is mostly about it: the shell loop is at
its bottom and nowhere else (`Stack`), the scheduler is off exactly in the steps
of `run_user_process_with_reap` (`OffInRun`), and `ExecOK` and `SpawnOK` say what
each step of `exec` and `spawn` owes the next while ticks fall between them: a
program that a tick has chosen early already has its own stack, and after its
`exit` nobody marks it again. `QueueOK` strengthens `QueuedOnce`: a queued
process sits in the queue of its own priority, which is why looking at one queue
in `enqueue` is enough. The timer is one lemma per part (`AccountedFacts`,
`WaitingFacts`, `TickTable`, `TickExec`, `TickSteps`); the other step lemmas
follow the lock scopes. `retain` is defined by counting (`Retained`) and not by
recursion, and `RetainedFacts` gives its elements. `QueuedOnceHolds`,
`UserOnOwnStackHolds`, `RunReturnsCleanlyHolds`, the action property
`CapsOnlyShrinkHolds` and `TypesHold` follow, for any table, priorities, slices,
users, commands and number of pids; TLC has checked `IInv` on the instance of
`MCExecSched`.

Only model-checked, and why:

- every liveness property (`BootReachesShell`, `CallsReturn`,
  `SessionCommandsFinish`): temporal reasoning under fairness is out of the
  prover's reach;
- WarShell, WarFiles, SelfTests, UserMemory, Quantum, Amplitudes, Input,
  ShellLoop, NetCalls and Xhci: their actions are built from folds and recursive
  operators over data, whose induction the provers do not do, or are too many to
  break down so far;
- the refinements of `FrameFifo`, whose mapping is a sequence computed by
  recursion.

## 5. What is abstracted or left out

Contents, names and signatures are model values. Page tables beyond the count
of their frames, ELF headers, register layouts, glyphs and the text of messages
are left out. Set-up of devices, pixel output, cryptography and floating-point
rounding are not modelled, nor are the host crates; `PROJECT.json` lists each
part with its reason. Power loss, devices, the outside of the network and the
libraries (smoltcp, pc_keyboard) are external: they are modelled from what the
code expects of them.
