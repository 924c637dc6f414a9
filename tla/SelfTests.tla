------------------------------ MODULE SelfTests ------------------------------
(***************************************************************************)
(* The self-tests that every boot runs before the login (kernel/src/       *)
(* main.rs, exec/smoke.rs): small user programs that are seeded into WarFS *)
(* and loaded, that make system calls and compare what the calls return,   *)
(* and whose exit codes the boot reports.  After them the shell runs user  *)
(* programs that ask for memory.                                           *)
(*                                                                         *)
(* A program is the sequence of the calls its machine code makes, each     *)
(* with what the code compares; a comparison that fails exits with 1.      *)
(* Contents of files and printed lines are sequences of tokens, one for    *)
(* each piece that is written or read at once.  A path is <<directory,     *)
(* name>> where names are numbers in the order of the alphabet; a path     *)
(* without a leading slash has the directory "".  In the directory of the  *)
(* readdir test alpha.txt, beta.txt and gamma.txt are 2, 4 and 6, and 0 is *)
(* the marker that makes a directory.  The system calls run to             *)
(* their end with interrupts off and the scheduler is disabled while a     *)
(* program runs, so a call is a step, and only a power cut comes between.  *)
(***************************************************************************)
EXTENDS UserMemory, TLC

CONSTANTS
  FrameCounts,  \* sizes of the memory
  FileSlots,     \* entries of the file table
  OldCounts,    \* how many files of its users an older system has left on the disk
  ExtraNames,   \* names an admin may create in the directory of the readdir test
  Lengths,      \* lengths the user's programs pass to mmap and munmap
  MaxCalls,     \* bound: calls the user's programs make after a boot
  MaxBoots      \* bound: boots in a behaviour

VARIABLES
  testFiles,    \* WarFS, which survives a power cut
  frames,   \* the frames of this machine
  freeFrames,     \* FRAME_ALLOCATOR: the free ones
  testProcs,    \* PROCESS_TABLE without the shell
  testPid,
  main,     \* where the boot is: [at, test, pid, parent]
  outcome,  \* how the tests of this boot ended
  short,    \* a mapping has failed in this boot
  calls, boots,
  seeded    \* the files when the tests began

machine == <<freeFrames, testProcs, testPid, short>>
testvars == <<testFiles, frames, machine, main, outcome, calls, boots, seeded>>

-----------------------------------------------------------------------------
(* The files                                                               *)

Bin(program) == <<"bin", program>>
ReadFile == <<"abi", 1>>
OffsetFile == <<"abi", 2>>
ResultFile == <<"write-proof", 1>>
Marker(dir) == <<dir, 0>>

ReadContent == <<"waros-abi-proof">>
OffsetContent == <<"offset-one", "offset-two">>
WriteContent == <<"warexec-write-ok">>

Put(f, path, data) == Extend(f, path, data)
Without(f, path) == [p \in DOMAIN f \ {path} |-> f[p]]
FilesFull(f) == Cardinality(DOMAIN f) >= FileSlots

DirectoryExists(f, dir) == \E p \in DOMAIN f : p[1] = dir
Listing(f, dir) ==
  SetToSortSeq({p[2] : p \in {q \in DOMAIN f : q[1] = dir /\ q[2] # 0}},
               LAMBDA a, b : a < b)

-----------------------------------------------------------------------------
(* The programs                                                            *)

Say(token) == <<"say", token>>        \* write a line of the program
SayBuffer == <<"say-buffer">>         \* write what was read
Open(path, flags, want) == <<"open", path, flags, want>>
Read(n, want) == <<"read", n, want>>  \* want: the tokens read
Close(checked) == <<"close", checked>>
Stat(path, size) == <<"stat", path, size>>
Fstat(size) == <<"fstat", size>>
Readdir(name) == <<"readdir", name>>  \* 0: the end of the directory
WriteFile(data) == <<"write", data>>
Compare(data) == <<"compare", data>>
Argc(n) == <<"argc", n>>
SayArg(n) == <<"say-arg", n>>
Execve(path, args) == <<"execve", path, args>>
GrowHeap == <<"brk", UserPage>>       \* and copy a value to the new page
SayHeap == <<"say-heap">>
WriteUnmapped == <<"write-unmapped">>
Wait(status) == <<"wait", status>>
Exit(code) == <<"exit", code>>

SmokeProgram == <<Say("hello"), Exit(42)>>

ReadProgram ==
  <<Open(ReadFile, "read", "fd"), Read(1, 1), SayBuffer, Close(FALSE), Exit(43)>>

OffsetProgram ==
  <<Open(OffsetFile, "read", "fd"), Read(1, 1), SayBuffer, Read(1, 1), SayBuffer,
    Read(1, 0), Close(TRUE), Exit(44)>>

ArgReport(header, code) ==
  <<Argc(3), Say("argc=3")>> \o header \o <<SayArg(2), SayArg(3), Exit(code)>>

ArgvProgram == ArgReport(<<>>, 45)

ExecParentProgram ==
  <<Say("exec-parent"),
    Execve(Bin("exec-child"), <<"exec-child", "gamma", "delta">>), Exit(1)>>

ExecChildProgram == ArgReport(<<Say("exec-child")>>, 46)

HeapProgram ==
  <<Say("heap"), GrowHeap, Say("heap-bytes-ok"), SayHeap, Exit(47)>>

FaultProgram == <<Say("fault"), WriteUnmapped, Say("fault-ok"), Exit(48)>>

WaitChildProgram == <<Say("wait-child"), Exit(7)>>

WaitParentProgram == <<Say("wait-parent"), Wait(7 * 256), Say("wait-ok"), Exit(49)>>

StatProgram ==
  <<Say("stat"), Stat(ReadFile, 1), Open(ReadFile, "read", "fd"), Fstat(1),
    Say("stat-ok"), Close(TRUE), Exit(50)>>

ReaddirEntry(name) == <<Readdir(name), SayBuffer>>

ReaddirProgram ==
  <<Say("readdir"), Open(Marker("readdir-proof"), "directory", "fd")>>
  \o ReaddirEntry(2) \o ReaddirEntry(4) \o ReaddirEntry(6)
  \o <<Readdir(0), Say("readdir-end"), Close(TRUE), Exit(51)>>

PathProgram ==
  <<Say("path"), Stat(ReadFile, 1), Open(ReadFile, "read", "fd"), Close(TRUE), Say("abs-ok"),
    Open(<<"", 1>>, "read", "EINVAL"), Say("rel-err"), Exit(52)>>

CreateResult ==
  <<Say("write"), Open(ResultFile, "create", "fd"), WriteFile(WriteContent), Close(TRUE),
    Stat(ResultFile, 1)>>
ReadBackProgram ==
  <<Open(ResultFile, "read", "fd"), Read(1, 1), Compare(WriteContent), Close(TRUE),
    Say("write-size"), SayBuffer, Exit(53)>>

WriteProgram == CreateResult \o ReadBackProgram

Programs ==
  [smoke |-> SmokeProgram, read |-> ReadProgram, offset |-> OffsetProgram,
   argv |-> ArgvProgram, exec |-> ExecParentProgram, heap |-> HeapProgram,
   fault |-> FaultProgram, wait |-> WaitParentProgram, stat |-> StatProgram,
   readdir |-> ReaddirProgram, path |-> PathProgram, write |-> WriteProgram]

(* The program in a file.                                                  *)
ScriptOf(name) ==
  IF name = "exec-child" THEN ExecChildProgram
  ELSE IF name = "wait-child" THEN WaitChildProgram ELSE Programs[name]

(* build_single_segment_rx_elf: code and text in one segment that does not *)
(* fill its last page.                                                     *)
Segments ==
  <<[lo |-> UserCodeBase, hi |-> UserCodeBase + UserPage - 1, w |-> FALSE, x |-> TRUE]>>

-----------------------------------------------------------------------------
(* System calls of a process p.  Each operator returns the process, the    *)
(* files, and whether the program's comparison holds.                      *)

Result(p, f, ok) == [p |-> p, files |-> f, ok |-> ok]

TextAddress == UserCodeBase                   \* the program's own text
StackAddress(p) == p.space.stackTop - 1       \* a buffer on the stack
UnmappedAddress == UserMmapTop                \* 0x7000_0000

Accepts(p, address) == ContainsUserRange(p.space, address, 1)

(* sys_write to stdout.                                                    *)
Output(p, address, data) == IF Accepts(p, address) THEN [p EXCEPT !.out = @ \o data] ELSE p

FdFor(p) == Min((3..(3 + Cardinality(DOMAIN p.fds))) \ DOMAIN p.fds)
Insert(p, handle) == [p EXCEPT !.fds = Extend(@, FdFor(p), handle), !.fd = FdFor(p)]
Handle(path, access, data) ==
  [path |-> path, access |-> access, offset |-> 0, data |-> data]

Canonical(path) == path[1] # ""

(* The error of an open, "fd" when there is none.                          *)
OpenError(f, path, flags) ==
  IF ~Canonical(path) THEN "EINVAL"
  ELSE CASE flags = "directory" -> IF DirectoryExists(f, path[1]) THEN "fd" ELSE "ENOENT"
         [] flags = "create" -> IF path \in DOMAIN f THEN "EEXIST"
                                ELSE IF DirectoryExists(f, path[1]) THEN "fd" ELSE "ENOENT"
         [] flags = "read" -> IF path \in DOMAIN f THEN "fd" ELSE "ENOENT"

SysOpen(p, f, path, flags, want) ==
  LET err == IF Accepts(p, TextAddress) THEN OpenError(f, path, flags) ELSE "EFAULT"
      data == IF flags = "directory" THEN Listing(f, path[1]) ELSE <<>>
  IN  Result(IF err = "fd" THEN Insert(p, Handle(path, flags, data)) ELSE p, f, err = want)

(* Mutant: every read starts at the beginning of the file.                 *)
BugSysRead(p, f, n, want) ==
  LET h == p.fds[p.fd]
      data == f[h.path]
      end == Min({h.offset + n, Len(data)})
      bytes == SubSeq(data, 1, end - h.offset)
  IN  Result([p EXCEPT !.buffer = bytes, !.fds[p.fd].offset = end], f, Len(bytes) = want)

SysRead(p, f, n, want) ==
  LET h == p.fds[p.fd]
      data == f[h.path]
      end == Min({h.offset + n, Len(data)})
      bytes == SubSeq(data, h.offset + 1, end)
  IN  IF h.path \notin DOMAIN f \/ ~Accepts(p, StackAddress(p)) THEN Result(p, f, FALSE)
      ELSE Result([p EXCEPT !.buffer = bytes, !.fds[p.fd].offset = end], f, Len(bytes) = want)

(* sys_write to a file that is being created.                              *)
SysWriteFile(p, f, data) ==
  Result([p EXCEPT !.fds[p.fd].data = @ \o data], f, p.fds[p.fd].access = "create")

(* Closing commits the staged data; a commit that fails leaves the         *)
(* descriptor open.                                                        *)
SysClose(p, f, checked) ==
  LET h == p.fds[p.fd]
      commits == h.access = "create"
      refused == commits /\ (h.path \in DOMAIN f \/ FilesFull(f) \/ ~DirectoryExists(f, h.path[1]))
      closed == [p EXCEPT !.fds = [d \in DOMAIN @ \ {p.fd} |-> @[d]]]
  IN  IF refused THEN Result(p, f, ~checked)
      ELSE Result(closed, IF commits THEN Put(f, h.path, h.data) ELSE f, TRUE)

SysStat(p, f, path, size) ==
  Result(p, f, /\ Canonical(path) /\ path \in DOMAIN f /\ Accepts(p, StackAddress(p))
               /\ Len(f[path]) = size)

SysFstat(p, f, size) ==
  LET h == p.fds[p.fd]
  IN  Result(p, f, IF h.access = "create" THEN Len(h.data) = size
                   ELSE h.path \in DOMAIN f /\ Len(f[h.path]) = size)

(* The entries are those of the time of the open.                          *)
SysReaddir(p, f, name) ==
  LET h == p.fds[p.fd]
      ends == h.offset >= Len(h.data)
      entry == h.data[h.offset + 1]
  IN  IF ends THEN Result(p, f, name = 0)
      ELSE Result([p EXCEPT !.fds[p.fd].offset = @ + 1, !.buffer = <<entry>>], f, entry = name)

(* wait4(-1, status, 0): the first zombie child is reaped.                 *)
Zombies(table, pid) == {c \in DOMAIN table : table[c].parent = pid /\ table[c].code >= 0}
Status(code) == (code % 256) * 256

(* A call that changes nothing but the process and the files.              *)
SimpleCall(p, f, call) ==
  CASE call[1] = "say" -> Result(Output(p, TextAddress, <<call[2]>>), f, TRUE)
    [] call[1] = "say-buffer" -> Result(Output(p, StackAddress(p), p.buffer), f, TRUE)
    [] call[1] = "open" -> SysOpen(p, f, call[2], call[3], call[4])
    [] call[1] = "read" -> SysRead(p, f, call[2], call[3])
    [] call[1] = "write" -> SysWriteFile(p, f, call[2])
    [] call[1] = "close" -> SysClose(p, f, call[2])
    [] call[1] = "stat" -> SysStat(p, f, call[2], call[3])
    [] call[1] = "fstat" -> SysFstat(p, f, call[2])
    [] call[1] = "readdir" -> SysReaddir(p, f, call[2])
    [] call[1] = "compare" -> Result(p, f, p.buffer = call[2])
    [] call[1] = "argc" -> Result(p, f, Len(p.args) = call[2])
    [] call[1] = "say-arg" -> Result(Output(p, StackAddress(p), <<p.args[call[2]]>>), f, TRUE)
    [] call[1] = "say-heap" -> Result(Output(p, p.space.initialBrk, <<"heap-value">>), f, TRUE)
    [] call[1] = "write-unmapped" -> Result(p, f, ~Accepts(p, UnmappedAddress))

SimpleCalls == {"say", "say-buffer", "open", "read", "write", "close", "stat", "fstat",
                "readdir", "compare", "argc", "say-arg", "say-heap", "write-unmapped"}

-----------------------------------------------------------------------------
(* Boot                                                                    *)

BasicTests == <<"smoke", "read", "offset", "argv">>
ProcessTests == <<"exec", "heap", "fault", "wait">>
FileTests == <<"stat", "readdir", "path", "write">>
Tests == BasicTests \o ProcessTests \o FileTests

(* What is seeded, in order: <<path, contents>>.                           *)
Program(n) == <<Bin(n), <<n>>>>
SystemSeeds == [i \in 1..8 |-> <<<<"system", i>>, <<"text">>>>]  \* the directories and texts
ProgramSeeds ==
  <<Program("smoke"), <<ReadFile, ReadContent>>, Program("read"), <<OffsetFile, OffsetContent>>,
    Program("offset"), Program("argv"), Program("exec"), Program("exec-child"), Program("heap"),
    Program("fault"), Program("wait"), Program("wait-child"), Program("stat")>>
DirectorySeeds ==
  <<<<Marker("readdir-proof"), <<>>>>, <<<<"readdir-proof", 2>>, <<"dirent">>>>,
    <<<<"readdir-proof", 4>>, <<"dirent">>>>, <<<<"readdir-proof", 6>>, <<"dirent">>>>,
    Program("readdir"), Program("path"), <<Marker("write-proof"), <<>>>>>>
SeededPaths == {seed[1] : seed \in ToSet(SystemSeeds \o ProgramSeeds \o DirectorySeeds)}
               \cup {Bin("write")}

(* seed_system: an existing file is replaced, a new one needs room.        *)
SeedSystem(acc, seed) ==
  IF ~acc.ok \/ (seed[1] \notin DOMAIN acc.f /\ FilesFull(acc.f)) THEN [acc EXCEPT !.ok = FALSE]
  ELSE [acc EXCEPT !.f = Put(@, seed[1], seed[2])]

(* Mutant: the output of the last boot stays.                              *)
BugClearSeedOutput(acc) == acc

ClearSeedOutput(acc) == IF acc.ok THEN [acc EXCEPT !.f = Without(@, ResultFile)] ELSE acc

(* seed_system_files: the first error ends it.                             *)
Seeded(f) ==
  SeedSystem(ClearSeedOutput(FoldLeft(SeedSystem, [f |-> f, ok |-> TRUE],
                                      SystemSeeds \o ProgramSeeds \o DirectorySeeds)),
             Program("write"))

NoOutcome == [t \in {Tests[i] : i \in DOMAIN Tests} |-> [code |-> 0, out |-> <<>>]]

Idle == [at |-> "test", test |-> 1, pid |-> 0, parent |-> 0]

(* An error ends the boot.                                                 *)
SeedSystemFiles ==
  /\ main.at = "seed"
  /\ LET r == Seeded(testFiles)
     IN  /\ testFiles' = r.f
         /\ main' = IF r.ok THEN Idle ELSE [main EXCEPT !.at = "halted"]
  /\ seeded' = DOMAIN testFiles'
  /\ UNCHANGED <<frames, machine, outcome, calls, boots>>

(* spawn_process: a process with the image, pid 0 on an error.             *)
TestProcess(image, program, args, parent) ==
  [parent |-> parent, code |-> -1, script |-> program, pc |-> 1, space |-> image.s,
   fds |-> <<>>, fd |-> 0, buffer |-> <<>>, args |-> args, out |-> <<>>, execs |-> FALSE,
   gone |-> {}]

WithImage(mm, image, program, args, parent) ==
  IF image.err # "Ok" THEN [mm EXCEPT !.free = image.free, !.short = TRUE, !.pid = 0]
  ELSE [free |-> image.free, nextPid |-> mm.nextPid + 1, short |-> mm.short, pid |-> mm.nextPid,
        procs |-> Extend(mm.procs, mm.nextPid, TestProcess(image, program, args, parent))]

TestSpawn(mm, program, args, parent, offset) ==
  WithImage(mm, MapProcessImage(mm.free, Segments, offset), program, args, parent)

Machine == [free |-> freeFrames, procs |-> testProcs, nextPid |-> testPid, short |-> short, pid |-> 0]

Become(mm) ==
  /\ freeFrames' = mm.free /\ testProcs' = mm.procs
  /\ testPid' = mm.nextPid /\ short' = mm.short

Discard(mm, pid) == [mm EXCEPT !.procs = [q \in DOMAIN @ \ {pid} |-> @[q]]]

(* The boot reports the outcome of a test and goes on with the next.       *)
Report(code, out) == [outcome EXCEPT ![Tests[main.test]] = [code |-> code, out |-> out]]
NextTest ==
  IF main.test = Len(Tests)
  THEN [at |-> "shell", test |-> 0, pid |-> 0, parent |-> 0]
  ELSE [Idle EXCEPT !.test = main.test + 1]
Failed == -2  \* the test could not be run

ArgsOf(test) == IF test = "argv" THEN <<"argv", "alpha", "beta">> ELSE <<test>>

(* run_program_with_args, up to the entry of the program                   *)
RunProgram ==
  /\ main.at = "test" /\ Tests[main.test] # "wait"
  /\ \E offset \in StackOffsets :
       LET mm == TestSpawn(Machine, Tests[main.test], ArgsOf(Tests[main.test]), 0, offset)
       IN  /\ Become(mm)
           /\ main' = IF mm.pid = 0 THEN NextTest ELSE [main EXCEPT !.at = "run", !.pid = mm.pid]
           /\ outcome' = IF mm.pid = 0 THEN Report(Failed, <<>>) ELSE outcome
  /\ UNCHANGED <<testFiles, frames, calls, boots, seeded>>

(* run_abi_wait_smoke: the parent is loaded, then the child; when the      *)
(* child cannot be, the parent is taken out of the table as it is.         *)
SpawnWaitParent ==
  /\ main.at = "test" /\ Tests[main.test] = "wait"
  /\ \E offset \in StackOffsets :
       LET mm == TestSpawn(Machine, "wait", <<"wait">>, 0, offset)
       IN  /\ Become(mm)
           /\ main' = IF mm.pid = 0 THEN NextTest
                      ELSE [main EXCEPT !.at = "spawn", !.parent = mm.pid]
           /\ outcome' = IF mm.pid = 0 THEN Report(Failed, <<>>) ELSE outcome
  /\ UNCHANGED <<testFiles, frames, calls, boots, seeded>>

SpawnWaitChild ==
  /\ main.at = "spawn"
  /\ \E offset \in StackOffsets :
       LET mm == TestSpawn(Machine, "wait-child", <<"wait-child">>, main.parent, offset)
       IN  IF mm.pid = 0
           THEN /\ Become(Discard(mm, main.parent))
                /\ main' = NextTest
                /\ outcome' = Report(Failed, <<>>)
           ELSE /\ Become(mm)
                /\ main' = [main EXCEPT !.at = "child", !.pid = mm.pid]
                /\ UNCHANGED outcome
  /\ UNCHANGED <<testFiles, frames, calls, boots, seeded>>

-----------------------------------------------------------------------------
(* The running program                                                     *)

Running == main.at \in {"run", "child", "user"}
P == testProcs[main.pid]
TestCall == ScriptOf(P.script)[P.pc]

(* The program's next call, and exit(1) when a comparison failed.          *)
Advance(p, ok) ==
  IF ok THEN [p EXCEPT !.pc = @ + 1] ELSE [p EXCEPT !.script = "failed", !.pc = 1]

AtCall(kinds) ==
  /\ main.at \in {"run", "child"} /\ P.script # "failed"
  /\ TestCall[1] \in kinds

SystemCall ==
  /\ AtCall(SimpleCalls)
  /\ LET r == SimpleCall(P, testFiles, TestCall)
     IN  /\ testProcs' = [testProcs EXCEPT ![main.pid] = Advance(r.p, r.ok)]
         /\ testFiles' = r.files
  /\ UNCHANGED <<frames, freeFrames, testPid, short, main, outcome, calls, boots, seeded>>

CallBrk ==
  /\ AtCall({"brk"})
  /\ LET r == SysBrk(freeFrames, P.space, P.space.brk + TestCall[2])
     IN  /\ freeFrames' = r.free
         /\ testProcs' = [testProcs EXCEPT ![main.pid] =
                        Advance([P EXCEPT !.space = r.s], r.ret = P.space.brk + TestCall[2])]
         /\ short' = (short \/ r.ret = P.space.brk)
  /\ UNCHANGED <<testFiles, frames, testPid, main, outcome, calls, boots, seeded>>

CallWait ==
  /\ AtCall({"wait"})
  /\ LET found == Zombies(testProcs, main.pid)
         child == Min(found)
         ok == found # {} /\ Accepts(P, StackAddress(P))
     IN  testProcs' = IF ok
                  THEN [Discard(Machine, child).procs EXCEPT ![main.pid] =
                          Advance(P, Status(testProcs[child].code) = TestCall[2])]
                  ELSE [testProcs EXCEPT ![main.pid] = Advance(P, FALSE)]
  /\ UNCHANGED <<testFiles, frames, freeFrames, testPid, short, main, outcome, calls, boots, seeded>>

TestExec(p, image, program, args) ==
  [p EXCEPT !.space = image.s, !.script = program, !.pc = 1, !.args = args, !.execs = TRUE,
            !.gone = {}]

WithNewImage(p, image, program, args) ==
  IF image.err # "Ok" THEN [free |-> image.free, p |-> [p EXCEPT !.execs = TRUE], ok |-> FALSE]
  ELSE [free |-> TeardownProcessImage(image.free, p.space), ok |-> TRUE,
        p |-> TestExec(p, image, program, args)]

(* sys_execve: the process keeps its pid and its descriptors.              *)
NewImage(p, program, args, offset) ==
  WithNewImage(p, MapProcessImage(freeFrames, Segments, offset), program, args)

(* When execve returns at all, the program goes on with exit(1).           *)
CallExecve ==
  /\ AtCall({"execve"})
  /\ \E offset \in StackOffsets :
       LET r == NewImage(P, testFiles[TestCall[2]][1], TestCall[3], offset)
       IN  /\ freeFrames' = r.free
           /\ testProcs' = [testProcs EXCEPT ![main.pid] = IF r.ok THEN r.p ELSE Advance(r.p, FALSE)]
           /\ short' = (short \/ ~r.ok)
  /\ UNCHANGED <<testFiles, frames, testPid, main, outcome, calls, boots, seeded>>

(* What is left of a process when run_user_process_with_reap returns.      *)
TestReap(table, pid, preserve, code) ==
  IF preserve THEN [table EXCEPT ![pid].code = code]
  ELSE [q \in DOMAIN table \ {pid} |-> table[q]]

(* sys_exit and the return to the boot: the child's exit leads to the run  *)
(* of its parent, unless its code is not the one expected.                 *)
ExitTo(code) ==
  /\ freeFrames' = TeardownProcessImage(freeFrames, P.space)
  /\ LET left == TestReap(testProcs, main.pid, main.at = "child", code)
     IN  CASE main.at = "run" ->
                /\ testProcs' = left /\ main' = NextTest /\ outcome' = Report(code, P.out)
           [] main.at = "child" /\ code = 7 ->
                /\ testProcs' = left
                /\ main' = [main EXCEPT !.at = "run", !.pid = main.parent]
                /\ UNCHANGED outcome
           [] main.at = "child" /\ code # 7 ->
                /\ testProcs' = [q \in DOMAIN left \ {main.pid, main.parent} |-> left[q]]
                /\ main' = NextTest
                /\ outcome' = Report(Failed, <<>>)
           [] main.at = "user" ->
                /\ testProcs' = left
                /\ main' = [main EXCEPT !.at = "shell", !.pid = 0]
                /\ UNCHANGED outcome
  /\ UNCHANGED <<testFiles, frames, testPid, short, calls, boots, seeded>>

CallExit == AtCall({"exit"}) /\ ExitTo(TestCall[2])
FailExit == main.at \in {"run", "child"} /\ P.script = "failed" /\ ExitTo(1)

-----------------------------------------------------------------------------
(* The shell: programs of the user that ask for memory, and an admin who   *)
(* works in the directories of the tests.                                  *)

ExecProgram ==
  /\ main.at = "shell" /\ calls < MaxCalls
  /\ \E offset \in StackOffsets :
       LET mm == TestSpawn(Machine, "user", <<"user">>, 0, offset)
       IN  /\ Become(mm)
           /\ main' = IF mm.pid = 0 THEN main ELSE [main EXCEPT !.at = "user", !.pid = mm.pid]
  /\ calls' = calls + 1
  /\ UNCHANGED <<testFiles, frames, outcome, boots, seeded>>

UserCall(r) ==
  /\ calls < MaxCalls /\ calls' = calls + 1
  /\ freeFrames' = r.free
  /\ testProcs' = [testProcs EXCEPT ![main.pid] = r.p]
  /\ short' = (short \/ r.ret \in {ENOMEM, EPERM, ENOEXEC})
  /\ UNCHANGED <<testFiles, frames, testPid, main, outcome, boots, seeded>>

InProcess(r) == [free |-> r.free, ret |-> r.ret, p |-> [P EXCEPT !.space = r.s]]

UserBrk == main.at = "user" /\ \E a \in P.space.initialBrk..UserMmapTop :
             UserCall(InProcess(SysBrk(freeFrames, P.space, a)))

UserMmap ==
  main.at = "user" /\ \E len \in Lengths, anonymous \in BOOLEAN :
    UserCall(InProcess(SysMmap(freeFrames, P.space, len, anonymous)))

(* Any of the program's addresses, those of its code, heap and stack too   *)
(* (the kernel's own addresses are left out).  The pages that the program  *)
(* has unmapped are remembered in gone.                                    *)
UserMunmap ==
  /\ main.at = "user"
  /\ \E address \in 0..(UserStackTop - 1), len \in Lengths :
       LET r == SysMunmap(freeFrames, P.space, address, len)
           unmapped == DOMAIN P.space.map \ DOMAIN r.s.map
       IN  UserCall([free |-> r.free, ret |-> r.ret,
                     p |-> [P EXCEPT !.space = r.s, !.gone = @ \cup unmapped]])

UserExecve ==
  /\ main.at = "user"
  /\ \E offset \in StackOffsets :
       LET r == NewImage(P, "user", <<"user">>, offset)
       IN  UserCall([free |-> r.free, p |-> r.p, ret |-> IF r.ok THEN 0 ELSE ENOEXEC])

UserExit == main.at = "user" /\ ExitTo(0)

AdminCreates ==
  /\ main.at = "shell" /\ ~FilesFull(testFiles)
  /\ \E n \in ExtraNames :
       /\ <<"readdir-proof", n>> \notin DOMAIN testFiles
       /\ testFiles' = Put(testFiles, <<"readdir-proof", n>>, <<>>)
  /\ UNCHANGED <<frames, machine, main, outcome, calls, boots, seeded>>

(* The seeded files are read-only; the result of the write test is not.    *)
AdminDeletes ==
  /\ main.at = "shell"
  /\ \E p \in DOMAIN testFiles \ SeededPaths : p[1] # "home" /\ testFiles' = Without(testFiles, p)
  /\ UNCHANGED <<frames, machine, main, outcome, calls, boots, seeded>>

(* The power goes, now or at a shutdown, and comes back.                   *)
Restart ==
  /\ boots < MaxBoots /\ boots' = boots + 1
  /\ freeFrames' = frames /\ testProcs' = <<>> /\ testPid' = 2 /\ short' = FALSE
  /\ main' = [at |-> "seed", test |-> 0, pid |-> 0, parent |-> 0]
  /\ outcome' = NoOutcome /\ calls' = 0 /\ seeded' = {}
  /\ UNCHANGED <<testFiles, frames>>

TestsInit ==
  /\ \E n \in OldCounts : testFiles = [p \in {<<"home", i>> : i \in 1..n} |-> <<>>]
  /\ \E n \in FrameCounts : frames = 1..n /\ freeFrames = 1..n
  /\ testProcs = <<>> /\ testPid = 2 /\ short = FALSE
  /\ main = [at |-> "seed", test |-> 0, pid |-> 0, parent |-> 0]
  /\ outcome = NoOutcome /\ calls = 0 /\ boots = 1 /\ seeded = {}

TestsNext ==
  \/ SeedSystemFiles \/ RunProgram \/ SpawnWaitParent \/ SpawnWaitChild
  \/ SystemCall \/ CallBrk \/ CallWait \/ CallExecve \/ CallExit \/ FailExit
  \/ ExecProgram \/ UserBrk \/ UserMmap \/ UserMunmap \/ UserExecve \/ UserExit
  \/ AdminCreates \/ AdminDeletes \/ Restart

TestsSpec == TestsInit /\ [][TestsNext]_testvars

-----------------------------------------------------------------------------
(* Properties                                                              *)

Live == {q \in DOMAIN testProcs : testProcs[q].code < 0}

(* Frames that loader.rs and syscalls/memory.rs map have one owner: none   *)
(* is mapped for two programs or twice, and none is mapped and free, so    *)
(* what teardown, rollback, munmap and execve give back is not in use.     *)
OneOwner ==
  /\ \A q \in Live : SpaceFrames(testProcs[q].space) \cap freeFrames = {}
  /\ \A q \in Live : \A r \in Live \ {q} :
       SpaceFrames(testProcs[q].space) \cap SpaceFrames(testProcs[r].space) = {}

(* An address space stays whole through every brk, mmap, munmap and        *)
(* execve, those that run out of frames half way included: its frames are  *)
(* its own; a range that contains_user_range accepts is mapped, so that    *)
(* the kernel does not fault when it copies, unless the program has itself *)
(* unmapped it (sys_munmap does not tell the address space); the heap and  *)
(* what mmap has mapped do not meet, and no page between them is mapped.   *)
AddressSpacesHold ==
  /\ OneOwner
  /\ \A q \in Live :
       LET s == testProcs[q].space
       IN  /\ \A a \in 0..UserStackTop :
                ContainsUserRange(s, a, 1) => PageOf(a) \in DOMAIN s.map \cup testProcs[q].gone
           /\ s.brk <= s.mmapTop
           /\ \A p \in DOMAIN s.map :
                ~(p >= PageOf(AlignUp(s.brk)) /\ p < PageOf(s.mmapTop))

Expected(test) ==
  CASE test = "smoke" -> 42 [] test = "read" -> 43 [] test = "offset" -> 44
    [] test = "argv" -> 45 [] test = "exec" -> 46 [] test = "heap" -> 47
    [] test = "fault" -> 48 [] test = "wait" -> 49 [] test = "stat" -> 50
    [] test = "readdir" -> 51 [] test = "path" -> 52 [] test = "write" -> 53

(* Every boot's self-tests pass, also those of a boot after a power cut in *)
(* the middle of an earlier one, unless the machine has too little memory, *)
(* an admin has left a file in the directory of the readdir test, or the   *)
(* file table has no room for the file of the write test.  A test that     *)
(* passes has printed what the files hold, in their order, and none leaves *)
(* a process behind when the shell comes up.                               *)
SelfTestsPass ==
  /\ main.at = "shell" /\ ~short =>
       \A t \in DOMAIN outcome :
         \/ outcome[t].code = Expected(t)
         \/ t = "readdir" /\ \E n \in ExtraNames : <<"readdir-proof", n>> \in seeded
         \/ t = "write" /\ Cardinality(seeded) = FileSlots
  /\ outcome["read"].code = 43 => outcome["read"].out = ReadContent
  /\ outcome["offset"].code = 44 => outcome["offset"].out = OffsetContent
  /\ outcome["readdir"].code = 51 =>
       SubSeq(outcome["readdir"].out, 2, 4) = <<2, 4, 6>>
  /\ outcome["write"].code = 53 => Last(outcome["write"].out) = WriteContent[1]
  /\ main.at = "shell" => DOMAIN testProcs = {}

=============================================================================
