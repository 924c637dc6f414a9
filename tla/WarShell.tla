------------------------------ MODULE WarShell ------------------------------
(***************************************************************************)
(* The shell's command lines (kernel/src/shell/commands.rs) and the file   *)
(* system calls of a user program (kernel/src/exec/syscalls/file.rs) at    *)
(* work on one WarFS.                                                      *)
(*                                                                         *)
(* A command line is a tuple <<name, argument, ...>>; a pipe, a            *)
(* redirection or an alias holds further command lines.  The shell runs a  *)
(* line to its end before it reads the next one, and exec waits for the    *)
(* program it starts, so a line is one step and the system calls of a      *)
(* program are steps of their own during which no line runs.  Everything a *)
(* command prints is a sequence of tokens: the contents of files, "ok" for *)
(* a success message and "err" for an error message.  The machine state    *)
(* has, beside the fields of WarFiles,                                     *)
(*   capturing, buffer   the console's one output capture,                 *)
(*   aliases             the alias table,                                  *)
(*   up                  FALSE after the kernel has stopped.               *)
(***************************************************************************)
EXTENDS WarFiles

CONSTANTS
  CommandLines,  \* what may be typed at the prompt
  LineOf,        \* the command line that a token of a script spells
  ProgramPaths,  \* the paths programs pass to system calls
  ProgramBytes,  \* what programs write
  SysInfo,       \* the contents /sysinfo.txt may get at a boot
  MaxCapture,    \* the capture buffer's limit, in tokens
  MaxDepth,      \* nested command lines that fit on the kernel stack
  MaxOpen        \* a bound on the descriptors a program opens

VARIABLES m, fds

vars == <<m, fds>>

PipeBuf == Absolute(<<"tmp", ".pipe_buf">>)
SysInfoPath == <<"sys">>
ProofOutput == <<"d", "f">>

-----------------------------------------------------------------------------
(* Output and its capture                                                  *)

Say(mm, tokens) ==
  IF mm.capturing /\ Len(mm.buffer) + Len(tokens) <= MaxCapture
  THEN [mm EXCEPT !.buffer = @ \o tokens] ELSE mm

BeginCapture(mm) == [mm EXCEPT !.buffer = <<>>, !.capturing = TRUE]
EndCapture(mm) == [mm EXCEPT !.buffer = <<>>, !.capturing = FALSE]

(* The message that reports the result of an operation.                    *)
Report(r) == Say(r.m, <<IF r.err = "Ok" THEN "ok" ELSE "err">>)

-----------------------------------------------------------------------------
(* The commands                                                            *)

CmdCd(mm, in) == Report(ChangeDirectory(mm, in))
CmdMkdir(mm, in) == Report(MkdirCurrent(mm, in))
CmdRmdir(mm, in) == Report(RmdirCurrent(mm, in))
CmdWrite(mm, in, data) == Report(WriteCurrent(mm, in, data))
CmdRm(mm, in) == Report(DeleteCurrent(mm, in))
CmdTouch(mm, in) == Report(TouchCurrent(mm, in))
CmdChmod(mm, mode, in) == Report(ChmodCurrent(mm, in, mode))
CmdCp(mm, from, to) == Report(CopyCurrent(mm, from, to))
CmdMv(mm, from, to) == Report(MoveCurrent(mm, from, to))

(* The commands that only read print what they make of the contents.       *)
ShowText(mm, in, shown) ==
  Say(mm, IF ReadErr(mm, in) = "Ok" THEN shown ELSE <<"err">>)

CmdCat(mm, in) == ShowText(mm, in, ReadCurrent(mm, in))
CmdHead(mm, in, n) ==
  LET data == ReadCurrent(mm, in)
  IN ShowText(mm, in, SubSeq(data, 1, Min({n, Len(data)})))
CmdTail(mm, in, n) ==
  LET data == ReadCurrent(mm, in)
  IN ShowText(mm, in, SubSeq(data, Len(data) - Min({n, Len(data)}) + 1, Len(data)))
CmdGrep(mm, token, in) ==
  LET data == ReadCurrent(mm, in)
  IN ShowText(mm, in, IF token \in Range(data)
                      THEN SelectSeq(data, LAMBDA t : t = token) ELSE <<"ok">>)
CmdWc(mm, in) == ShowText(mm, in, <<"ok">>)
CmdStat(mm, in) == CmdWc(mm, in)

CmdDiff(mm, left, right) ==
  LET l == ReadCurrent(mm, left)
      r == ReadCurrent(mm, right)
      n == Max({Len(l), Len(r)})
      Line(i) == IF i <= Len(l) /\ i <= Len(r) /\ l[i] = r[i] THEN <<>>
                 ELSE (IF i <= Len(l) THEN <<l[i]>> ELSE <<>>)
                      \o (IF i <= Len(r) THEN <<r[i]>> ELSE <<>>)
  IN  Say(mm, IF ReadErr(mm, left) # "Ok" \/ ReadErr(mm, right) # "Ok" THEN <<"err">>
              ELSE IF l = r THEN <<"ok">> ELSE FlattenSeq([i \in 1..n |-> Line(i)]))

CmdLs(mm, in) ==
  LET p == ResolvePath(mm, in)
  IN  Say(mm, IF ListErr(mm, p) # "Ok" THEN <<"err">>
              ELSE IF ListEntries(mm, p) = {} THEN <<"ok">>
              ELSE [i \in 1..Cardinality(ListEntries(mm, p)) |-> "ok"])

(* A new session starts in the user's home.                                *)
SessionStart(mm, u) == [mm EXCEPT !.user = u, !.cwd = Home([user |-> u])]
CmdSu(mm, u, knows) ==
  IF Admin(mm) \/ knows THEN Say(SessionStart(mm, u), <<"ok">>) ELSE Say(mm, <<"err">>)
CmdLogout(mm) == [Say(mm, <<"ok">>) EXCEPT !.user = Nobody, !.cwd = <<>>]

CmdAlias(mm, name, line) == [mm EXCEPT !.aliases = (name :> line) @@ @]
CmdUnalias(mm, name) == [mm EXCEPT !.aliases = [n \in DOMAIN @ \ {name} |-> @[n]]]

-----------------------------------------------------------------------------
(* Command lines.  Lines nest through pipes, redirections, aliases and     *)
(* scripts; nothing in the code bounds the nesting but the kernel stack.   *)

RECURSIVE ExecuteCommand(_, _, _)

(* Nothing follows in a kernel that has stopped.                           *)
WhileUp(mm, next) == IF mm.up THEN next ELSE mm

(* The output that a command leaves in the capture buffer, and the state.  *)
CaptureCommandOutput(mm, line, depth) ==
  LET after == ExecuteCommand(BeginCapture(mm), line, depth)
  IN  [out |-> after.buffer, m |-> EndCapture(after)]

(* Mutant: the buffer file is left behind.                                 *)
BugExecutePiped(mm, left, right, depth) ==
  LET captured == CaptureCommandOutput(mm, left, depth)
  IN  ExecuteCommand(WriteCurrent(captured.m, PipeBuf, captured.out).m, right, depth)

(* The errors of writing and of deleting the pipe buffer are ignored.      *)
ExecutePiped(mm, left, right, depth) ==
  LET captured == CaptureCommandOutput(mm, left, depth)
      fed == WriteCurrent(captured.m, PipeBuf, captured.out).m
      done == ExecuteCommand(fed, right, depth)
  IN  WhileUp(captured.m, WhileUp(done, DeleteCurrent(done, PipeBuf).m))

(* When the file cannot be read, >> writes the new output alone.           *)
ExecuteAppend(mm, line, in, depth) ==
  LET captured == CaptureCommandOutput(mm, line, depth)
      old == IF ReadErr(captured.m, in) = "Ok" THEN ReadCurrent(captured.m, in) ELSE <<>>
  IN  WhileUp(captured.m, WriteCurrent(captured.m, in, old \o captured.out).m)

ExecuteRedirect(mm, line, in, depth) ==
  LET captured == CaptureCommandOutput(mm, line, depth)
      written == WriteCurrent(captured.m, in, captured.out)
  IN  WhileUp(captured.m, IF written.err = "Ok" THEN written.m ELSE Report(written))

(* A script stops for nothing: not for errors, nor for a logout.           *)
CmdSource(mm, in, depth) ==
  IF ReadErr(mm, in) # "Ok" THEN Say(mm, <<"err">>)
  ELSE FoldLeft(LAMBDA acc, t : IF t \in DOMAIN LineOf
                                THEN ExecuteCommand(acc, LineOf[t], depth)
                                ELSE Say(acc, <<"err">>),
                mm, ReadCurrent(mm, in))

ExecuteCommand(mm, line, depth) ==
  LET op == line[1]
  IN  CASE depth = 0 \/ ~mm.up -> [mm EXCEPT !.up = FALSE]
        [] op = "|"       -> ExecutePiped(mm, line[2], line[3], depth - 1)
        [] op = ">>"      -> ExecuteAppend(mm, line[2], line[3], depth - 1)
        [] op = ">"       -> ExecuteRedirect(mm, line[2], line[3], depth - 1)
        [] op = "<"       -> CmdCat(mm, line[2])
        [] op \in DOMAIN mm.aliases -> ExecuteCommand(mm, mm.aliases[op], depth - 1)
        [] op = "cd"      -> CmdCd(mm, line[2])
        [] op = "mkdir"   -> CmdMkdir(mm, line[2])
        [] op = "rmdir"   -> CmdRmdir(mm, line[2])
        [] op = "ls"      -> CmdLs(mm, line[2])
        [] op = "cat"     -> CmdCat(mm, line[2])
        [] op = "write"   -> CmdWrite(mm, line[2], line[3])
        [] op = "rm"      -> CmdRm(mm, line[2])
        [] op = "touch"   -> CmdTouch(mm, line[2])
        [] op = "stat"    -> CmdStat(mm, line[2])
        [] op = "cp"      -> CmdCp(mm, line[2], line[3])
        [] op = "mv"      -> CmdMv(mm, line[2], line[3])
        [] op = "grep"    -> CmdGrep(mm, line[2], line[3])
        [] op = "head"    -> CmdHead(mm, line[2], line[3])
        [] op = "tail"    -> CmdTail(mm, line[2], line[3])
        [] op = "wc"      -> CmdWc(mm, line[2])
        [] op = "diff"    -> CmdDiff(mm, line[2], line[3])
        [] op = "source"  -> CmdSource(mm, line[2], depth - 1)
        [] op = "chmod"   -> CmdChmod(mm, line[2], line[3])
        [] op = "su"      -> CmdSu(mm, line[2], line[3])
        [] op = "logout"  -> CmdLogout(mm)
        [] op = "echo"    -> Say(mm, line[2])
        [] op = "alias"   -> CmdAlias(mm, line[2], line[3])
        [] op = "unalias" -> CmdUnalias(mm, line[2])
        [] OTHER          -> Say(mm, <<"err">>)

-----------------------------------------------------------------------------
(* Descriptors of the running program; <<>> when no program runs.  One     *)
(* slot stands for the three standard descriptors a program starts with.   *)

Handle(kind, path, entries) ==
  [kind |-> kind, path |-> path, offset |-> 0, staged |-> <<>>, entries |-> entries]
NoHandle == Handle("None", <<>>, {})
Stdio == << Handle("Stdio", <<>>, {}) >>

Running == fds # <<>>
OpenFds == { i \in DOMAIN fds : fds[i].kind # "None" }
MayOpen == Running /\ Cardinality({ i \in OpenFds : fds[i].kind # "Stdio" }) < MaxOpen

(* The lowest free slot, or a new one at the end.                          *)
Insert(handle) ==
  LET i == SelectInSeq(fds, LAMBDA h : h.kind = "None")
  IN  fds' = IF i = 0 THEN Append(fds, handle) ELSE [fds EXCEPT ![i] = handle]

SysOpenRead(p) ==
  /\ MayOpen
  /\ WarexecPathErr(p) = "Ok" /\ ReadErr(m, Absolute(p)) = "Ok"
  /\ Insert(Handle("Read", p, {}))
  /\ UNCHANGED m

SysOpenDirectory(p) ==
  /\ MayOpen
  /\ WarexecPathErr(p) = "Ok" /\ ListErr(m, p) = "Ok"
  /\ Insert(Handle("Directory", p, ListEntries(m, p)))
  /\ UNCHANGED m

SysOpenCreate(p) ==
  /\ MayOpen
  /\ WarexecPathErr(p) = "Ok" /\ ValidateCreateNew(m, p) = "Ok"
  /\ Insert(Handle("Create", p, {}))
  /\ UNCHANGED m

(* Mutant: the offset advances by what was asked for.                      *)
BugSysRead(i, len) ==
  /\ fds[i].kind = "Read"
  /\ fds[i].offset <= MaxFileSize
  /\ fds' = [fds EXCEPT ![i].offset = @ + len]
  /\ UNCHANGED m

(* read answers from the file as it is now, from the descriptor's offset.  *)
SysRead(i, len) ==
  /\ fds[i].kind = "Read"
  /\ ReadErr(m, Absolute(fds[i].path)) = "Ok"
  /\ LET size == Len(ReadCurrent(m, Absolute(fds[i].path)))
         start == Min({fds[i].offset, size})
     IN  /\ start < Min({start + len, size})
         /\ fds' = [fds EXCEPT ![i].offset = Min({start + len, size})]
  /\ UNCHANGED m

(* write takes the whole buffer or, past the size limit, nothing.          *)
SysWrite(i, bytes) ==
  /\ fds[i].kind = "Create"
  /\ fds[i].offset + Len(bytes) <= MaxFileSize
  /\ fds' = [fds EXCEPT ![i].staged = SubSeq(@, 1, fds[i].offset) \o bytes,
                        ![i].offset = @ + Len(bytes)]
  /\ UNCHANGED m

SysReaddir(i) ==
  /\ fds[i].kind = "Directory"
  /\ \E e \in fds[i].entries : fds' = [fds EXCEPT ![i].entries = @ \ {e}]
  /\ UNCHANGED m

(* close commits what was staged; when that fails the descriptor stays.    *)
SysClose(i) ==
  /\ i \in OpenFds
  /\ LET r == CreateNewCurrent(m, fds[i].path, fds[i].staged)
     IN  IF fds[i].kind = "Create"
         THEN r.err = "Ok" /\ m' = r.m ELSE UNCHANGED m
  /\ fds' = [fds EXCEPT ![i] = NoHandle]

(* The exit of a program drops its table, staged writes included.          *)
SysExit ==
  /\ Running
  /\ fds' = <<>>
  /\ UNCHANGED m

-----------------------------------------------------------------------------
(* Boot: the files of the disk are loaded, then the system files seeded.   *)
(* An error of seeding stops the boot.                                     *)
SeedSystemFiles(mm, info) ==
  LET seeded == SeedSystem(mm, SysInfoPath, info)
      cleared == DeleteAs(seeded.m, ProofOutput)
  IN  CASE seeded.err # "Ok" -> [seeded.m EXCEPT !.up = FALSE]
        [] cleared.err \in {"Ok", "FileNotFound"} -> cleared.m
        [] OTHER -> [cleared.m EXCEPT !.up = FALSE]

Booted(disk, info) ==
  LET empty == [ram |-> <<>>, disk |-> disk, user |-> Nobody, cwd |-> <<>>,
                capturing |-> FALSE, buffer |-> <<>>, aliases |-> <<>>, up |-> TRUE]
      loaded == FoldSet(LAMBDA p, mm : LoadFileFromDisk(mm, p, disk[p]), empty, DOMAIN disk)
  IN  SeedSystemFiles(loaded, info)

Reboot ==
  /\ \E info \in SysInfo : m' = Booted(m.disk, info)
  /\ fds' = <<>>

Login ==
  /\ m.up /\ m.user = Nobody
  /\ \E u \in Users \cup {"root"} : m' = SessionStart(m, u)
  /\ UNCHANGED fds

(* One line typed at the prompt; a line that never returns stops the       *)
(* kernel with what was on the disk by then.                               *)
CommandLine(line) ==
  /\ m.up /\ m.user # Nobody /\ ~Running
  /\ m' = ExecuteCommand(m, line, MaxDepth)
  /\ UNCHANGED fds

(* exec starts a program and waits for it.                                 *)
CmdExec ==
  /\ m.up /\ m.user # Nobody /\ ~Running
  /\ fds' = Stdio
  /\ UNCHANGED m

Init == \E info \in SysInfo : m = Booted(<<>>, info) /\ fds = <<>>

LinesNext(lines) == \E line \in lines : CommandLine(line)

ProgramNext ==
  \/ CmdExec \/ SysExit
  \/ \E p \in ProgramPaths : SysOpenRead(p) \/ SysOpenDirectory(p) \/ SysOpenCreate(p)
  \/ \E i \in DOMAIN fds :
       \/ SysReaddir(i) \/ SysClose(i)
       \/ \E len \in 1..MaxFileSize : SysRead(i, len)
       \/ \E t \in ProgramBytes : SysWrite(i, <<t>>)

Next == Reboot \/ Login \/ LinesNext(CommandLines) \/ ProgramNext

Spec == Init /\ [][Next]_vars

-----------------------------------------------------------------------------
(* Properties                                                              *)

(* Every operation hands what it changed to the disk layer, so the disk    *)
(* holds the files of memory at every moment, and a crash loses nothing as *)
(* long as the device reports no error: disk/mod.rs drops one, which is    *)
(* WarDisk's subject. The permission bits alone may differ: a chmod that   *)
(* refuses its mode has changed them in memory by then.                    *)
DiskFollowsRam ==
  m.up => /\ DOMAIN m.disk = DOMAIN m.ram
          /\ \A p \in DOMAIN m.ram :
               [m.disk[p] EXCEPT !.perm = m.ram[p].perm] = m.ram[p]

(* While a session lasts, a command line or a system call changes a file   *)
(* only if the permissions it met in the step's first state allow it: the  *)
(* contents for those who may write, the mode and the existence for the    *)
(* owner, and nothing at all of a read-only file.  Lines nested in pipes,  *)
(* redirections, aliases and scripts are bound by it too.  A program       *)
(* cannot change or remove a file that exists: open checks that the path   *)
(* is new and close checks it again, so that of two descriptors on one new *)
(* path only the first to be closed commits.                               *)
OnlyTheEntitledChange ==
  [][ m'.up /\ m.user = m'.user =>
        \A p \in DOMAIN m.ram :
          LET old == m.ram[p]
              Kept == p \in DOMAIN m'.ram
          IN  (Kept => m'.ram[p] # old) =>
                /\ ~Running
                /\ m.user # Nobody =>
                     /\ ~old.readonly
                     /\ Kept /\ m'.ram[p].perm = old.perm => CanWrite(m, old.perm)
                     /\ ~Kept \/ m'.ram[p].perm # old.perm => Admin(m) \/ old.owner = m.user
    ]_vars

(* At the prompt the console is not capturing, whatever lines were nested  *)
(* in captured ones, and a pipe has removed its buffer file, unless the    *)
(* piped command changed the session's user.                               *)
PipesCleanUp ==
  [][ m'.up => /\ ~m'.capturing /\ m'.buffer = <<>>
               /\ PipeBuf.comps \in DOMAIN m'.ram =>
                    PipeBuf.comps \in DOMAIN m.ram \/ m'.user # m.user ]_vars

=============================================================================
