--------------------------- MODULE ExecSchedSteps ---------------------------
(***************************************************************************)
(* The inductive invariant of ExecSched, and that the steps of the kernel  *)
(* thread and of the timer preserve it.  The steps that take elements out  *)
(* of a sequence, and the theorems, are in ExecSchedProofs.                *)
(***************************************************************************)
EXTENDS ExecSched, Integers, TLAPS

\* The steps of ensure_shell_process.
EnsurePcs == {"ensure", "mkshell", "setcur"}

\* Where the shell loop, at the bottom of the stack, can be.
Main == {"loop", "ready", "reset", "forget", "login"}

\* Where a frame that has called others goes on; the first three only when
\* ensure_shell_process returns.
Callers == {"spawn", "exec", "disable"}
Resting == {"loop", "ready", "exit", "gui", "events", "tick"}

\* What a frame's own fields say.
FrameOK(f) ==
    /\ f.pc \in {"spawn", "enqueue"} => f.n \in Prios
    /\ f.pc \in {"spawn", "enqueue", "task"} => f.cmd \in Bodies
    /\ f.pc \in {"enqueue", "task"} => f.pid # 0
    /\ f.pc = "su" => f.n \in Users \cup {0}

\* The foreground thread's stack: the shell loop is at its bottom and nowhere
\* else, so that no return empties it; what waits for ensure_shell_process is
\* right behind it.
Stack(s) ==
    /\ s \in Seq(Frames) /\ s # <<>>
    /\ \A i \in 1..Len(s) : FrameOK(s[i])
    /\ \A i \in 1..Len(s) : s[i].pc \in Main <=> i = Len(s)
    /\ \A i \in 2..Len(s) : \/ s[i].pc \in Resting
                            \/ s[i].pc \in Callers /\ i = 2 /\ s[1].pc \in EnsurePcs
    /\ s[1].pc \in EnsurePcs => s[2].pc \in Callers \cup {"ready"}

IsElf(p) == InTable(p) /\ procs[p].kind = "elf"

IsShell(p) == InTable(p) /\ procs[p].kind = "shell"

\* ensure_shell_process would find its shell.
ShellThere == InTable(shellPid) /\ procs[shellPid].uid = user

\* Between spawn_process and the switch to the program: if a tick has already
\* chosen it, it has activated its stack, and the shell is there to come back to.
Loaded(p) == IsElf(p) /\ procs[p].prio = Normal /\ ShellThere /\ (current = p => kstack = p)

\* The kernel stack in use is that of a program; the shell is a shell, also when
\* ensure_shell_process fell back on pid 1, which is in use no more.
Kinds ==
    /\ kstack # 0 => IsElf(kstack)
    /\ InTable(shellPid) => procs[shellPid].kind = "shell"
    /\ ~InTable(1)

\* The scheduler is off in run_user_process_with_reap and nowhere else.
OffPcs == {"mark", "switch", "get", "user", "restore"}
OffInRun == ~enabled <=> Pc \in OffPcs

\* What each step of exec owes the next.
ExecOK ==
    /\ Pc = "setcur" => fg[1].pid = shellPid
    /\ Pc = "exec" => Full \/ ShellThere
    /\ Pc = "setcur" /\ fg[2].pc = "exec" => Full \/ ShellThere
    /\ Pc \in {"load", "disable"} => Loaded(fg[1].pid)
    /\ Pc \in EnsurePcs /\ fg[2].pc = "disable" => Loaded(fg[2].pid) /\ Pc # "mkshell"
    /\ Pc = "disable" => fg[1].sh = shellPid
    /\ Pc \in {"mark", "switch", "get", "user", "restore", "reshell", "teardown", "reap"}
          => IsElf(fg[1].pid) /\ IsShell(fg[1].sh)
    /\ Pc \in {"mark", "switch"} => (current = fg[1].pid => kstack = fg[1].pid)
    /\ Pc \in {"get", "user"} => current = fg[1].pid /\ kstack = fg[1].pid
    /\ Pc \in {"switch", "get", "user"} => procs[fg[1].pid].state = "running"
    /\ Pc = "restore" => current = 0
    /\ Pc \in {"reshell", "teardown", "reap"} => kstack = 0
    /\ Pc \in {"restore", "reshell", "teardown", "reap"}
          => procs[fg[1].pid].state = "zombie" /\ procs[fg[1].pid].exited

\* A process of the table waits in the queue of its priority only.
QueueOK ==
    /\ QueuedOnce
    /\ \A i \in Prios : \A a \in DOMAIN queues[i] :
          InTable(queues[i][a]) => procs[queues[i][a]].prio = i

\* spawn_shell_command queues what it has just made.
SpawnOK == Pc = "enqueue" => InTable(fg[1].pid) /\ procs[fg[1].pid].prio = fg[1].n

\* The inductive invariant.
IInv == TypeOK /\ Stack(fg) /\ Kinds /\ OffInRun /\ ExecOK /\ QueueOK /\ SpawnOK

-----------------------------------------------------------------------------
(* Sequences. *)

\* The length and the elements of a sequence.
LEMMA Lens ==
    ASSUME NEW S, NEW s \in Seq(S)
    PROVE  /\ Len(s) \in Nat /\ DOMAIN s = 1..Len(s)
           /\ \A i \in 1..Len(s) : s[i] \in S
           /\ s = <<>> <=> Len(s) = 0
OBVIOUS

\* A sequence over a set is one over any larger set.
LEMMA Widened ==
    ASSUME NEW S, NEW T, S \subseteq T, NEW s \in Seq(S) PROVE s \in Seq(T)
OBVIOUS

\* One element replaced: the length stays, the others stay.
LEMMA Replaced ==
    ASSUME NEW S, NEW s \in Seq(S), NEW k \in 1..Len(s), NEW x \in S
    PROVE  /\ [s EXCEPT ![k] = x] \in Seq(S) /\ Len([s EXCEPT ![k] = x]) = Len(s)
           /\ \A i \in 1..Len(s) : [s EXCEPT ![k] = x][i] = IF i = k THEN x ELSE s[i]
OBVIOUS

\* The elements of a concatenation.
LEMMA Joined ==
    ASSUME NEW S, NEW s \in Seq(S), NEW t \in Seq(S)
    PROVE  /\ s \o t \in Seq(S) /\ Len(s \o t) = Len(s) + Len(t)
           /\ \A i \in 1..Len(s) : (s \o t)[i] = s[i]
           /\ \A i \in 1..Len(t) : (s \o t)[Len(s) + i] = t[i]
           /\ s = <<>> => s \o t = t
OBVIOUS

\* The head and the tail of a sequence that is not empty.
LEMMA Split ==
    ASSUME NEW S, NEW s \in Seq(S), s # <<>>
    PROVE  /\ Head(s) \in S /\ Tail(s) \in Seq(S) /\ Len(Tail(s)) = Len(s) - 1
           /\ \A i \in 1..Len(Tail(s)) : Tail(s)[i] = s[i + 1]
OBVIOUS

\* The elements of a sequence after push_back.
LEMMA Appended ==
    ASSUME NEW S, NEW s \in Seq(S), NEW x \in S
    PROVE  /\ Append(s, x) \in Seq(S) /\ Len(Append(s, x)) = Len(s) + 1
           /\ \A i \in 1..Len(s) : Append(s, x)[i] = s[i]
           /\ Append(s, x)[Len(s) + 1] = x
OBVIOUS

-----------------------------------------------------------------------------
(* The stack of the foreground thread. *)

\* The frames' pids are all in P.
PidsIn(s, P) == \A i \in 1..Len(s) : s[i].pid \in P

\* The stack is never empty, so the running frame exists.
LEMMA StackShape ==
    ASSUME NEW s, Stack(s)
    PROVE  /\ Len(s) \in Nat \ {0} /\ DOMAIN s = 1..Len(s)
           /\ \A i \in 1..Len(s) : s[i] \in Frames
           /\ s[1].pc \notin Main => Len(s) >= 2
<1>1. s \in Seq(Frames) /\ s # <<>> BY DEF Stack
<1>2. Len(s) \in Nat \ {0} /\ DOMAIN s = 1..Len(s) BY <1>1, Lens
<1>3. \A i \in 1..Len(s) : s[i] \in Frames BY <1>1, <1>2, Lens
<1>4. 1 \in 1..Len(s) BY <1>2
<1>5. s[1].pc \in Main <=> 1 = Len(s) BY <1>4, Zenon DEF Stack
<1> QED BY <1>2, <1>3, <1>5

\* The running frame is replaced.
LEMMA SetTop ==
    ASSUME NEW s, Stack(s), NEW r \in Frames, FrameOK(r),
           r.pc \in Main <=> s[1].pc \in Main,
           r.pc \in EnsurePcs <=> s[1].pc \in EnsurePcs,
           NEW t, t = [s EXCEPT ![1] = r]
    PROVE  Stack(t)
<1>1. Len(s) \in Nat \ {0} /\ s \in Seq(Frames) /\ 1 \in 1..Len(s)
  BY StackShape DEF Stack
<1>2. t \in Seq(Frames) /\ Len(t) = Len(s)
      /\ \A j \in 1..Len(s) : t[j] = IF j = 1 THEN r ELSE s[j]
  BY <1>1, Replaced
<1>3. t[1] = r /\ \A i \in 2..Len(s) : t[i] = s[i] BY <1>1, <1>2
<1>4. t # <<>> BY <1>1, <1>2, Lens
<1>5. \A i \in 1..Len(t) : FrameOK(t[i]) BY <1>2, Zenon DEF Stack
<1>6. \A i \in 1..Len(t) : t[i].pc \in Main <=> i = Len(t) BY <1>1, <1>2, ZenonT(60) DEF Stack
<1>7. \A i \in 2..Len(t) : \/ t[i].pc \in Resting
                           \/ t[i].pc \in Callers /\ i = 2 /\ t[1].pc \in EnsurePcs
  BY <1>1, <1>2, <1>3, Zenon DEF Stack
<1>8. t[1].pc \in EnsurePcs => t[2].pc \in Callers \cup {"ready"}
  <2>1. CASE s[1].pc \in EnsurePcs
    <3>1. Len(s) >= 2 BY <2>1, StackShape DEF EnsurePcs, Main
    <3> QED BY <2>1, <3>1, <1>1, <1>3 DEF Stack
  <2> QED BY <2>1, <1>3
<1> QED BY <1>2, <1>3, <1>4, <1>5, <1>6, <1>7, <1>8, Zenon DEF Stack

\* Goto, and Goto with a pid.
LEMMA GotoFacts ==
    ASSUME Stack(fg), NEW P, PidsIn(fg, P),
           NEW pc \in Pcs, Goto(pc),
           pc \notin {"spawn", "enqueue", "su"}, pc = "task" => fg[1].pc = "enqueue",
           pc \in Main <=> fg[1].pc \in Main,
           pc \in EnsurePcs <=> fg[1].pc \in EnsurePcs
    PROVE  /\ Stack(fg') /\ PidsIn(fg', P) /\ Len(fg') = Len(fg)
           /\ fg'[1].pc = pc /\ fg'[1].pid = fg[1].pid /\ fg'[1].sh = fg[1].sh
           /\ \A i \in 2..Len(fg) : fg'[i] = fg[i]
<1> DEFINE r == [fg[1] EXCEPT !.pc = pc]
<1>1. Len(fg) \in Nat \ {0} /\ DOMAIN fg = 1..Len(fg) /\ fg[1] \in Frames /\ FrameOK(fg[1])
  BY StackShape DEF Stack
<1>2. fg' = [fg EXCEPT ![1] = r] BY <1>1 DEF Goto
<1>3. r \in Frames /\ r.pc = pc /\ r.pid = fg[1].pid /\ r.sh = fg[1].sh /\ r.n = fg[1].n
      /\ r.cmd = fg[1].cmd
  BY <1>1 DEF Frames
<1>4. FrameOK(r) BY <1>1, <1>3 DEF FrameOK
<1>m. (r.pc \in Main <=> fg[1].pc \in Main) /\ (r.pc \in EnsurePcs <=> fg[1].pc \in EnsurePcs)
  BY <1>3
<1> HIDE DEF r
<1>s. Stack(fg') BY <1>2, <1>3, <1>4, <1>m, SetTop, Zenon
<1>e. Len(fg') = Len(fg) /\ \A j \in 1..Len(fg) : fg'[j] = IF j = 1 THEN r ELSE fg[j]
  <2>0. fg \in Seq(Frames) BY Zenon DEF Stack
  <2>1. fg \in Seq(Frames) /\ 1 \in 1..Len(fg) BY <1>1, <2>0
  <2> QED BY <1>2, <1>3, <2>1, Replaced
<1>5. fg'[1] = r /\ \A i \in 2..Len(fg) : fg'[i] = fg[i]
  <2>1. 1 \in 1..Len(fg) /\ \A i \in 2..Len(fg) : i \in 1..Len(fg) /\ i # 1 BY <1>1
  <2> QED BY <1>e, <2>1
<1>6. PidsIn(fg', P) BY <1>1, <1>3, <1>5, <1>e DEF PidsIn
<1> QED BY <1>3, <1>5, <1>6, <1>e, <1>s

GotoPid(pc, p) == fg' = [fg EXCEPT ![1].pc = pc, ![1].pid = p]

\* The running frame goes on with another pid: the stack stays a stack.
LEMMA GotoPidFacts ==
    ASSUME Stack(fg), NEW P, PidsIn(fg, P),
           NEW pc \in Pcs, NEW p \in Nat, p \in P,
           GotoPid(pc, p),
           pc \notin {"spawn", "task", "su"},
           pc = "enqueue" => fg[1].pc = "spawn" /\ p # 0,
           pc \in Main <=> fg[1].pc \in Main,
           pc \in EnsurePcs <=> fg[1].pc \in EnsurePcs
    PROVE  /\ Stack(fg') /\ PidsIn(fg', P) /\ Len(fg') = Len(fg)
           /\ fg'[1].pc = pc /\ fg'[1].pid = p /\ fg'[1].n = fg[1].n
           /\ \A i \in 2..Len(fg) : fg'[i] = fg[i]
<1> DEFINE r == [fg[1] EXCEPT !.pc = pc, !.pid = p]
<1>1. Len(fg) \in Nat \ {0} /\ DOMAIN fg = 1..Len(fg) /\ fg[1] \in Frames /\ FrameOK(fg[1])
  BY StackShape DEF Stack
<1>2. fg' = [fg EXCEPT ![1] = r] BY <1>1, Zenon DEF GotoPid
<1>3. r \in Frames /\ r.pc = pc /\ r.pid = p /\ r.sh = fg[1].sh /\ r.n = fg[1].n
      /\ r.cmd = fg[1].cmd
  BY <1>1, Zenon DEF Frames
<1>4. FrameOK(r) BY <1>1, <1>3 DEF FrameOK
<1>m. (r.pc \in Main <=> fg[1].pc \in Main) /\ (r.pc \in EnsurePcs <=> fg[1].pc \in EnsurePcs)
  BY <1>3
<1> HIDE DEF r
<1>s. Stack(fg') BY <1>2, <1>3, <1>4, <1>m, SetTop, Zenon
<1>e. Len(fg') = Len(fg) /\ \A j \in 1..Len(fg) : fg'[j] = IF j = 1 THEN r ELSE fg[j]
  <2>0. fg \in Seq(Frames) BY Zenon DEF Stack
  <2>1. fg \in Seq(Frames) /\ 1 \in 1..Len(fg) BY <1>1, <2>0
  <2> QED BY <1>2, <1>3, <2>1, Replaced
<1>5. fg'[1] = r /\ \A i \in 2..Len(fg) : fg'[i] = fg[i]
  <2>1. 1 \in 1..Len(fg) /\ \A i \in 2..Len(fg) : i \in 1..Len(fg) /\ i # 1 BY <1>1
  <2> QED BY <1>e, <2>1
<1>6. PidsIn(fg', P) BY <1>1, <1>3, <1>5, <1>e DEF PidsIn
<1> QED BY <1>3, <1>5, <1>6, <1>e, <1>s

\* A return, which finds a frame that called.
LEMMA ReturnFacts ==
    ASSUME Stack(fg), NEW P, PidsIn(fg, P), Return,
           fg[1].pc \notin Main \cup EnsurePcs
    PROVE  Stack(fg') /\ PidsIn(fg', P) /\ fg'[1].pc \in Resting
<1>1. Len(fg) \in Nat \ {0} /\ Len(fg) >= 2 /\ fg \in Seq(Frames) /\ fg # <<>>
  BY StackShape DEF Stack
<1>2. fg' \in Seq(Frames) /\ Len(fg') = Len(fg) - 1 /\ \A i \in 1..Len(fg') : fg'[i] = fg[i + 1]
  BY <1>1, Split DEF Return
<1>3. fg' # <<>> BY <1>1, <1>2, Lens
<1>4. \A i \in 1..Len(fg') : i + 1 \in 2..Len(fg) /\ i + 1 \in 1..Len(fg) /\ (i = Len(fg') <=> i + 1 = Len(fg))
  BY <1>1, <1>2
<1>5. \A i \in 1..Len(fg') : FrameOK(fg'[i]) /\ fg'[i].pc \in Resting
                              /\ (fg'[i].pc \in Main <=> i = Len(fg'))
  BY <1>2, <1>4, Zenon DEF Stack
<1>6. 1 \in 1..Len(fg') /\ 2..Len(fg') \subseteq 1..Len(fg') BY <1>1, <1>2
<1>7. fg'[1].pc \in Resting /\ fg'[1].pc \notin EnsurePcs
  BY <1>5, <1>6 DEF Resting, EnsurePcs
<1>8. Stack(fg') BY <1>2, <1>3, <1>5, <1>6, <1>7 DEF Stack
<1>9. PidsIn(fg', P) BY <1>2, <1>4 DEF PidsIn
<1> QED BY <1>7, <1>8, <1>9

\* What execute_command may call: nothing, one step of a command, or
\* ensure_shell_process on behalf of a spawn or an exec.
Callable(frames, P) ==
    /\ frames \in Seq(Frames) /\ PidsIn(frames, P)
    /\ \A i \in 1..Len(frames) : FrameOK(frames[i])
    /\ \/ Len(frames) = 0
       \/ Len(frames) = 1 /\ frames[1].pc \in {"kill", "wait", "tasks", "dropper", "su", "gui", "tick"}
       \/ Len(frames) = 2 /\ frames[1].pc = "ensure" /\ frames[2].pc \in {"spawn", "exec"}

\* The frame of ensure_shell_process has the type of a frame and names no process
\* yet.
LEMMA EnsureFrame ==
    /\ Ensure \in Frames /\ FrameOK(Ensure) /\ Ensure.pc = "ensure" /\ Ensure.pid = 0
BY DEF Ensure, Frame, Frames, Pcs, FrameOK

\* The frames of spawn_shell_command: ensure_shell_process first.
LEMMA SpawnFrame ==
    ASSUME NEW prio \in Prios, NEW body \in Bodies, NEW P, 0 \in P
    PROVE  Callable(SpawnFrames(prio, body), P)
<1> DEFINE f == [Frame("spawn") EXCEPT !.n = prio, !.cmd = body]
<1>1. f \in Frames /\ f.pc = "spawn" /\ f.pid = 0 /\ f.n = prio /\ f.cmd = body
  BY SizesAssumption, Zenon DEF Frame, Frames, Pcs
<1>2. FrameOK(f) BY <1>1 DEF FrameOK
<1>3. SpawnFrames(prio, body) = <<Ensure, f>> BY DEF SpawnFrames
<1> HIDE DEF f
<1>4. <<Ensure, f>> \in Seq(Frames) /\ Len(<<Ensure, f>>) = 2
      /\ <<Ensure, f>>[1] = Ensure /\ <<Ensure, f>>[2] = f
  BY <1>1, EnsureFrame
<1>5. \A i \in 1..2 : <<Ensure, f>>[i] = Ensure \/ <<Ensure, f>>[i] = f
  BY <1>4
<1> QED BY <1>1, <1>2, <1>3, <1>4, <1>5, EnsureFrame DEF Callable, PidsIn

\* The frames of exec: ensure_shell_process first.
LEMMA ExecFrame ==
    ASSUME NEW P, 0 \in P
    PROVE  Callable(<<Ensure, Frame("exec")>>, P)
<1> DEFINE f == Frame("exec")
<1>1. f \in Frames /\ f.pc = "exec" /\ f.pid = 0 BY DEF Frame, Frames, Pcs
<1>2. FrameOK(f) BY <1>1 DEF FrameOK
<1> HIDE DEF f
<1>4. <<Ensure, f>> \in Seq(Frames) /\ Len(<<Ensure, f>>) = 2
      /\ <<Ensure, f>>[1] = Ensure /\ <<Ensure, f>>[2] = f
  BY <1>1, EnsureFrame
<1>5. \A i \in 1..2 : <<Ensure, f>>[i] = Ensure \/ <<Ensure, f>>[i] = f
  BY <1>4
<1>6. Callable(<<Ensure, f>>, P)
  BY <1>1, <1>2, <1>4, <1>5, EnsureFrame DEF Callable, PidsIn
<1> QED BY <1>6 DEF f

\* A single frame that is neither the loop nor ensure_shell_process.
LEMMA OneFrame ==
    ASSUME NEW P, NEW f \in Frames, FrameOK(f), f.pid \in P,
           f.pc \in {"kill", "wait", "tasks", "dropper", "su", "gui", "tick"}
    PROVE  Callable(<<f>>, P)
<1>1. <<f>> \in Seq(Frames) /\ Len(<<f>>) = 1 /\ <<f>>[1] = f OBVIOUS
<1>2. \A i \in 1..1 : <<f>>[i] = f BY <1>1
<1> QED BY <1>1, <1>2 DEF Callable, PidsIn

\* A command that calls nothing.
LEMMA NoFrames == ASSUME NEW P PROVE Callable(<<>>, P)
BY Lens DEF Callable, PidsIn

\* A command line's frames can be called.
LEMMA FramesOfFacts ==
    ASSUME nextPid \in Nat \ {0, 1}, NEW c, NEW frames \in FramesOf(c)
    PROVE  Callable(frames, Issued \cup {0})
<1> DEFINE P == Issued \cup {0}
<1>0. 0 \in P OBVIOUS
<1> HIDE DEF P
<1>1. CASE \E i \in Prios, b \in Bodies : frames = SpawnFrames(i, b)
  BY <1>0, <1>1, SpawnFrame DEF P
<1>2. CASE frames = <<Ensure, Frame("exec")>>
  BY <1>0, <1>2, ExecFrame DEF P
<1>3. ASSUME NEW p \in 1..nextPid - 1, NEW pc \in {"kill", "wait"},
             frames = <<[Frame(pc) EXCEPT !.pid = p]>>
      PROVE  Callable(frames, P)
  <2> DEFINE f == [Frame(pc) EXCEPT !.pid = p]
  <2>1. p \in Nat /\ p \in P BY DEF P, Issued
  <2>2. f \in Frames /\ f.pc = pc /\ f.pid = p BY <2>1 DEF Frame, Frames, Pcs
  <2>3. FrameOK(f) BY <2>2 DEF FrameOK
  <2> HIDE DEF f
  <2>4. Callable(<<f>>, P) BY <2>1, <2>2, <2>3, OneFrame
  <2> QED BY <1>3, <2>4 DEF f
<1>4. ASSUME NEW pc \in {"tasks", "dropper", "gui"}, frames = <<Frame(pc)>>
      PROVE  Callable(frames, P)
  <2> DEFINE f == Frame(pc)
  <2>2. f \in Frames /\ f.pc = pc /\ f.pid = 0 BY DEF Frame, Frames, Pcs
  <2>3. FrameOK(f) BY <2>2 DEF FrameOK
  <2> HIDE DEF f
  <2>4. Callable(<<f>>, P) BY <1>0, <2>2, <2>3, OneFrame
  <2> QED BY <1>4, <2>4 DEF f
<1>5. ASSUME NEW u \in Users \cup {0}, frames = <<[Frame("su") EXCEPT !.n = u]>>
      PROVE  Callable(frames, P)
  <2> DEFINE f == [Frame("su") EXCEPT !.n = u]
  <2>1. u \in Nat BY UsersAssumption
  <2>2. f \in Frames /\ f.pc = "su" /\ f.pid = 0 /\ f.n = u BY <2>1 DEF Frame, Frames, Pcs
  <2>3. FrameOK(f) BY <2>2 DEF FrameOK
  <2> HIDE DEF f
  <2>4. Callable(<<f>>, P) BY <1>0, <2>2, <2>3, OneFrame
  <2> QED BY <1>5, <2>4 DEF f
<1>6. CASE frames = <<>> BY <1>6, NoFrames DEF P
<1>7. \/ \E i \in Prios, b \in Bodies : frames = SpawnFrames(i, b)
      \/ frames = <<Ensure, Frame("exec")>>
      \/ \E p \in 1..nextPid - 1, pc \in {"kill", "wait"} :
            frames = <<[Frame(pc) EXCEPT !.pid = p]>>
      \/ \E pc \in {"tasks", "dropper", "gui"} : frames = <<Frame(pc)>>
      \/ \E u \in Users \cup {0} : frames = <<[Frame("su") EXCEPT !.n = u]>>
      \/ frames = <<>>
  <2>1. Batch \in Prios /\ Normal \in Prios BY SizesAssumption
  <2> HIDE DEF P
  <2>2. CASE c = "spawn" BY <2>1, <2>2 DEF FramesOf
  <2>3. CASE c = "script" BY <2>1, <2>3 DEF FramesOf
  <2>4. CASE c = "nice" BY <2>4 DEF FramesOf
  <2>5. CASE c = "exec" BY <2>5 DEF FramesOf
  <2>6. CASE c = "kill" BY <2>6 DEF FramesOf
  <2>7. CASE c = "wait" BY <2>7 DEF FramesOf
  <2>8. CASE c = "tasks" BY <2>8 DEF FramesOf
  <2>9. CASE c = "drop" BY <2>9 DEF FramesOf
  <2>10. CASE c = "su" BY <2>10 DEF FramesOf
  <2>11. CASE c = "logout" BY <2>11, SMTT(60) DEF FramesOf
  <2>12. CASE c = "startx" /\ ~GuiActive BY <2>12 DEF FramesOf
  <2>13. CASE /\ c \notin {"spawn", "script", "nice", "exec", "kill", "wait", "tasks",
                           "drop", "su", "logout"}
              /\ ~(c = "startx" /\ ~GuiActive)
    BY <2>13 DEF FramesOf
  <2> QED BY <2>2, <2>3, <2>4, <2>5, <2>6, <2>7, <2>8, <2>9, <2>10, <2>11, <2>12, <2>13, Zenon
<1> QED BY <1>1, <1>2, <1>3, <1>4, <1>5, <1>6, <1>7, Zenon DEF P

\* t is u with frames put in front of it.
OnTop(t, frames, u) ==
    /\ t \in Seq(Frames) /\ Len(t) = Len(frames) + Len(u)
    /\ \A i \in 1..Len(frames) : t[i] = frames[i]
    /\ \A j \in 1..Len(u) : t[Len(frames) + j] = u[j]
    /\ \A i \in 1..Len(t) : \/ i \in 1..Len(frames)
                            \/ \E j \in 1..Len(u) : i = Len(frames) + j

\* The places of a stack with frames put in front.
LEMMA Places ==
    ASSUME NEW u \in Seq(Frames), NEW frames \in Seq(Frames)
    PROVE  OnTop(frames \o u, frames, u)
<1> DEFINE t == frames \o u
<1>1. Len(u) \in Nat /\ Len(frames) \in Nat BY Lens
<1>2. /\ t \in Seq(Frames) /\ Len(t) = Len(frames) + Len(u)
      /\ \A i \in 1..Len(frames) : t[i] = frames[i]
      /\ \A j \in 1..Len(u) : t[Len(frames) + j] = u[j]
  BY Joined
<1> HIDE DEF t
<1>3. ASSUME NEW n \in Nat, NEW m \in Nat
      PROVE  \A i \in 1..n + m : i \in 1..n \/ (i - n \in 1..m /\ i = n + (i - n))
  OBVIOUS
<1>4. ASSUME NEW i \in 1..Len(t)
      PROVE  i \in 1..Len(frames) \/ \E j \in 1..Len(u) : i = Len(frames) + j
  <2>1. i \in 1..Len(frames) + Len(u) BY ONLY <1>2, i \in 1..Len(t), Zenon
  <2>2. \/ i \in 1..Len(frames)
        \/ i - Len(frames) \in 1..Len(u) /\ i = Len(frames) + (i - Len(frames))
    BY ONLY <1>1, <1>3, <2>1
  <2> QED BY ONLY <2>2, Zenon
<1>5. OnTop(t, frames, u) BY ONLY <1>2, <1>4 DEF OnTop
<1> QED BY <1>5 DEF t

\* Frames are put in front of a frame that waits for them.
LEMMA PushedStack ==
    ASSUME NEW u, Stack(u), NEW k \in {1, 2}, NEW frames, NEW t \in Seq(Frames),
           Len(t) = k + Len(u),
           \A i \in 1..k : t[i] = frames[i], \A j \in 1..Len(u) : t[k + j] = u[j],
           \A i \in 1..Len(t) : i \in 1..k \/ \E j \in 1..Len(u) : i = k + j,
           \A i \in 1..k : FrameOK(frames[i]),
           \/ k = 1 /\ frames[1].pc \notin Main \cup EnsurePcs /\ u[1].pc \in Resting
           \/ k = 1 /\ frames[1].pc \in EnsurePcs /\ u[1].pc \in {"ready", "disable"}
           \/ /\ k = 2 /\ frames[1].pc = "ensure" /\ frames[2].pc \in {"spawn", "exec"}
              /\ u[1].pc \in Resting
    PROVE  Stack(t)
<1>1. u \in Seq(Frames) /\ Len(u) \in Nat \ {0} BY StackShape DEF Stack
<1>2. t # <<>> BY <1>1, Lens
<1>3. u[1].pc \notin EnsurePcs BY DEF EnsurePcs, Resting
<1>4. \A j \in 1..Len(u) : /\ FrameOK(u[j]) /\ (u[j].pc \in Main <=> j = Len(u))
                           /\ j > 1 => u[j].pc \in Resting
  BY <1>1, <1>3 DEF Stack
<1>5. \A i \in 1..k : frames[i].pc \notin Main BY DEF Main, EnsurePcs
<1>6. ASSUME NEW i \in 1..Len(t) PROVE FrameOK(t[i]) /\ (t[i].pc \in Main <=> i = Len(t))
  <2>1. CASE i \in 1..k
    <3>1. i # Len(t) BY <1>1, <2>1
    <3> QED BY <1>5, <2>1, <3>1
  <2>2. ASSUME NEW j \in 1..Len(u), i = k + j
        PROVE  FrameOK(t[i]) /\ (t[i].pc \in Main <=> i = Len(t))
    <3>1. i = Len(t) <=> j = Len(u) BY <1>1, <2>2
    <3> QED BY <1>4, <2>2, <3>1
  <2> QED BY <2>1, <2>2
<1>7. t[1] = frames[1] BY <1>1
<1>8. t[2] = IF k = 2 THEN frames[2] ELSE u[1]
  <2>1. CASE k = 2 BY <2>1
  <2>2. CASE k = 1
    <3>1. 1 \in 1..Len(u) /\ k + 1 = 2 BY <1>1, <2>2
    <3> QED BY <2>2, <3>1
  <2> QED BY <2>1, <2>2
<1>9. ASSUME NEW i \in 2..Len(t)
      PROVE  t[i].pc \in Resting \/ (t[i].pc \in Callers /\ i = 2 /\ t[1].pc \in EnsurePcs)
  <2>1. CASE i = 2
    BY <1>7, <1>8, <2>1 DEF Callers, EnsurePcs, Resting
  <2>2. CASE i > 2
    <3>1. i \in 1..Len(t) /\ i \notin 1..k BY <1>1, <2>2
    <3>2. PICK j \in 1..Len(u) : i = k + j BY <3>1
    <3>3. t[i] = u[j] BY <3>2
    <3>4. CASE j = 1
      <4>1. k = 2 BY <2>2, <3>2, <3>4
      <4> QED BY <3>3, <3>4, <4>1
    <3>5. CASE j > 1 BY <1>4, <3>3, <3>5
    <3> QED BY <1>1, <3>4, <3>5
  <2> QED BY <2>1, <2>2
<1>10. t[1].pc \in EnsurePcs => t[2].pc \in Callers \cup {"ready"}
  BY <1>7, <1>8 DEF Callers
<1> QED BY <1>2, <1>6, <1>9, <1>10 DEF Stack

\* Putting frames in front keeps a stack a stack.
LEMMA Pushed ==
    ASSUME NEW u, Stack(u), NEW frames \in Seq(Frames),
           \A i \in 1..Len(frames) : FrameOK(frames[i]),
           \/ Len(frames) = 1 /\ frames[1].pc \notin Main \cup EnsurePcs /\ u[1].pc \in Resting
           \/ Len(frames) = 1 /\ frames[1].pc \in EnsurePcs /\ u[1].pc \in {"ready", "disable"}
           \/ /\ Len(frames) = 2 /\ frames[1].pc = "ensure" /\ frames[2].pc \in {"spawn", "exec"}
              /\ u[1].pc \in Resting,
           NEW t, OnTop(t, frames, u)
    PROVE  Stack(t)
<1> DEFINE k == Len(frames)
<1>1. k \in {1, 2} OBVIOUS
<1>2. /\ t \in Seq(Frames) /\ Len(t) = k + Len(u)
      /\ \A i \in 1..k : t[i] = frames[i]
      /\ \A j \in 1..Len(u) : t[k + j] = u[j]
      /\ \A i \in 1..Len(t) : i \in 1..k \/ \E j \in 1..Len(u) : i = k + j
  BY Zenon DEF OnTop
<1>3. \/ k = 1 /\ frames[1].pc \notin Main \cup EnsurePcs /\ u[1].pc \in Resting
      \/ k = 1 /\ frames[1].pc \in EnsurePcs /\ u[1].pc \in {"ready", "disable"}
      \/ /\ k = 2 /\ frames[1].pc = "ensure" /\ frames[2].pc \in {"spawn", "exec"}
         /\ u[1].pc \in Resting
  BY Zenon
<1>4. \A i \in 1..k : FrameOK(frames[i]) BY Zenon
<1> HIDE DEF k
<1> QED BY <1>1, <1>2, <1>3, <1>4, PushedStack, Zenon

\* Putting frames in front adds only their pids.
LEMMA PushedPids ==
    ASSUME NEW u \in Seq(Frames), NEW frames \in Seq(Frames), NEW P, PidsIn(u, P), PidsIn(frames, P),
           NEW t, OnTop(t, frames, u)
    PROVE  PidsIn(t, P)
<1> QED BY Zenon DEF PidsIn, OnTop

\* The caller's frame, set to go on at pc.
LEMMA CallerFacts ==
    ASSUME Stack(fg), NEW P, PidsIn(fg, P), NEW pc \in Resting \cup {"disable"},
           pc \in Main <=> fg[1].pc \in Main,
           fg[1].pc \notin EnsurePcs,
           NEW u, u = [fg EXCEPT ![1].pc = pc]
    PROVE  Stack(u) /\ PidsIn(u, P) /\ u[1].pc = pc /\ u[1].pid = fg[1].pid
<1> DEFINE r == [fg[1] EXCEPT !.pc = pc]
<1>1. Len(fg) \in Nat \ {0} /\ DOMAIN fg = 1..Len(fg) /\ fg[1] \in Frames /\ FrameOK(fg[1])
  BY StackShape DEF Stack
<1>2. u = [fg EXCEPT ![1] = r] BY <1>1
<1>3. pc \in Pcs /\ pc \notin EnsurePcs /\ pc \notin {"spawn", "enqueue", "task", "su"}
  BY DEF Pcs, EnsurePcs, Resting
<1>4. r \in Frames /\ r.pc = pc /\ r.pid = fg[1].pid
  BY <1>1, <1>3 DEF Frames
<1>5. FrameOK(r) BY <1>3, <1>4 DEF FrameOK
<1>6. (r.pc \in Main <=> fg[1].pc \in Main) /\ (r.pc \in EnsurePcs <=> fg[1].pc \in EnsurePcs)
  BY <1>3, <1>4
<1> HIDE DEF r
<1>7. Stack(u) BY <1>2, <1>4, <1>5, <1>6, SetTop, Zenon
<1>8. Len(u) = Len(fg) /\ \A j \in 1..Len(fg) : u[j] = IF j = 1 THEN r ELSE fg[j]
  <2>0. fg \in Seq(Frames) BY Zenon DEF Stack
  <2>1. fg \in Seq(Frames) /\ 1 \in 1..Len(fg) BY <1>1, <2>0
  <2> QED BY <1>2, <1>4, <2>1, Replaced
<1>9. u[1] = r /\ PidsIn(u, P) BY <1>1, <1>4, <1>8 DEF PidsIn
<1> QED BY <1>4, <1>7, <1>9

\* execute_command calls the frames of a command line.
LEMMA CallFacts ==
    ASSUME Stack(fg), NEW P, PidsIn(fg, P), NEW frames, Callable(frames, P),
           NEW pc \in Resting, Call(frames, pc),
           pc \in Main <=> fg[1].pc \in Main, fg[1].pc \notin EnsurePcs
    PROVE  /\ Stack(fg') /\ PidsIn(fg', P)
           /\ \/ fg'[1].pc \in {pc, "kill", "wait", "tasks", "dropper", "su", "gui", "tick"}
              \/ fg'[1].pc = "ensure" /\ fg'[2].pc \in {"spawn", "exec"}
<1> DEFINE u == [fg EXCEPT ![1].pc = pc]
<1>1. Stack(u) /\ PidsIn(u, P) /\ u[1].pc = pc BY CallerFacts, Zenon
<1>2. fg' = frames \o u BY DEF Call
<1> HIDE DEF u
<1>3. u \in Seq(Frames) /\ Len(u) \in Nat \ {0} /\ frames \in Seq(Frames) /\ Len(frames) \in Nat
  BY <1>1, StackShape, Lens DEF Stack, Callable
<1>4. OnTop(fg', frames, u) BY <1>2, <1>3, Places, Zenon
<1>5. PidsIn(fg', P) BY <1>1, <1>3, <1>4, PushedPids DEF Callable
<1>6. CASE Len(frames) = 0
  <2>1. frames = <<>> BY <1>3, <1>6, Lens
  <2>2. fg' = u BY <1>2, <1>3, <2>1, Joined
  <2> QED BY <1>1, <2>2
<1>7. CASE Len(frames) = 1 /\ frames[1].pc \in {"kill", "wait", "tasks", "dropper", "su", "gui", "tick"}
  <2>1. frames[1].pc \notin Main \cup EnsurePcs BY <1>7 DEF Main, EnsurePcs
  <2>2. Stack(fg') BY <1>1, <1>3, <1>4, <1>7, <2>1, Pushed DEF Callable
  <2>3. fg'[1] = frames[1] BY ONLY <1>4, <1>7 DEF OnTop
  <2> QED BY <1>5, <1>7, <2>2, <2>3
<1>8. CASE Len(frames) = 2 /\ frames[1].pc = "ensure" /\ frames[2].pc \in {"spawn", "exec"}
  <2>2. Stack(fg') BY <1>1, <1>3, <1>4, <1>8, Pushed, SMTT(30) DEF Callable
  <2>3. fg'[1] = frames[1] /\ fg'[2] = frames[2] BY ONLY <1>4, <1>8 DEF OnTop
  <2> QED BY <1>5, <1>8, <2>2, <2>3
<1> QED BY <1>6, <1>7, <1>8 DEF Callable

\* The shell loop and exec call ensure_shell_process.
LEMMA CallEnsureFacts ==
    ASSUME Stack(fg), NEW P, PidsIn(fg, P), 0 \in P,
           NEW pc \in {"ready", "disable"}, Call(<<Ensure>>, pc),
           pc \in Main <=> fg[1].pc \in Main, fg[1].pc \notin EnsurePcs
    PROVE  /\ Stack(fg') /\ PidsIn(fg', P)
           /\ fg'[1].pc = "ensure" /\ fg'[2].pc = pc /\ fg'[2].pid = fg[1].pid
<1> DEFINE u == [fg EXCEPT ![1].pc = pc]
<1>0. pc \in Resting \cup {"disable"} BY DEF Resting
<1>1. Stack(u) /\ PidsIn(u, P) /\ u[1].pc = pc /\ u[1].pid = fg[1].pid BY <1>0, CallerFacts, Zenon
<1>2. fg' = <<Ensure>> \o u BY DEF Call
<1> HIDE DEF u
<1>3. <<Ensure>> \in Seq(Frames) /\ Len(<<Ensure>>) = 1 /\ <<Ensure>>[1] = Ensure
  BY EnsureFrame
<1>4. u \in Seq(Frames) /\ Len(u) \in Nat \ {0} BY <1>1, StackShape DEF Stack
<1>5. \A i \in 1..1 : <<Ensure>>[i] = Ensure BY <1>3
<1>6. PidsIn(<<Ensure>>, P) /\ \A i \in 1..Len(<<Ensure>>) : FrameOK(<<Ensure>>[i])
  BY <1>3, <1>5, EnsureFrame DEF PidsIn
<1>11. OnTop(fg', <<Ensure>>, u) BY <1>2, <1>3, <1>4, Places, Zenon
<1>7. PidsIn(fg', P) BY <1>11, <1>1, <1>3, <1>4, <1>6, PushedPids, Zenon
<1>8. Stack(fg')
  <2>1. <<Ensure>>[1].pc \in EnsurePcs BY <1>3, EnsureFrame DEF EnsurePcs
  <2> QED BY <1>11, <1>1, <1>3, <1>6, <2>1, Pushed, Zenon
<1>10. fg'[1] = Ensure /\ fg'[2] = u[1]
  <2>1. 1 \in 1..Len(u) BY <1>4
  <2> QED BY ONLY <1>11, <1>3, <2>1 DEF OnTop
<1> QED BY <1>1, <1>7, <1>8, <1>10, EnsureFrame

\* ensure_shell_process returns the pid to its caller.
LEMMA ShellReturnFacts ==
    ASSUME Stack(fg), NEW P, PidsIn(fg, P), fg[1].pc \in EnsurePcs,
           fg' = Tail([fg EXCEPT ![2].sh = fg[1].pid])
    PROVE  /\ Stack(fg') /\ PidsIn(fg', P)
           /\ fg'[1].pc = fg[2].pc /\ fg'[1].pid = fg[2].pid /\ fg'[1].sh = fg[1].pid
<1> DEFINE r == [fg[2] EXCEPT !.sh = fg[1].pid]
           m == [fg EXCEPT ![2] = r]
<1>1. Len(fg) \in Nat \ {0} /\ DOMAIN fg = 1..Len(fg) /\ Len(fg) >= 2
      /\ fg[1] \in Frames /\ fg[2] \in Frames
  BY StackShape DEF Main, EnsurePcs
<1>2. fg' = Tail(m) BY <1>1
<1>3. r \in Frames /\ r.pc = fg[2].pc /\ r.pid = fg[2].pid /\ r.n = fg[2].n
      /\ r.cmd = fg[2].cmd /\ r.sh = fg[1].pid
  BY <1>1 DEF Frames
<1>4. FrameOK(r)
  <2>0. 2 \in 1..Len(fg) BY ONLY <1>1
  <2>1. FrameOK(fg[2]) BY <2>0, Zenon DEF Stack
  <2> QED BY <1>3, <2>1 DEF FrameOK
<1> HIDE DEF r
<1>5. m \in Seq(Frames) /\ Len(m) = Len(fg) /\ \A j \in 1..Len(fg) : m[j] = IF j = 2 THEN r ELSE fg[j]
  <2>0. fg \in Seq(Frames) BY Zenon DEF Stack
  <2>1. fg \in Seq(Frames) /\ 2 \in 1..Len(fg) BY ONLY <1>1, <2>0
  <2> QED BY <1>3, <2>1, Replaced
<1> HIDE DEF m
<1>6. m # <<>> BY <1>1, <1>5, Lens
<1>7. fg' \in Seq(Frames) /\ Len(fg') = Len(fg) - 1 /\ \A i \in 1..Len(fg') : fg'[i] = m[i + 1]
  BY ONLY <1>2, <1>5, <1>6, Split
<1>8. fg'[1] = r /\ \A i \in 2..Len(fg') : fg'[i] = fg[i + 1]
  <2>1. \A i \in 1..Len(fg') : i + 1 \in 1..Len(fg) /\ (i + 1 = 2 <=> i = 1) BY <1>1, <1>7
  <2>2. 1 \in 1..Len(fg') BY <1>1, <1>7
  <2>3. fg'[1] = m[2] /\ \A i \in 2..Len(fg') : i \in 1..Len(fg') /\ i # 1
    BY ONLY <1>1, <1>7, <2>2
  <2> QED BY ONLY <1>1, <1>5, <1>7, <2>1, <2>3
<1>9. fg' # <<>> BY ONLY <1>1, <1>7, Lens
<1>10. \A i \in 1..Len(fg') : FrameOK(fg'[i]) /\ (fg'[i].pc \in Main <=> i = Len(fg'))
                              /\ fg'[i].pid \in P
  <2> SUFFICES ASSUME NEW i \in 1..Len(fg')
               PROVE  /\ FrameOK(fg'[i]) /\ (fg'[i].pc \in Main <=> i = Len(fg'))
                      /\ fg'[i].pid \in P
    OBVIOUS
  <2>1. i + 1 \in 1..Len(fg) /\ (i = Len(fg') <=> i + 1 = Len(fg)) BY <1>1, <1>7
  <2>2. FrameOK(fg[i + 1]) /\ (fg[i + 1].pc \in Main <=> i + 1 = Len(fg)) /\ fg[i + 1].pid \in P
    BY <2>1 DEF Stack, PidsIn
  <2>3. CASE i = 1
    <3>1. fg[i + 1] = fg[2] /\ fg'[i] = r BY <1>8, <2>3
    <3> QED BY <1>3, <1>4, <2>1, <2>2, <3>1, Zenon
  <2>4. CASE i # 1
    <3>1. fg'[i] = fg[i + 1] BY <1>1, <1>7, <1>8, <2>4
    <3> QED BY <2>1, <2>2, <3>1
  <2> QED BY <2>3, <2>4
<1>11. \A i \in 2..Len(fg') : fg'[i].pc \in Resting
  <2>1. \A i \in 2..Len(fg') : i + 1 \in 2..Len(fg) /\ i + 1 # 2 BY <1>1, <1>7
  <2> QED BY <1>8, <2>1 DEF Stack
<1>12. fg'[1].pc \notin EnsurePcs
  BY <1>3, <1>8, Zenon DEF Stack, Callers, EnsurePcs
<1> QED BY <1>3, <1>7, <1>8, <1>9, <1>10, <1>11, <1>12, Zenon DEF Stack, PidsIn

-----------------------------------------------------------------------------
(* The parts of the invariant, and the steps that leave exec's alone. *)

TableOK ==
    /\ nextPid \in Nat \ {0, 1}
    /\ DOMAIN procs \subseteq Issued /\ \A p \in DOMAIN procs : procs[p] \in Processes
    /\ shellPid \in Issued \cup {0}

SchedOK ==
    /\ current \in Issued \cup {0} /\ kstack \in Issued \cup {0}
    /\ queues \in [Prios -> Seq(Issued)] /\ enabled \in BOOLEAN

BgOK ==
    /\ tasks \in Seq([id : Nat, pid : Issued, cmd : Bodies, yielded : BOOLEAN])
    /\ nextTask \in Nat \ {0} /\ polling \in BOOLEAN

\* TypeOK, by the part of the state it is about.
LEMMA TypeParts ==
    ASSUME TypeOK, Stack(fg)
    PROVE  /\ TableOK /\ SchedOK /\ BgOK /\ user \in Users \cup {0}
           /\ PidsIn(fg, Issued \cup {0}) /\ 0 \in Issued \cup {0}
<1>1. DOMAIN fg = 1..Len(fg) BY StackShape
<1>2. PidsIn(fg, Issued \cup {0}) BY <1>1, SMTT(60) DEF TypeOK, PidsIn
<1> QED BY <1>2 DEF TypeOK, TableOK, SchedOK, BgOK

\* The parts give TypeOK back.
LEMMA TypeWhole ==
    ASSUME TableOK', SchedOK', BgOK', (user \in Users \cup {0})', Stack(fg'),
           PidsIn(fg', Issued' \cup {0})
    PROVE  TypeOK'
<1>1. DOMAIN fg' = 1..Len(fg') BY StackShape
<1>2. \A i \in DOMAIN fg' : fg'[i].pid \in Issued' \cup {0} BY <1>1 DEF PidsIn
<1>3. fg' \in Seq(Frames) BY Zenon DEF Stack
<1> QED BY <1>2, <1>3 DEF TypeOK, TableOK, SchedOK, BgOK

\* A stack of which exec asks nothing.
BusyPcs == EnsurePcs \cup OffPcs \cup
           {"exec", "load", "disable", "reshell", "teardown", "reap", "enqueue"}
Plain(s) == s[1].pc \notin BusyPcs \/ (s[1].pc = "ensure" /\ s[2].pc # "disable")

\* When neither frame is one of exec's or spawn's, what they owe holds at once.
LEMMA PlainStep ==
    ASSUME Plain(fg'), enabled'
    PROVE  OffInRun' /\ ExecOK' /\ SpawnOK'
<1>1. OffInRun' BY DEF OffInRun, Plain, Pc, BusyPcs, OffPcs
<1>2. SpawnOK' BY DEF SpawnOK, Plain, Pc, BusyPcs
<1>3. ExecOK' BY DEF ExecOK, Plain, Pc, BusyPcs, OffPcs, EnsurePcs
<1> QED BY <1>1, <1>2, <1>3

\* The processes stay, of the same kind, priority and owner.
KeptTable ==
    /\ DOMAIN procs' = DOMAIN procs
    /\ \A p \in DOMAIN procs : /\ procs'[p] \in Processes
                               /\ procs'[p].kind = procs[p].kind
                               /\ procs'[p].prio = procs[p].prio
                               /\ procs'[p].uid = procs[p].uid

\* A step that keeps kinds, users, priorities and pids keeps what names a
\* process.
LEMMA KeptFacts ==
    ASSUME TableOK, KeptTable, UNCHANGED <<nextPid, shellPid>>
    PROVE  /\ TableOK' /\ Issued' = Issued
           /\ \A p : InTable(p)' <=> InTable(p)
           /\ \A p : IsElf(p)' <=> IsElf(p)
           /\ \A p : IsShell(p)' <=> IsShell(p)
           /\ Full' <=> Full
<1>1. Issued' = Issued BY DEF Issued
<1>2. TableOK' BY <1>1, Zenon DEF TableOK, KeptTable
<1> QED BY <1>1, <1>2, Zenon DEF KeptTable, InTable, IsElf, IsShell, Full

\* Such a step keeps Kinds and the queues when it leaves shell, stack and queues
\* alone.
LEMMA KeptKinds ==
    ASSUME TableOK, Kinds, QueueOK, SchedOK, KeptTable, UNCHANGED <<shellPid, kstack, queues>>
    PROVE  Kinds' /\ QueueOK'
<1>1. Kinds' BY DEF Kinds, KeptTable, InTable, IsElf
<1>2. QueuedOnce' BY DEF QueueOK, QueuedOnce
<1>3. ASSUME NEW i \in Prios, NEW a \in DOMAIN queues[i], InTable(queues[i][a])'
      PROVE  procs'[queues[i][a]].prio = i
  BY <1>3 DEF QueueOK, KeptTable, InTable
<1> QED BY <1>1, <1>2, <1>3 DEF QueueOK

\* A step of the foreground thread that leaves the scheduler alone and is not
\* one of exec's.
LEMMA TableStep ==
    ASSUME IInv, Pc \notin OffPcs, KeptTable, UNCHANGED <<nextPid, shellPid, sched>>, BgOK',
           user' \in Users \cup {0}, Stack(fg'), PidsIn(fg', Issued \cup {0}), Plain(fg')
    PROVE  IInv'
<1>1. TableOK /\ SchedOK BY TypeParts DEF IInv
<1>2. TableOK' /\ Issued' = Issued BY <1>1, KeptFacts
<1>3. SchedOK' BY <1>1, <1>2 DEF SchedOK, sched
<1>4. TypeOK' BY <1>2, <1>3, TypeWhole
<1>5. Kinds' /\ QueueOK' BY <1>1, KeptKinds DEF IInv, sched
<1>6. enabled' BY <1>1 DEF IInv, OffInRun, SchedOK, sched
<1>7. OffInRun' /\ ExecOK' /\ SpawnOK' BY <1>6, PlainStep
<1> QED BY <1>4, <1>5, <1>7 DEF IInv

\* A step of the thread that leaves table and scheduler alone: the stack is all
\* there is to check.
LEMMA FgStep ==
    ASSUME IInv, Pc \notin OffPcs, UNCHANGED <<table, sched>>, BgOK',
           user' \in Users \cup {0}, Stack(fg'), PidsIn(fg', Issued \cup {0}), Plain(fg')
    PROVE  IInv'
<1>1. TableOK BY TypeParts DEF IInv
<1>2. KeptTable BY <1>1 DEF KeptTable, TableOK, table
<1> QED BY <1>2, TableStep DEF table

-----------------------------------------------------------------------------
(* Steps of the foreground thread that leave table and scheduler alone. *)

\* A step that returns to a caller.
LEMMA Returned ==
    ASSUME IInv, Return, Pc \notin Main \cup EnsurePcs
    PROVE  Stack(fg') /\ PidsIn(fg', Issued \cup {0}) /\ Plain(fg')
<1>1. Stack(fg) /\ PidsIn(fg, Issued \cup {0}) BY TypeParts DEF IInv
<1>2. Stack(fg') /\ PidsIn(fg', Issued \cup {0}) /\ fg'[1].pc \in Resting
  BY <1>1, ReturnFacts DEF Pc
<1>3. Plain(fg') BY <1>2 DEF Plain, Resting, BusyPcs, EnsurePcs, OffPcs
<1> QED BY <1>2, <1>3

\* A step that goes on in the same frame.
LEMMA WentOn ==
    ASSUME IInv, NEW pc \in Pcs \ BusyPcs, Goto(pc),
           pc \notin {"spawn", "su"}, pc = "task" => Pc = "enqueue",
           pc \in Main <=> Pc \in Main, Pc \notin EnsurePcs
    PROVE  Stack(fg') /\ PidsIn(fg', Issued \cup {0}) /\ Plain(fg')
<1>1. Stack(fg) /\ PidsIn(fg, Issued \cup {0}) BY TypeParts DEF IInv
<1>2. pc \in Pcs /\ pc \notin {"spawn", "enqueue", "su"} /\ pc \notin EnsurePcs BY DEF BusyPcs
<1>3. Stack(fg') /\ PidsIn(fg', Issued \cup {0}) /\ fg'[1].pc = pc
  BY <1>1, <1>2, GotoFacts, Zenon DEF Pc
<1>4. Plain(fg') BY <1>3 DEF Plain
<1> QED BY <1>3, <1>4

\* A step that calls a command's frames.
LEMMA Called ==
    ASSUME IInv, NEW frames, Callable(frames, Issued \cup {0}), NEW pc \in Resting,
           Call(frames, pc), pc \in Main <=> Pc \in Main, Pc \notin EnsurePcs
    PROVE  Stack(fg') /\ PidsIn(fg', Issued \cup {0}) /\ Plain(fg')
<1>1. Stack(fg) /\ PidsIn(fg, Issued \cup {0}) BY TypeParts DEF IInv
<1>2. /\ Stack(fg') /\ PidsIn(fg', Issued \cup {0})
      /\ \/ fg'[1].pc \in {pc, "kill", "wait", "tasks", "dropper", "su", "gui", "tick"}
         \/ fg'[1].pc = "ensure" /\ fg'[2].pc \in {"spawn", "exec"}
  BY <1>1, CallFacts, Zenon DEF Pc
<1>3. Plain(fg') BY <1>2 DEF Plain, Resting, BusyPcs, EnsurePcs, OffPcs
<1> QED BY <1>2, <1>3

\* A command that starts: its frames on the loop or on the desktop.
LEMMA Executed ==
    ASSUME IInv, NEW c, NEW frames \in FramesOf(c), NEW pc \in Resting, Call(frames, pc),
           pc \in Main <=> Pc \in Main, Pc \notin EnsurePcs \cup OffPcs,
           UNCHANGED <<table, sched, bg, user>>
    PROVE  IInv'
<1>1. TableOK /\ BgOK /\ user \in Users \cup {0} BY TypeParts DEF IInv
<1>2. Callable(frames, Issued \cup {0}) BY <1>1, FramesOfFacts DEF TableOK
<1>3. Stack(fg') /\ PidsIn(fg', Issued \cup {0}) /\ Plain(fg') BY <1>2, Called
<1>4. Issued' = Issued /\ BgOK' BY <1>1 DEF BgOK, bg, table, Issued
<1> QED BY <1>1, <1>3, <1>4, FgStep

\* A line typed at the prompt, in the desktop's terminal, or for the background.
LEMMA CommandSteps ==
    ASSUME IInv, (\E c \in Commands : Command(c) \/ GuiCommand(c)) \/ TaskBody
    PROVE  IInv'
<1>1. ASSUME NEW c, Command(c) PROVE IInv'
  <2>1. PICK frames \in FramesOf(c) : Call(frames, "loop")
    BY <1>1 DEF Command, Execute
  <2>2. /\ "loop" \in Resting /\ ("loop" \in Main <=> Pc \in Main)
        /\ Pc \notin EnsurePcs \cup OffPcs
    BY <1>1 DEF Command, At, Resting, Main, EnsurePcs, OffPcs
  <2> QED BY <1>1, <2>1, <2>2, Executed DEF Command, Execute
<1>2. ASSUME NEW c, GuiCommand(c) PROVE IInv'
  <2>1. PICK frames \in FramesOf(c) : Call(frames, "gui")
    BY <1>2 DEF GuiCommand, Execute
  <2>2. /\ "gui" \in Resting /\ ("gui" \in Main <=> Pc \in Main)
        /\ Pc \notin EnsurePcs \cup OffPcs
    BY <1>2 DEF GuiCommand, At, Resting, Main, EnsurePcs, OffPcs
  <2> QED BY <1>2, <2>1, <2>2, Executed DEF GuiCommand, Execute
<1>3. CASE TaskBody
  <2>1. PICK frames \in FramesOf(fg[1].cmd) : Call(frames, "exit")
    BY <1>3 DEF TaskBody
  <2>2. /\ "exit" \in Resting /\ ("exit" \in Main <=> Pc \in Main)
        /\ Pc \notin EnsurePcs \cup OffPcs
    BY <1>3, Zenon DEF TaskBody, At, Resting, Main, EnsurePcs, OffPcs
  <2> QED BY <1>3, <2>1, <2>2, Executed DEF TaskBody
<1> QED BY <1>1, <1>2, <1>3

\* Steps that change the stack and nothing else.
LEMMA StackSteps ==
    ASSUME IInv, \/ Kill \/ ListTasks \/ WaitOver \/ DropCurrent \/ ShellLoop
                 \/ GuiLeave \/ GuiAgain
    PROVE  IInv'
<1>1. /\ Stack(fg) /\ TableOK /\ SchedOK /\ BgOK /\ user \in Users \cup {0}
      /\ PidsIn(fg, Issued \cup {0}) /\ 0 \in Issued \cup {0}
  BY TypeParts DEF IInv
<1>2. UNCHANGED <<table, sched, bg, user>> /\ Pc \notin OffPcs
  BY DEF Kill, ListTasks, WaitOver, DropCurrent, ShellLoop, GuiLeave, GuiAgain, At, OffPcs
<1>3. BgOK' BY <1>1, <1>2 DEF BgOK, bg, table, Issued
<1> SUFFICES Stack(fg') /\ PidsIn(fg', Issued \cup {0}) /\ Plain(fg')
  BY <1>1, <1>2, <1>3, FgStep
<1>4. CASE Kill
  <2>1. PICK pc \in {"untask", "slay"} : Goto(pc) BY <1>4 DEF Kill
  <2>2. /\ pc \in Pcs \ BusyPcs /\ pc \notin {"spawn", "su"} /\ pc # "task"
        /\ (pc \in Main <=> Pc \in Main) /\ Pc \notin EnsurePcs
    BY <1>4, <2>1 DEF Kill, At, Pcs, BusyPcs, EnsurePcs, OffPcs, Main
  <2> QED BY <2>1, <2>2, WentOn
<1>5. CASE ListTasks \/ WaitOver \/ GuiLeave
  <2>1. Return /\ Pc \notin Main \cup EnsurePcs
    BY <1>5 DEF ListTasks, WaitOver, GuiLeave, At, Main, EnsurePcs
  <2> QED BY <2>1, Returned
<1>6. CASE DropCurrent
  <2>1. fg[1].pc = "dropper" BY <1>6 DEF DropCurrent, At, Pc
  <2>2. CASE current = 0
    <3>1. Return /\ Pc \notin Main \cup EnsurePcs
      BY <1>6, <2>1, <2>2 DEF DropCurrent, Return, Pc, Main, EnsurePcs
    <3> QED BY <3>1, Returned
  <2>3. CASE current # 0
    <3>1. GotoPid("drop", current) BY <1>6, <2>3 DEF DropCurrent, GotoPid
    <3>2. current \in Nat /\ current \in Issued \cup {0}
      BY <1>1 DEF SchedOK, TableOK, Issued
    <3>3. /\ "drop" \in Pcs /\ "drop" \notin {"spawn", "task", "su"} /\ "drop" # "enqueue"
          /\ ("drop" \in Main <=> fg[1].pc \in Main)
          /\ ("drop" \in EnsurePcs <=> fg[1].pc \in EnsurePcs)
      BY <2>1 DEF Pcs, Main, EnsurePcs
    <3>4. Stack(fg') /\ PidsIn(fg', Issued \cup {0}) /\ fg'[1].pc = "drop"
      BY <1>1, <3>1, <3>2, <3>3, GotoPidFacts
    <3>5. Plain(fg') BY <3>4 DEF Plain, BusyPcs, EnsurePcs, OffPcs
    <3> QED BY <3>4, <3>5
  <2> QED BY <2>2, <2>3
<1>7. CASE ShellLoop
  <2>1. fg[1].pc = "loop" BY <1>7 DEF ShellLoop, At, Pc
  <2>2. CASE user = 0
    <3>1. Goto("reset") BY <1>7, <2>2 DEF ShellLoop
    <3>2. /\ "reset" \in Pcs \ BusyPcs /\ "reset" \notin {"spawn", "su"} /\ "reset" # "task"
          /\ ("reset" \in Main <=> Pc \in Main) /\ Pc \notin EnsurePcs
      BY <2>1 DEF Pc, Pcs, BusyPcs, EnsurePcs, OffPcs, Main
    <3> QED BY <3>1, <3>2, WentOn
  <2>3. CASE user # 0
    <3>1. Call(<<Ensure>>, "ready") BY <1>7, <2>3 DEF ShellLoop
    <3>2. ("ready" \in Main <=> fg[1].pc \in Main) /\ fg[1].pc \notin EnsurePcs
      BY <2>1 DEF Main, EnsurePcs
    <3>3. /\ Stack(fg') /\ PidsIn(fg', Issued \cup {0})
          /\ fg'[1].pc = "ensure" /\ fg'[2].pc = "ready"
      BY <1>1, <3>1, <3>2, CallEnsureFacts, Zenon
    <3>4. Plain(fg') BY <3>3 DEF Plain
    <3> QED BY <3>3, <3>4
  <2> QED BY <2>2, <2>3
<1>8. CASE GuiAgain
  <2>1. Goto("gui") BY <1>8 DEF GuiAgain
  <2>2. /\ "gui" \in Pcs \ BusyPcs /\ "gui" \notin {"spawn", "su"} /\ "gui" # "task"
        /\ ("gui" \in Main <=> Pc \in Main) /\ Pc \notin EnsurePcs
    BY <1>8 DEF GuiAgain, At, Pcs, BusyPcs, EnsurePcs, OffPcs, Main
  <2> QED BY <2>1, <2>2, WentOn
<1> QED BY <1>4, <1>5, <1>6, <1>7, <1>8

\* One frame is put in front of a frame that waits for it.
LEMMA PushOne ==
    ASSUME NEW u, Stack(u), NEW P, PidsIn(u, P), u[1].pc \in Resting,
           NEW f \in Frames, FrameOK(f), f.pid \in P, f.pc \notin Main \cup EnsurePcs,
           fg' = <<f>> \o u
    PROVE  Stack(fg') /\ PidsIn(fg', P) /\ fg'[1].pc = f.pc
<1> DEFINE frames == <<f>>
<1>1. frames \in Seq(Frames) /\ Len(frames) = 1 /\ frames[1] = f OBVIOUS
<1>2. \A i \in 1..1 : frames[i] = f BY <1>1
<1>3. u \in Seq(Frames) BY Zenon DEF Stack
<1>4. OnTop(frames \o u, frames, u) BY <1>1, <1>3, Places, Zenon
<1>5. OnTop(fg', frames, u) BY <1>4
<1> HIDE DEF frames
<1>6. PidsIn(frames, P) /\ \A i \in 1..Len(frames) : FrameOK(frames[i])
  BY <1>1, <1>2 DEF PidsIn
<1>7. PidsIn(fg', P) BY <1>1, <1>3, <1>5, <1>6, PushedPids
<1>8. Stack(fg') BY <1>1, <1>5, <1>6, Pushed, Zenon
<1>9. fg'[1] = f BY ONLY <1>1, <1>5 DEF OnTop
<1> QED BY <1>7, <1>8, <1>9

\* tick() counts down the tasks it still has to poll.
LEMMA CountDown ==
    ASSUME Stack(fg), NEW P, PidsIn(fg, P), fg[1].pc = "tick", fg[1].n > 0,
           NEW u, u = [fg EXCEPT ![1].n = @ - 1]
    PROVE  Stack(u) /\ PidsIn(u, P) /\ u[1].pc = "tick"
<1> DEFINE r == [fg[1] EXCEPT !.n = @ - 1]
<1>1. Len(fg) \in Nat \ {0} /\ DOMAIN fg = 1..Len(fg) /\ fg[1] \in Frames
  BY StackShape
<1>2. u = [fg EXCEPT ![1] = r] BY <1>1
<1>3. r \in Frames /\ r.pc = "tick" /\ r.pid = fg[1].pid BY <1>1 DEF Frames
<1>4. FrameOK(r) BY <1>3 DEF FrameOK
<1>5. (r.pc \in Main <=> fg[1].pc \in Main) /\ (r.pc \in EnsurePcs <=> fg[1].pc \in EnsurePcs)
  BY <1>3
<1> HIDE DEF r
<1>6. Stack(u) BY <1>2, <1>3, <1>4, <1>5, SetTop, Zenon
<1>7. Len(u) = Len(fg) /\ \A j \in 1..Len(fg) : u[j] = IF j = 1 THEN r ELSE fg[j]
  <2>0. fg \in Seq(Frames) BY Zenon DEF Stack
  <2>1. fg \in Seq(Frames) /\ 1 \in 1..Len(fg) BY <1>1, <2>0
  <2> QED BY <1>2, <1>3, <2>1, Replaced
<1>8. u[1] = r /\ PidsIn(u, P) BY <1>1, <1>3, <1>7 DEF PidsIn
<1> QED BY <1>3, <1>6, <1>8

-----------------------------------------------------------------------------
(* Steps that change the task list, or the session. *)

TaskRecords == [id : Nat, pid : Issued, cmd : Bodies, yielded : BOOLEAN]

\* The steps of the task list preserve the invariant: spawn attaches, the desktop
\* polls.
LEMMA TaskSteps ==
    ASSUME IInv, SpawnTask \/ GuiTick \/ PollTask \/ PollDone
    PROVE  IInv'
<1>1. /\ Stack(fg) /\ TableOK /\ SchedOK /\ BgOK /\ user \in Users \cup {0}
      /\ PidsIn(fg, Issued \cup {0}) /\ 0 \in Issued \cup {0}
  BY TypeParts DEF IInv
<1>2. UNCHANGED <<table, sched, user>> /\ Pc \notin OffPcs
  BY DEF SpawnTask, GuiTick, PollTask, PollDone, At, OffPcs
<1>3. Issued' = Issued BY <1>2 DEF Issued, table
<1>4. fg[1] \in Frames /\ FrameOK(fg[1]) /\ 1 \in 1..Len(fg)
  BY <1>1, StackShape DEF Stack
<1>5. tasks \in Seq(TaskRecords) BY <1>1 DEF BgOK, TaskRecords
<1>6. SUFFICES /\ tasks' \in Seq(TaskRecords) /\ nextTask' \in Nat \ {0} /\ polling' \in BOOLEAN
               /\ Stack(fg') /\ PidsIn(fg', Issued \cup {0}) /\ Plain(fg')
  <2>1. BgOK' BY <1>3, <1>6 DEF BgOK, TaskRecords
  <2> QED BY <1>1, <1>2, <1>6, <2>1, FgStep
<1>7. CASE SpawnTask
  <2> DEFINE t == [id |-> nextTask, pid |-> fg[1].pid, cmd |-> fg[1].cmd, yielded |-> FALSE]
  <2>1. Pc = "task" /\ Goto("attach") /\ tasks' = Append(tasks, t)
        /\ nextTask' = nextTask + 1 /\ polling' = polling
    BY <1>7 DEF SpawnTask, At
  <2>2. fg[1].pid \in Issued /\ fg[1].cmd \in Bodies
    BY <1>1, <1>4, <2>1, Zenon DEF FrameOK, PidsIn, Pc
  <2>3. t \in TaskRecords BY <1>1, <2>2 DEF TaskRecords, BgOK
  <2> HIDE DEF t
  <2>4. tasks' \in Seq(TaskRecords) BY <1>5, <2>1, <2>3, Appended
  <2>5. /\ "attach" \in Pcs \ BusyPcs /\ "attach" \notin {"spawn", "su"} /\ "attach" # "task"
        /\ ("attach" \in Main <=> Pc \in Main) /\ Pc \notin EnsurePcs
    BY <2>1 DEF Pcs, BusyPcs, EnsurePcs, OffPcs, Main
  <2>6. Stack(fg') /\ PidsIn(fg', Issued \cup {0}) /\ Plain(fg') BY <2>1, <2>5, WentOn, Zenon
  <2> QED BY <1>1, <2>1, <2>4, <2>6 DEF BgOK
<1>8. CASE GuiTick
  <2>1. Pc = "gui" /\ UNCHANGED <<tasks, nextTask>> /\ polling' \in BOOLEAN
    BY <1>8 DEF GuiTick, At
  <2>2. CASE tasks = <<>>
    <3>1. Goto("events") BY <1>8, <2>2 DEF GuiTick
    <3>2. /\ "events" \in Pcs \ BusyPcs /\ "events" \notin {"spawn", "su"} /\ "events" # "task"
          /\ ("events" \in Main <=> Pc \in Main) /\ Pc \notin EnsurePcs
      BY <2>1 DEF Pcs, BusyPcs, EnsurePcs, OffPcs, Main
    <3>3. Stack(fg') /\ PidsIn(fg', Issued \cup {0}) /\ Plain(fg') BY <3>1, <3>2, WentOn
    <3> QED BY <1>1, <1>5, <2>1, <3>3 DEF BgOK
  <2>3. CASE tasks # <<>>
    <3> DEFINE f == [Frame("tick") EXCEPT !.n = Len(tasks)]
    <3>1. Call(<<f>>, "events") BY <1>8, <2>3 DEF GuiTick
    <3>2. Len(tasks) \in Nat BY <1>5, Lens
    <3>3. f \in Frames /\ f.pc = "tick" /\ f.pid = 0 BY <3>2 DEF Frame, Frames, Pcs
    <3>4. FrameOK(f) BY <3>3 DEF FrameOK
    <3> HIDE DEF f
    <3>5. Callable(<<f>>, Issued \cup {0}) BY <1>1, <3>3, <3>4, OneFrame
    <3>6. "events" \in Resting /\ ("events" \in Main <=> Pc \in Main) /\ Pc \notin EnsurePcs
      BY <2>1 DEF Resting, Main, EnsurePcs
    <3>7. Stack(fg') /\ PidsIn(fg', Issued \cup {0}) /\ Plain(fg') BY <3>1, <3>5, <3>6, Called
    <3> QED BY <1>1, <1>5, <2>1, <3>7 DEF BgOK
  <2> QED BY <2>2, <2>3
<1>9. CASE PollTask
  <2> DEFINE t == Head(tasks)
             rest == [fg EXCEPT ![1].n = @ - 1]
  <2>1. Pc = "tick" /\ fg[1].n > 0 /\ tasks # <<>> /\ UNCHANGED <<nextTask, polling>>
    BY <1>9 DEF PollTask, At
  <2>2. Stack(rest) /\ PidsIn(rest, Issued \cup {0}) /\ rest[1].pc = "tick"
    BY <1>1, <2>1, CountDown DEF Pc
  <2>3. t \in TaskRecords /\ Tail(tasks) \in Seq(TaskRecords)
    BY <1>5, <2>1, Split
  <2>4. \/ tasks' = Append(Tail(tasks), [t EXCEPT !.yielded = TRUE]) /\ fg' = rest
        \/ /\ tasks' = Tail(tasks)
           /\ fg' = <<[Frame("begin") EXCEPT !.pid = t.pid, !.cmd = t.cmd]>> \o rest
    BY <1>9, SMTT(60) DEF PollTask
  <2> HIDE DEF t, rest
  <2>5. CASE tasks' = Append(Tail(tasks), [t EXCEPT !.yielded = TRUE]) /\ fg' = rest
    <3>1. [t EXCEPT !.yielded = TRUE] \in TaskRecords BY <2>3, Zenon DEF TaskRecords
    <3>2. tasks' \in Seq(TaskRecords) BY <2>3, <2>5, <3>1, Appended
    <3>3. Plain(fg') BY <2>2, <2>5 DEF Plain, BusyPcs, EnsurePcs, OffPcs
    <3> QED BY <1>1, <2>1, <2>2, <2>5, <3>2, <3>3 DEF BgOK
  <2>6. CASE /\ tasks' = Tail(tasks)
             /\ fg' = <<[Frame("begin") EXCEPT !.pid = t.pid, !.cmd = t.cmd]>> \o rest
    <3> DEFINE f == [Frame("begin") EXCEPT !.pid = t.pid, !.cmd = t.cmd]
    <3>1. t.pid \in Issued /\ t.pid \in Nat /\ t.cmd \in Bodies
      BY <1>1, <2>3 DEF TaskRecords, Issued, TableOK
    <3>2. f \in Frames /\ f.pc = "begin" /\ f.pid = t.pid
      BY <3>1, Zenon DEF Frame, Frames, Pcs
    <3>3. FrameOK(f) /\ f.pc \notin Main \cup EnsurePcs BY <3>2 DEF FrameOK, Main, EnsurePcs
    <3>4. rest[1].pc \in Resting BY <2>2 DEF Resting
    <3>5. fg' = <<f>> \o rest BY <2>6
    <3> HIDE DEF f
    <3>6. Stack(fg') /\ PidsIn(fg', Issued \cup {0}) /\ fg'[1].pc = "begin"
      BY <2>2, <3>1, <3>2, <3>3, <3>4, <3>5, PushOne, SMTT(60)
    <3>7. Plain(fg') BY <3>6 DEF Plain, BusyPcs, EnsurePcs, OffPcs
    <3> QED BY <1>1, <2>1, <2>3, <2>6, <3>6, <3>7 DEF BgOK
  <2> QED BY <2>4, <2>5, <2>6
<1>10. CASE PollDone
  <2>1. Pc = "tick" /\ Return /\ UNCHANGED <<tasks, nextTask>> /\ polling' = FALSE
    BY <1>10 DEF PollDone, At
  <2>2. Pc \notin Main \cup EnsurePcs BY <2>1 DEF Main, EnsurePcs
  <2>3. Stack(fg') /\ PidsIn(fg', Issued \cup {0}) /\ Plain(fg') BY <2>1, <2>2, Returned
  <2> QED BY <1>1, <1>5, <2>1, <2>3, Zenon DEF BgOK
<1> QED BY <1>7, <1>8, <1>9, <1>10

\* su, logout and login change the session's user.
LEMMA UserSteps ==
    ASSUME IInv, SwitchUser \/ Login
    PROVE  IInv'
<1>1. /\ Stack(fg) /\ TableOK /\ BgOK /\ user \in Users \cup {0}
      /\ PidsIn(fg, Issued \cup {0})
  BY TypeParts DEF IInv
<1>2. UNCHANGED <<table, sched, bg>> /\ Pc \notin OffPcs
  BY DEF SwitchUser, Login, At, OffPcs
<1>3. BgOK' BY <1>1, <1>2 DEF BgOK, bg, table, Issued
<1>4. fg[1] \in Frames /\ FrameOK(fg[1]) BY <1>1, StackShape DEF Stack
<1>5. CASE SwitchUser
  <2>1. Pc = "su" /\ user' = fg[1].n /\ Return BY <1>5 DEF SwitchUser, At
  <2>2. user' \in Users \cup {0} /\ Pc \notin Main \cup EnsurePcs
    BY <1>4, <2>1 DEF FrameOK, Pc, Main, EnsurePcs
  <2>3. Stack(fg') /\ PidsIn(fg', Issued \cup {0}) /\ Plain(fg') BY <2>1, <2>2, Returned
  <2> QED BY <1>2, <1>3, <2>2, <2>3, FgStep
<1>6. CASE Login
  <2>1. Pc = "login" /\ user' \in Users /\ Goto("loop") BY <1>6 DEF Login, At
  <2>2. /\ "loop" \in Pcs \ BusyPcs /\ "loop" \notin {"spawn", "su"} /\ "loop" # "task"
        /\ ("loop" \in Main <=> Pc \in Main) /\ Pc \notin EnsurePcs
    BY <2>1 DEF Pcs, BusyPcs, EnsurePcs, OffPcs, Main
  <2>3. Stack(fg') /\ PidsIn(fg', Issued \cup {0}) /\ Plain(fg') BY <2>1, <2>2, WentOn
  <2> QED BY <1>2, <1>3, <2>1, <2>3, FgStep
<1> QED BY <1>5, <1>6

-----------------------------------------------------------------------------
(* Steps that change one process's entry. *)

\* One entry changes, its kind, priority and owner excepted, or none does.
Touches(p) ==
    \/ procs' = procs
    \/ /\ InTable(p)
       /\ \E r \in Processes :
            /\ r.kind = procs[p].kind /\ r.prio = procs[p].prio /\ r.uid = procs[p].uid
            /\ procs' = [procs EXCEPT ![p] = r]

\* A changed entry that keeps its kind, user and priority keeps the table.
LEMMA TouchedKept ==
    ASSUME TableOK, NEW p, Touches(p) PROVE KeptTable
<1>1. CASE procs' = procs BY <1>1 DEF KeptTable, TableOK
<1>2. CASE InTable(p) /\ procs' # procs
  <2>1. PICK r \in Processes :
            /\ r.kind = procs[p].kind /\ r.prio = procs[p].prio /\ r.uid = procs[p].uid
            /\ procs' = [procs EXCEPT ![p] = r]
    BY <1>2 DEF Touches
  <2> QED BY <2>1 DEF KeptTable, TableOK, InTable
<1> QED BY <1>1, <1>2 DEF Touches

\* set_state and its like: the state and the exit code.
LEMMA StateTouches ==
    ASSUME TableOK, NEW p, NEW s \in {"ready", "running", "zombie"}, NEW b \in BOOLEAN,
           InTable(p),
           \/ procs' = [procs EXCEPT ![p].state = s]
           \/ procs' = [procs EXCEPT ![p].state = s, ![p].exited = b]
    PROVE  Touches(p)
<1>1. p \in DOMAIN procs /\ procs[p] \in Processes BY DEF TableOK, InTable
<1>2. CASE procs' = [procs EXCEPT ![p].state = s]
  <2> DEFINE r == [procs[p] EXCEPT !.state = s]
  <2>1. r \in Processes /\ r.kind = procs[p].kind /\ r.prio = procs[p].prio /\ r.uid = procs[p].uid
    BY <1>1 DEF Processes
  <2>2. procs' = [procs EXCEPT ![p] = r] BY <1>2
  <2> QED BY <2>1, <2>2, Zenon DEF Touches
<1>3. CASE procs' = [procs EXCEPT ![p].state = s, ![p].exited = b]
  <2> DEFINE r == [procs[p] EXCEPT !.state = s, !.exited = b]
  <2>1. r \in Processes /\ r.kind = procs[p].kind /\ r.prio = procs[p].prio /\ r.uid = procs[p].uid
    BY <1>1, Zenon DEF Processes
  <2>2. procs' = [procs EXCEPT ![p] = r] BY <1>1, <1>3, Zenon
  <2> QED BY <2>1, <2>2, Zenon DEF Touches
<1> QED BY <1>2, <1>3

\* The steps that change one entry (a task attached, a process begun, killed or
\* ended, a capability dropped) preserve the invariant.
LEMMA EntrySteps ==
    ASSUME IInv, AttachTask \/ (MarkRunning /\ Pc = "begin") \/ Slay \/ Drop \/ TaskExit
    PROVE  IInv'
<1>1. /\ Stack(fg) /\ TableOK /\ BgOK /\ user \in Users \cup {0}
      /\ PidsIn(fg, Issued \cup {0})
  BY TypeParts, SMTT(30) DEF IInv
<1>2. UNCHANGED <<nextPid, shellPid, sched, bg, user>> /\ Pc \notin OffPcs \cup EnsurePcs \cup Main
  BY DEF AttachTask, MarkRunning, Slay, Drop, TaskExit, At, OffPcs, EnsurePcs, Main
<1>3. BgOK' BY <1>1, <1>2 DEF BgOK, bg, Issued
<1>4. SUFFICES Touches(fg[1].pid) /\ Stack(fg') /\ PidsIn(fg', Issued \cup {0}) /\ Plain(fg')
  <2>1. KeptTable BY <1>1, <1>4, TouchedKept
  <2> QED BY <1>1, <1>2, <1>3, <1>4, <2>1, TableStep
<1> DEFINE p == fg[1].pid
<1>5. InTable(p) => procs[p] \in Processes /\ p \in DOMAIN procs BY <1>1 DEF TableOK, InTable
<1>6. CASE AttachTask
  <2>1. Stack(fg') /\ PidsIn(fg', Issued \cup {0}) /\ Plain(fg')
    BY <1>2, <1>6, Returned DEF AttachTask
  <2>2. CASE ~InTable(p) BY <1>6, <2>1, <2>2 DEF AttachTask, Touches
  <2>3. CASE InTable(p)
    <3> DEFINE r == [procs[p] EXCEPT !.task = nextTask - 1]
    <3>1. nextTask - 1 \in Nat BY <1>1 DEF BgOK
    <3>2. r \in Processes /\ r.kind = procs[p].kind /\ r.prio = procs[p].prio /\ r.uid = procs[p].uid
      BY <1>5, <2>3, <3>1 DEF Processes
    <3>3. procs' = [procs EXCEPT ![p] = r] BY <1>6, <2>3 DEF AttachTask
    <3>4. Touches(p) BY <2>3, <3>2, <3>3, Zenon DEF Touches
    <3> QED BY <2>1, <3>4
  <2> QED BY <2>2, <2>3
<1>7. CASE MarkRunning /\ Pc = "begin"
  <2>1. Goto("body0") BY <1>7 DEF MarkRunning
  <2>2. /\ "body0" \in Pcs \ BusyPcs /\ "body0" \notin {"spawn", "su"} /\ "body0" # "task"
        /\ ("body0" \in Main <=> Pc \in Main)
    BY <1>7 DEF Pcs, BusyPcs, EnsurePcs, OffPcs, Main
  <2>3. Stack(fg') /\ PidsIn(fg', Issued \cup {0}) /\ Plain(fg') BY <1>2, <2>1, <2>2, WentOn
  <2>4. CASE ~InTable(p) BY <1>7, <2>3, <2>4 DEF MarkRunning, Touches
  <2>5. CASE InTable(p)
    <3>1. procs' = [procs EXCEPT ![p].state = "running"] BY <1>7, <2>5 DEF MarkRunning
    <3>2. Touches(p) BY <1>1, <2>5, <3>1, StateTouches, Zenon
    <3> QED BY <2>3, <3>2
  <2> QED BY <2>4, <2>5
<1>8. CASE Slay
  <2>1. PICK pc \in {"killed", "notask"} : Goto(pc) BY <1>8 DEF Slay
  <2>2. /\ pc \in Pcs \ BusyPcs /\ pc \notin {"spawn", "su"} /\ pc # "task"
        /\ (pc \in Main <=> Pc \in Main)
    BY <1>8 DEF Slay, At, Pcs, BusyPcs, EnsurePcs, OffPcs, Main
  <2>3. Stack(fg') /\ PidsIn(fg', Issued \cup {0}) /\ Plain(fg') BY <1>2, <2>1, <2>2, WentOn
  <2>4. CASE ~InTable(p) BY <1>8, <2>3, <2>4 DEF Slay, Touches
  <2>5. CASE InTable(p)
    <3>1. procs' = [procs EXCEPT ![p].state = "zombie", ![p].exited = TRUE]
      BY <1>8, <2>5 DEF Slay
    <3>2. Touches(p) BY <1>1, <2>5, <3>1, StateTouches, Zenon
    <3> QED BY <2>3, <3>2
  <2> QED BY <2>4, <2>5
<1>9. CASE Drop
  <2>1. Stack(fg') /\ PidsIn(fg', Issued \cup {0}) /\ Plain(fg')
    BY <1>2, <1>9, Returned DEF Drop
  <2>2. CASE ~InTable(p) BY <1>9, <2>1, <2>2 DEF Drop, Touches
  <2>3. CASE InTable(p)
    <3>1. PICK c \in Caps : procs' = [procs EXCEPT ![p].caps = @ \ {c}]
      BY <1>9, <2>3, Zenon DEF Drop
    <3> DEFINE r == [procs[p] EXCEPT !.caps = @ \ {c}]
    <3>2. r \in Processes /\ r.kind = procs[p].kind /\ r.prio = procs[p].prio /\ r.uid = procs[p].uid
      BY <1>5, <2>3 DEF Processes
    <3>3. procs' = [procs EXCEPT ![p] = r] BY <3>1
    <3>4. Touches(p) BY <2>3, <3>2, <3>3, Zenon DEF Touches
    <3> QED BY <2>1, <3>4
  <2> QED BY <2>2, <2>3
<1>10. CASE TaskExit
  <2>1. Goto("exited") BY <1>10 DEF TaskExit
  <2>2. /\ "exited" \in Pcs \ BusyPcs /\ "exited" \notin {"spawn", "su"} /\ "exited" # "task"
        /\ ("exited" \in Main <=> Pc \in Main)
    BY <1>10 DEF TaskExit, At, Pcs, BusyPcs, EnsurePcs, OffPcs, Main
  <2>3. Stack(fg') /\ PidsIn(fg', Issued \cup {0}) /\ Plain(fg') BY <1>2, <2>1, <2>2, WentOn
  <2>4. CASE ~InTable(p) BY <1>10, <2>3, <2>4 DEF TaskExit, Touches
  <2>5. CASE InTable(p)
    <3>1. procs' = [procs EXCEPT ![p].state = "zombie", ![p].exited = TRUE]
      BY <1>10, <2>5 DEF TaskExit
    <3>2. Touches(p) BY <1>1, <2>5, <3>1, StateTouches, Zenon
    <3> QED BY <2>3, <3>2
  <2> QED BY <2>4, <2>5
<1> QED BY <1>6, <1>7, <1>8, <1>9, <1>10

-----------------------------------------------------------------------------
(* The steps of ensure_shell_process and of run_user_process_with_reap that  *)
(* leave the scheduler alone. *)

\* A step that keeps the table, leaves the scheduler alone and goes on in exec.
LEMMA RunStep ==
    ASSUME IInv, KeptTable, UNCHANGED <<nextPid, shellPid, sched, bg, user>>,
           Stack(fg'), PidsIn(fg', Issued \cup {0}), OffInRun', ExecOK', SpawnOK'
    PROVE  IInv'
<1>1. TableOK /\ SchedOK /\ BgOK /\ user \in Users \cup {0} BY TypeParts DEF IInv
<1>2. TableOK' /\ Issued' = Issued BY <1>1, KeptFacts
<1>3. SchedOK' /\ BgOK' /\ user' \in Users \cup {0} BY <1>1, <1>2 DEF SchedOK, sched, BgOK, bg
<1>4. TypeOK' BY <1>2, <1>3, TypeWhole
<1>5. Kinds' /\ QueueOK' BY <1>1, KeptKinds DEF IInv, sched
<1> QED BY <1>4, <1>5 DEF IInv

\* A step that leaves the table alone keeps it.
LEMMA SameTable == ASSUME TableOK, procs' = procs PROVE KeptTable
BY DEF TableOK, KeptTable

\* The first steps of ensure_shell_process preserve the invariant.
LEMMA EnsureSteps ==
    ASSUME IInv, EnsureShell
    PROVE  IInv'
<1>1. /\ Stack(fg) /\ TableOK /\ SchedOK /\ BgOK /\ user \in Users \cup {0}
      /\ PidsIn(fg, Issued \cup {0})
  BY TypeParts DEF IInv
<1>2. Pc = "ensure" /\ UNCHANGED <<table, sched, bg, user>> BY DEF EnsureShell, At
<1>3. KeptTable /\ UNCHANGED <<nextPid, shellPid, sched, bg, user>>
  BY <1>1, <1>2, SameTable DEF table
<1>4. enabled BY <1>1, <1>2 DEF IInv, OffInRun, SchedOK, OffPcs
<1>5. enabled' BY <1>2, <1>4 DEF sched
<1>6. Len(fg) >= 2 BY <1>1, <1>2, StackShape DEF Pc, Main
<1>7. fg[2].pc = "disable" => ShellThere BY <1>2 DEF IInv, ExecOK, Loaded, EnsurePcs
<1>8. CASE ShellThere
  <2>1. GotoPid("setcur", shellPid)
    BY <1>8 DEF EnsureShell, ShellThere, GotoPid
  <2>2. shellPid \in Nat /\ shellPid \in Issued \cup {0} BY <1>1 DEF TableOK, Issued
  <2>3. /\ "setcur" \in Pcs /\ "setcur" \notin {"spawn", "task", "su"} /\ "setcur" # "enqueue"
        /\ ("setcur" \in Main <=> fg[1].pc \in Main)
        /\ ("setcur" \in EnsurePcs <=> fg[1].pc \in EnsurePcs)
    BY <1>2 DEF Pc, Pcs, Main, EnsurePcs
  <2>4. /\ Stack(fg') /\ PidsIn(fg', Issued \cup {0}) /\ Len(fg') = Len(fg)
        /\ fg'[1].pc = "setcur" /\ fg'[1].pid = shellPid /\ fg'[1].n = fg[1].n
        /\ \A i \in 2..Len(fg) : fg'[i] = fg[i]
    BY <1>1, <2>1, <2>2, <2>3, GotoPidFacts
  <2>5. fg'[2] = fg[2] BY <1>1, <1>6, <2>4, StackShape
  <2>6. ShellThere' BY <1>2, <1>8 DEF ShellThere, InTable, table
  <2>7. fg'[2].pc = "disable" => Loaded(fg[2].pid)'
    BY <1>2, <2>5 DEF IInv, ExecOK, EnsurePcs, Loaded, IsElf, InTable, ShellThere, table, sched
  <2>8. ExecOK' BY <1>2, <2>4, <2>5, <2>6, <2>7, Zenon DEF ExecOK, Pc, EnsurePcs, table
  <2>9. OffInRun' /\ SpawnOK' BY <1>5, <2>4 DEF OffInRun, SpawnOK, Pc, OffPcs
  <2> QED BY <1>3, <2>4, <2>8, <2>9, RunStep
<1>9. CASE ~ShellThere
  <2>1. Goto("mkshell") BY <1>9 DEF EnsureShell, ShellThere, Goto
  <2>2. /\ "mkshell" \in Pcs /\ "mkshell" \notin {"spawn", "enqueue", "su"} /\ "mkshell" # "task"
        /\ ("mkshell" \in Main <=> fg[1].pc \in Main)
        /\ ("mkshell" \in EnsurePcs <=> fg[1].pc \in EnsurePcs)
    BY <1>2 DEF Pc, Pcs, Main, EnsurePcs
  <2>3. /\ Stack(fg') /\ PidsIn(fg', Issued \cup {0}) /\ fg'[1].pc = "mkshell"
        /\ \A i \in 2..Len(fg) : fg'[i] = fg[i]
    BY <1>1, <2>1, <2>2, GotoFacts
  <2>4. fg'[2] = fg[2] BY <1>1, <1>6, <2>3, StackShape
  <2>5. ExecOK' BY <1>7, <1>9, <2>3, <2>4 DEF ExecOK, Pc, EnsurePcs
  <2>6. OffInRun' /\ SpawnOK' BY <1>5, <2>3 DEF OffInRun, SpawnOK, Pc, OffPcs
  <2> QED BY <1>3, <2>3, <2>5, <2>6, RunStep, Zenon
<1> QED BY <1>8, <1>9

\* Steps of exec that set the running frame's pc.
LEMMA InExec ==
    ASSUME IInv, NEW pc \in {"mark", "switch", "get", "user", "restore", "reshell", "teardown", "reap"},
           Goto(pc), Pc \notin EnsurePcs \cup Main
    PROVE  /\ Stack(fg') /\ PidsIn(fg', Issued \cup {0})
           /\ Pc' = pc /\ fg'[1].pid = fg[1].pid /\ fg'[1].sh = fg[1].sh
<1>1. Stack(fg) /\ PidsIn(fg, Issued \cup {0}) BY TypeParts DEF IInv
<1>2. /\ pc \in Pcs /\ pc \notin {"spawn", "enqueue", "su"} /\ pc # "task"
      /\ pc \notin Main /\ pc \notin EnsurePcs
  BY DEF Pcs, Main, EnsurePcs
<1>3. /\ Stack(fg') /\ PidsIn(fg', Issued \cup {0})
      /\ fg'[1].pc = pc /\ fg'[1].pid = fg[1].pid /\ fg'[1].sh = fg[1].sh
  BY <1>1, <1>2, GotoFacts DEF Pc
<1> QED BY <1>3 DEF Pc

\* The steps of run_user_process_with_reap that leave the scheduler alone
\* preserve the invariant.
LEMMA RunSteps ==
    ASSUME IInv, EnterUser \/ Teardown \/ SysExecve \/ ShellRunning \/ (MarkRunning /\ Pc = "mark")
    PROVE  IInv'
<1>1. /\ Stack(fg) /\ TableOK /\ SchedOK /\ BgOK /\ user \in Users \cup {0}
      /\ PidsIn(fg, Issued \cup {0})
  BY TypeParts DEF IInv
<1> DEFINE p == fg[1].pid
           sh == fg[1].sh
<1>2. /\ UNCHANGED <<nextPid, shellPid, sched, bg, user>> /\ Pc \notin EnsurePcs \cup Main
      /\ Pc \in {"get", "teardown", "user", "reshell", "mark"}
  BY DEF EnterUser, Teardown, SysExecve, ShellRunning, MarkRunning, At, EnsurePcs, Main, table
<1>3. IsElf(p) /\ IsShell(sh) /\ p # sh /\ procs[p] \in Processes /\ procs[sh] \in Processes
  BY <1>1, <1>2 DEF IInv, ExecOK, IsElf, IsShell, InTable, TableOK
<1>4. UNCHANGED <<current, kstack, enabled>> BY <1>2 DEF sched
<1>5. CASE EnterUser
  <2>1. Pc = "get" /\ Goto("user") /\ UNCHANGED table
    BY <1>3, <1>5 DEF EnterUser, At, Goto, IsElf
  <2>2. /\ Stack(fg') /\ PidsIn(fg', Issued \cup {0})
        /\ Pc' = "user" /\ fg'[1].pid = p /\ fg'[1].sh = sh
    BY <1>2, <2>1, InExec
  <2>3. KeptTable /\ procs' = procs BY <1>1, <2>1, SameTable DEF table
  <2>4. ExecOK' BY <1>4, <2>1, <2>2, <2>3 DEF IInv, ExecOK, EnsurePcs, IsElf, IsShell, InTable
  <2>5. OffInRun' /\ SpawnOK' BY <1>4, <2>1, <2>2 DEF IInv, OffInRun, SpawnOK, OffPcs
  <2> QED BY <1>2, <2>2, <2>3, <2>4, <2>5, RunStep
<1>6. CASE Teardown
  <2>1. Pc = "teardown" /\ Goto("reap") /\ UNCHANGED table BY <1>6 DEF Teardown, At
  <2>2. /\ Stack(fg') /\ PidsIn(fg', Issued \cup {0})
        /\ Pc' = "reap" /\ fg'[1].pid = p /\ fg'[1].sh = sh
    BY <1>2, <2>1, InExec
  <2>3. KeptTable /\ procs' = procs BY <1>1, <2>1, SameTable DEF table
  <2>4. ExecOK' BY <1>4, <2>1, <2>2, <2>3 DEF IInv, ExecOK, EnsurePcs, IsElf, IsShell, InTable
  <2>5. OffInRun' /\ SpawnOK' BY <1>4, <2>1, <2>2, Zenon DEF IInv, OffInRun, SpawnOK, OffPcs
  <2> QED BY <1>2, <2>2, <2>3, <2>4, <2>5, RunStep
<1>7. CASE SysExecve
  <2>1. Pc = "user" /\ Goto("get") /\ current = p /\ kstack = p
    BY <1>7 DEF SysExecve, At, IInv, ExecOK
  <2>2. /\ Stack(fg') /\ PidsIn(fg', Issued \cup {0})
        /\ Pc' = "get" /\ fg'[1].pid = p /\ fg'[1].sh = sh
    BY <1>2, <2>1, InExec
  <2> DEFINE r == [procs[p] EXCEPT !.exited = FALSE, !.state = "running",
                                   !.caps = @ \cap Default[procs[p].uid]]
  <2>3. r \in Processes /\ r.kind = procs[p].kind /\ r.prio = procs[p].prio
        /\ r.uid = procs[p].uid /\ r.state = "running"
    BY <1>3, Zenon DEF Processes
  <2>4. procs' = [procs EXCEPT ![p] = r] BY <1>3, <1>7, <2>1, Zenon DEF SysExecve, IsElf, InTable
  <2> HIDE DEF r
  <2>5. Touches(p) BY <1>3, <2>3, <2>4, Zenon DEF Touches, IsElf
  <2>6. KeptTable BY <1>1, <2>5, TouchedKept
  <2>7. procs'[p] = r BY <1>3, <2>4 DEF IsElf, InTable
  <2>8. IsElf(p)' /\ IsShell(sh)' BY <1>3, <2>2, <2>6 DEF KeptTable, IsElf, IsShell, InTable
  <2>9. ExecOK' BY <1>4, <2>1, <2>2, <2>3, <2>7, <2>8 DEF ExecOK, EnsurePcs
  <2>10. OffInRun' /\ SpawnOK' BY <1>4, <2>1, <2>2 DEF IInv, OffInRun, SpawnOK, OffPcs
  <2> QED BY <1>2, <2>2, <2>6, <2>9, <2>10, RunStep, Zenon
<1>8. CASE ShellRunning
  <2>1. Pc = "reshell" /\ Goto("teardown") BY <1>8 DEF ShellRunning, At
  <2>2. /\ Stack(fg') /\ PidsIn(fg', Issued \cup {0})
        /\ Pc' = "teardown" /\ fg'[1].pid = p /\ fg'[1].sh = sh
    BY <1>2, <2>1, InExec
  <2>3. procs' = [procs EXCEPT ![sh].state = "running"] /\ InTable(sh)
    BY <1>3, <1>8 DEF ShellRunning, IsShell
  <2>4. Touches(sh) BY <1>1, <2>3, StateTouches, Zenon
  <2>5. KeptTable BY <1>1, <2>4, TouchedKept
  <2>6. procs'[p] = procs[p] BY <1>3, <2>3 DEF IsElf, InTable
  <2>7. IsElf(p)' /\ IsShell(sh)' BY <1>3, <2>2, <2>5 DEF KeptTable, IsElf, IsShell, InTable
  <2>8. ExecOK' BY <1>4, <2>1, <2>2, <2>6, <2>7, Zenon DEF IInv, ExecOK, EnsurePcs
  <2>9. OffInRun' /\ SpawnOK' BY <1>4, <2>1, <2>2 DEF IInv, OffInRun, SpawnOK, OffPcs
  <2> QED BY <1>2, <2>2, <2>5, <2>8, <2>9, RunStep, Zenon
<1>9. CASE MarkRunning /\ Pc = "mark"
  <2>1. Pc = "mark" /\ Goto("switch") BY <1>9 DEF MarkRunning
  <2>2. /\ Stack(fg') /\ PidsIn(fg', Issued \cup {0})
        /\ Pc' = "switch" /\ fg'[1].pid = p /\ fg'[1].sh = sh
    BY <1>2, <2>1, InExec
  <2>3. procs' = [procs EXCEPT ![p].state = "running"] /\ InTable(p)
    BY <1>3, <1>9 DEF MarkRunning, IsElf
  <2>4. Touches(p) BY <1>1, <2>3, StateTouches, Zenon
  <2>5. KeptTable BY <1>1, <2>4, TouchedKept
  <2>6. procs'[p].state = "running" BY <1>3, <2>3 DEF Processes, InTable
  <2>7. IsElf(p)' /\ IsShell(sh)' BY <1>3, <2>2, <2>5 DEF KeptTable, IsElf, IsShell, InTable
  <2>8. ExecOK' BY <1>4, <2>1, <2>2, <2>6, <2>7, Zenon DEF IInv, ExecOK, EnsurePcs
  <2>9. OffInRun' /\ SpawnOK' BY <1>4, <2>1, <2>2 DEF IInv, OffInRun, SpawnOK, OffPcs
  <2> QED BY <1>2, <2>2, <2>5, <2>8, <2>9, RunStep
<1> QED BY <1>5, <1>6, <1>7, <1>8, <1>9

-----------------------------------------------------------------------------
(* Steps that add a process. *)

\* create_process makes an entry of the table's type.
LEMMA NewProcessType ==
    ASSUME NEW kind \in {"shell", "command", "elf"}, NEW parent \in Nat,
           NEW u \in Users \cup {0}, NEW prio \in Prios,
           NEW state \in {"ready", "running", "zombie"}, NEW caps \in SUBSET Caps
    PROVE  /\ NewProcess(kind, parent, u, prio, state, caps) \in Processes
           /\ NewProcess(kind, parent, u, prio, state, caps).kind = kind
           /\ NewProcess(kind, parent, u, prio, state, caps).prio = prio
           /\ NewProcess(kind, parent, u, prio, state, caps).uid = u
BY SizesAssumption DEF NewProcess, Processes

\* What a child inherits is a set of capabilities.
LEMMA InheritedType ==
    ASSUME NEW parent, user \in Users \cup {0}
    PROVE  Inherited(parent, user) \in SUBSET Caps /\ Default[user] \in SUBSET Caps
BY UsersAssumption DEF Inherited

\* What a new process leaves as it is: pids are not used again.
LEMMA AddFacts ==
    ASSUME TableOK, SchedOK, BgOK, NEW r \in Processes, Add(r),
           shellPid' \in Issued \cup {0, nextPid}, UNCHANGED <<sched, bg>>
    PROVE  /\ TableOK' /\ SchedOK' /\ BgOK' /\ Issued \subseteq Issued'
           /\ nextPid \notin Issued \cup {0, 1} /\ nextPid \in Issued' /\ nextPid \in Nat
           /\ DOMAIN procs' = DOMAIN procs \cup {nextPid} /\ procs'[nextPid] = r
           /\ \A q \in DOMAIN procs : procs'[q] = procs[q] /\ q # nextPid
<1>1. nextPid \in Nat \ {0, 1} /\ nextPid' = nextPid + 1 BY DEF TableOK, Add
<1>2. /\ Issued' = Issued \cup {nextPid} /\ nextPid \notin Issued \cup {0, 1}
      /\ nextPid' \in Nat \ {0, 1}
  BY <1>1 DEF Issued
<1>3. DOMAIN procs' = DOMAIN procs \cup {nextPid} /\ procs'[nextPid] = r
      /\ \A q \in DOMAIN procs : procs'[q] = procs[q] /\ q # nextPid
  BY <1>2 DEF Add, TableOK
<1>4. TableOK'
  <2>1. DOMAIN procs' \subseteq Issued' /\ shellPid' \in Issued' \cup {0}
    BY <1>2, <1>3 DEF TableOK
  <2>2. \A p \in DOMAIN procs' : procs'[p] \in Processes BY <1>3 DEF TableOK
  <2> QED BY <1>2, <2>1, <2>2 DEF TableOK
<1>5. SchedOK'
  <2>1. \A i \in Prios : queues[i] \in Seq(Issued') BY <1>2, Widened DEF SchedOK
  <2>2. queues \in [Prios -> Seq(Issued')] BY <2>1 DEF SchedOK
  <2>3. current \in Issued' \cup {0} /\ kstack \in Issued' \cup {0} /\ enabled \in BOOLEAN
    BY <1>2 DEF SchedOK
  <2> QED BY <2>2, <2>3 DEF SchedOK, sched
<1>6. BgOK'
  <2> DEFINE R(S) == [id : Nat, pid : S, cmd : Bodies, yielded : BOOLEAN]
  <2>1. R(Issued) \subseteq R(Issued') BY <1>2
  <2>2. tasks \in Seq(R(Issued)) BY DEF BgOK
  <2> HIDE DEF R
  <2>3. tasks \in Seq(R(Issued')) BY <2>1, <2>2, Widened
  <2> USE DEF R
  <2> QED BY <2>3 DEF BgOK, bg
<1> QED BY <1>1, <1>2, <1>3, <1>4, <1>5, <1>6

\* A new pid is nobody's: what named a process names the same one.
LEMMA AddKinds ==
    ASSUME TableOK, SchedOK, Kinds, QueueOK, NEW r, nextPid \notin Issued \cup {0, 1},
           DOMAIN procs' = DOMAIN procs \cup {nextPid}, procs'[nextPid] = r,
           \A q \in DOMAIN procs : procs'[q] = procs[q] /\ q # nextPid,
           shellPid' = shellPid \/ (shellPid' = nextPid /\ r.kind = "shell"),
           UNCHANGED sched
    PROVE  Kinds' /\ QueueOK'
<1>1. UNCHANGED <<queues, kstack>> BY DEF sched
<1>2. Kinds' BY <1>1 DEF Kinds, IsElf, InTable, TableOK
<1>3. ASSUME NEW i \in Prios, NEW a \in DOMAIN queues[i], InTable(queues[i][a])'
      PROVE  procs'[queues[i][a]].prio = i
  <2>1. queues[i] \in Seq(Issued) BY DEF SchedOK
  <2>2. queues[i][a] \in Issued BY <2>1, Lens
  <2>3. queues[i][a] \in DOMAIN procs BY <1>1, <1>3, <2>2 DEF InTable
  <2> QED BY <2>3 DEF QueueOK, InTable
<1>4. QueuedOnce' BY <1>1 DEF QueueOK, QueuedOnce
<1> QED BY <1>1, <1>2, <1>3, <1>4 DEF QueueOK

\* The steps that add a process (the shell, a spawned command, a program)
\* preserve the invariant.
LEMMA AddSteps ==
    ASSUME IInv, MakeShell \/ Spawn \/ Exec
    PROVE  IInv'
<1>1. /\ Stack(fg) /\ TableOK /\ SchedOK /\ BgOK /\ user \in Users \cup {0}
      /\ PidsIn(fg, Issued \cup {0}) /\ Kinds /\ QueueOK
  BY TypeParts DEF IInv
<1>2. /\ UNCHANGED <<sched, bg, user>> /\ Pc \in {"mkshell", "spawn", "exec"}
      /\ UNCHANGED <<queues, current, kstack, enabled>>
  BY DEF MakeShell, Spawn, Exec, At, sched
<1>3. enabled' BY <1>1, <1>2 DEF IInv, OffInRun, SchedOK, OffPcs
<1>4. fg[1] \in Frames /\ FrameOK(fg[1]) /\ fg[1].sh \in Nat /\ Len(fg) \in Nat /\ Len(fg) >= 2
  <2>1. Len(fg) \in Nat /\ Len(fg) >= 2 /\ 1 \in 1..Len(fg) /\ fg[1] \in Frames
    BY <1>1, <1>2, StackShape DEF Pc, Main
  <2>2. FrameOK(fg[1]) BY <1>1, <2>1, Zenon DEF Stack
  <2> QED BY <2>1, <2>2 DEF Frames
<1>5. CASE MakeShell /\ ~Full
  <2> DEFINE r == NewProcess("shell", 0, user, Shell, "running", Default[user])
  <2>1. Pc = "mkshell" /\ Add(r) /\ shellPid' = nextPid /\ GotoPid("setcur", shellPid')
    BY <1>5 DEF MakeShell, At, GotoPid
  <2>2. r \in Processes /\ r.kind = "shell" /\ r.uid = user
    <3>1. Shell \in Prios /\ 0 \in Nat /\ Default[user] \in SUBSET Caps
      BY <1>1, SizesAssumption, InheritedType
    <3> QED BY <1>1, <3>1, NewProcessType
  <2> HIDE DEF r
  <2>3. /\ TableOK' /\ SchedOK' /\ BgOK' /\ Issued \subseteq Issued'
        /\ nextPid \notin Issued \cup {0, 1} /\ nextPid \in Issued' /\ nextPid \in Nat
        /\ DOMAIN procs' = DOMAIN procs \cup {nextPid} /\ procs'[nextPid] = r
        /\ \A q \in DOMAIN procs : procs'[q] = procs[q] /\ q # nextPid
    BY <1>1, <1>2, <2>1, <2>2, AddFacts
  <2>4. Kinds' /\ QueueOK' BY <1>1, <1>2, <2>1, <2>2, <2>3, AddKinds
  <2>5. /\ "setcur" \in Pcs /\ "setcur" \notin {"spawn", "task", "su"} /\ "setcur" # "enqueue"
        /\ ("setcur" \in Main <=> fg[1].pc \in Main)
        /\ ("setcur" \in EnsurePcs <=> fg[1].pc \in EnsurePcs)
    BY <2>1 DEF Pc, Pcs, Main, EnsurePcs
  <2>6. PidsIn(fg, Issued' \cup {0}) /\ nextPid \in Issued' \cup {0} BY <1>1, <2>3, Zenon DEF PidsIn
  <2>7. /\ Stack(fg') /\ PidsIn(fg', Issued' \cup {0}) /\ Len(fg') = Len(fg)
        /\ fg'[1].pc = "setcur" /\ fg'[1].pid = nextPid /\ fg'[1].n = fg[1].n
        /\ \A i \in 2..Len(fg) : fg'[i] = fg[i]
    BY <1>1, <2>1, <2>3, <2>5, <2>6, GotoPidFacts
  <2>8. fg'[2] = fg[2] /\ fg[2].pc # "disable"
    BY <1>4, <2>1, <2>7 DEF IInv, ExecOK, EnsurePcs
  <2>9. ShellThere' BY <1>2, <2>1, <2>2, <2>3 DEF ShellThere, InTable
  <2>10. ExecOK' BY <2>1, <2>7, <2>8, <2>9 DEF ExecOK, Pc, EnsurePcs
  <2>11. OffInRun' /\ SpawnOK' BY <1>3, <2>7 DEF OffInRun, SpawnOK, Pc, OffPcs
  <2>12. TypeOK' BY <1>1, <1>2, <2>3, <2>7, TypeWhole
  <2> QED BY <2>4, <2>7, <2>10, <2>11, <2>12 DEF IInv
<1>6. CASE MakeShell /\ Full
  <2>1. Pc = "mkshell" /\ shellPid' = 1 /\ UNCHANGED <<procs, nextPid>> /\ GotoPid("setcur", 1)
    BY <1>6 DEF MakeShell, At, GotoPid
  <2>2. Issued' = Issued /\ 1 \in Issued BY <1>1, <2>1 DEF Issued, TableOK
  <2>3. TableOK' /\ SchedOK' /\ BgOK'
    BY <1>1, <1>2, <2>1, <2>2 DEF TableOK, SchedOK, BgOK, bg
  <2>4. Kinds' BY <1>1, <1>2, <2>1 DEF Kinds, InTable, IsElf
  <2>5. QueueOK' BY <1>1, <1>2, <2>1 DEF QueueOK, QueuedOnce, InTable
  <2>6. /\ "setcur" \in Pcs /\ "setcur" \notin {"spawn", "task", "su"} /\ "setcur" # "enqueue"
        /\ ("setcur" \in Main <=> fg[1].pc \in Main)
        /\ ("setcur" \in EnsurePcs <=> fg[1].pc \in EnsurePcs)
    BY <2>1 DEF Pc, Pcs, Main, EnsurePcs
  <2>7. /\ Stack(fg') /\ PidsIn(fg', Issued \cup {0}) /\ Len(fg') = Len(fg)
        /\ fg'[1].pc = "setcur" /\ fg'[1].pid = 1 /\ fg'[1].n = fg[1].n
        /\ \A i \in 2..Len(fg) : fg'[i] = fg[i]
    <3>1. 1 \in Nat /\ 1 \in Issued \cup {0} BY <2>2
    <3> QED BY <1>1, <2>1, <2>6, <3>1, GotoPidFacts
  <2>8. fg'[2] = fg[2] /\ fg[2].pc # "disable"
    BY <1>4, <2>1, <2>7 DEF IInv, ExecOK, EnsurePcs
  <2>9. Full' BY <1>6, <2>1 DEF Full
  <2>10. ExecOK' BY <2>1, <2>7, <2>8, <2>9 DEF ExecOK, Pc, EnsurePcs
  <2>11. OffInRun' /\ SpawnOK' BY <1>3, <2>7 DEF OffInRun, SpawnOK, Pc, OffPcs
  <2>12. TypeOK' BY <1>1, <1>2, <2>2, <2>3, <2>7, TypeWhole
  <2> QED BY <2>4, <2>5, <2>7, <2>10, <2>11, <2>12 DEF IInv
<1>7. CASE (Spawn \/ Exec) /\ Full
  <2>1. Pc \in {"spawn", "exec"} /\ Return /\ UNCHANGED <<table, sched, bg, user>>
    BY <1>7 DEF Spawn, Exec, At, table
  <2>2. Pc \notin Main \cup EnsurePcs /\ Pc \notin OffPcs BY <2>1 DEF Main, EnsurePcs, OffPcs
  <2>3. Stack(fg') /\ PidsIn(fg', Issued \cup {0}) /\ Plain(fg') BY <2>1, <2>2, Returned
  <2>4. BgOK' /\ user' \in Users \cup {0} BY <1>1, <2>1 DEF BgOK, bg, table, Issued
  <2> QED BY <2>1, <2>2, <2>3, <2>4, FgStep
<1>8. CASE Spawn /\ ~Full
  <2> DEFINE r == NewProcess("command", fg[1].sh, user, fg[1].n, "ready",
                             Inherited(fg[1].sh, user))
  <2>1. Pc = "spawn" /\ Add(r) /\ shellPid' = shellPid /\ GotoPid("enqueue", nextPid)
    BY <1>8 DEF Spawn, At, GotoPid
  <2>2. fg[1].n \in Prios BY <1>4, <2>1 DEF FrameOK, Pc
  <2>3. r \in Processes /\ r.prio = fg[1].n
    <3>1. Inherited(fg[1].sh, user) \in SUBSET Caps BY <1>1, InheritedType
    <3>3. ASSUME NEW parent \in Nat, NEW caps \in SUBSET Caps, NEW prio \in Prios
          PROVE  LET q == NewProcess("command", parent, user, prio, "ready", caps)
                 IN  q \in Processes /\ q.kind = "command" /\ q.prio = prio
      BY <1>1, NewProcessType
    <3> QED BY <1>4, <2>2, <3>1, <3>3
  <2> HIDE DEF r
  <2>4. shellPid' \in Issued \cup {0, nextPid} BY <1>1, <2>1 DEF TableOK
  <2>5. /\ TableOK' /\ SchedOK' /\ BgOK' /\ Issued \subseteq Issued'
        /\ nextPid \notin Issued \cup {0, 1} /\ nextPid \in Issued' /\ nextPid \in Nat
        /\ DOMAIN procs' = DOMAIN procs \cup {nextPid} /\ procs'[nextPid] = r
        /\ \A q \in DOMAIN procs : procs'[q] = procs[q] /\ q # nextPid
    BY <1>1, <1>2, <2>1, <2>3, <2>4, AddFacts
  <2>6. Kinds' /\ QueueOK' BY <1>1, <1>2, <2>1, <2>5, AddKinds
  <2>7. /\ "enqueue" \in Pcs /\ "enqueue" \notin {"spawn", "task", "su"}
        /\ fg[1].pc = "spawn" /\ nextPid # 0
        /\ ("enqueue" \in Main <=> fg[1].pc \in Main)
        /\ ("enqueue" \in EnsurePcs <=> fg[1].pc \in EnsurePcs)
    BY <2>1, <2>5 DEF Pc, Pcs, Main, EnsurePcs
  <2>8. PidsIn(fg, Issued' \cup {0}) /\ nextPid \in Issued' \cup {0} BY <1>1, <2>5, Zenon DEF PidsIn
  <2>9. /\ Stack(fg') /\ PidsIn(fg', Issued' \cup {0}) /\ Len(fg') = Len(fg)
        /\ fg'[1].pc = "enqueue" /\ fg'[1].pid = nextPid /\ fg'[1].n = fg[1].n
        /\ \A i \in 2..Len(fg) : fg'[i] = fg[i]
    BY <1>1, <2>1, <2>5, <2>7, <2>8, GotoPidFacts
  <2>10. ExecOK' BY <2>9 DEF ExecOK, Pc, EnsurePcs
  <2>11. OffInRun' BY <1>3, <2>9 DEF OffInRun, Pc, OffPcs
  <2>12. SpawnOK' BY <2>3, <2>5, <2>9 DEF SpawnOK, InTable
  <2>13. TypeOK' BY <1>1, <1>2, <2>5, <2>9, TypeWhole
  <2> QED BY <2>6, <2>9, <2>10, <2>11, <2>12, <2>13 DEF IInv
<1>9. CASE Exec /\ ~Full
  <2> DEFINE r == NewProcess("elf", fg[1].sh, user, Normal, "ready",
                             Inherited(fg[1].sh, user))
  <2>1. Pc = "exec" /\ Add(r) /\ shellPid' = shellPid /\ GotoPid("load", nextPid)
    BY <1>9 DEF Exec, At, GotoPid
  <2>2. r \in Processes /\ r.prio = Normal /\ r.kind = "elf"
    <3>1. Normal \in Prios BY SizesAssumption
    <3>2. Inherited(fg[1].sh, user) \in SUBSET Caps BY <1>1, InheritedType
    <3>3. ASSUME NEW parent \in Nat, NEW caps \in SUBSET Caps, NEW prio \in Prios
          PROVE  LET q == NewProcess("elf", parent, user, prio, "ready", caps)
                 IN  q \in Processes /\ q.kind = "elf" /\ q.prio = prio
      BY <1>1, NewProcessType
    <3> QED BY <1>4, <3>1, <3>2, <3>3
  <2> HIDE DEF r
  <2>3. shellPid' \in Issued \cup {0, nextPid} BY <1>1, <2>1 DEF TableOK
  <2>4. /\ TableOK' /\ SchedOK' /\ BgOK' /\ Issued \subseteq Issued'
        /\ nextPid \notin Issued \cup {0, 1} /\ nextPid \in Issued' /\ nextPid \in Nat
        /\ DOMAIN procs' = DOMAIN procs \cup {nextPid} /\ procs'[nextPid] = r
        /\ \A q \in DOMAIN procs : procs'[q] = procs[q] /\ q # nextPid
    BY <1>1, <1>2, <2>1, <2>2, <2>3, AddFacts
  <2>5. Kinds' /\ QueueOK' BY <1>1, <1>2, <2>1, <2>4, AddKinds
  <2>6. /\ "load" \in Pcs /\ "load" \notin {"spawn", "task", "su"} /\ "load" # "enqueue"
        /\ ("load" \in Main <=> fg[1].pc \in Main)
        /\ ("load" \in EnsurePcs <=> fg[1].pc \in EnsurePcs)
    BY <2>1 DEF Pc, Pcs, Main, EnsurePcs
  <2>7. PidsIn(fg, Issued' \cup {0}) /\ nextPid \in Issued' \cup {0} BY <1>1, <2>4, Zenon DEF PidsIn
  <2>8. /\ Stack(fg') /\ PidsIn(fg', Issued' \cup {0}) /\ Len(fg') = Len(fg)
        /\ fg'[1].pc = "load" /\ fg'[1].pid = nextPid /\ fg'[1].n = fg[1].n
        /\ \A i \in 2..Len(fg) : fg'[i] = fg[i]
    BY <1>1, <2>1, <2>4, <2>6, <2>7, GotoPidFacts
  <2>9. ShellThere BY <1>9, <2>1, Zenon DEF IInv, ExecOK
  <2>10. ShellThere' BY <1>2, <2>1, <2>4, <2>9 DEF ShellThere, InTable
  <2>11. current' # nextPid BY <1>1, <1>2, <2>4 DEF SchedOK
  <2>12. procs'[nextPid].kind = "elf" /\ procs'[nextPid].prio = Normal /\ nextPid \in DOMAIN procs'
    BY <2>2, <2>4
  <2>13. ExecOK' BY <2>8, <2>10, <2>11, <2>12 DEF ExecOK, Loaded, IsElf, InTable, Pc, EnsurePcs
  <2>14. OffInRun' /\ SpawnOK' BY <1>3, <2>8 DEF OffInRun, SpawnOK, Pc, OffPcs
  <2>15. TypeOK' BY <1>1, <1>2, <2>4, <2>8, TypeWhole
  <2> QED BY <2>5, <2>8, <2>13, <2>14, <2>15 DEF IInv
<1> QED BY <1>5, <1>6, <1>7, <1>8, <1>9

-----------------------------------------------------------------------------
(* Steps that remove a process. *)

\* Removing a process whose kernel stack is not in use keeps the rest.
LEMMA RemovedFacts ==
    ASSUME TableOK, SchedOK, Kinds, QueueOK, NEW p, procs' = Removed(p),
           kstack # 0 => kstack # p,
           shellPid' \in {shellPid, 0}, UNCHANGED <<nextPid, sched>>
    PROVE  TableOK' /\ SchedOK' /\ Kinds' /\ QueueOK'
<1>1. DOMAIN procs' = DOMAIN procs \ {p} /\ \A q \in DOMAIN procs' : procs'[q] = procs[q]
  BY DEF Removed
<1>2. Issued' = Issued /\ UNCHANGED <<queues, current, kstack, enabled>> BY DEF Issued, sched
<1>3. 0 \notin DOMAIN procs BY DEF TableOK, Issued
<1>4. TableOK'
  <2>1. DOMAIN procs' \subseteq Issued' /\ shellPid' \in Issued' \cup {0}
        /\ nextPid' \in Nat \ {0, 1}
    BY <1>1, <1>2 DEF TableOK
  <2>2. \A q \in DOMAIN procs' : procs'[q] \in Processes BY <1>1 DEF TableOK
  <2> QED BY <2>1, <2>2 DEF TableOK
<1>5. SchedOK' BY <1>2 DEF SchedOK
<1>6. Kinds'
  <2>1. kstack' # 0 => IsElf(kstack)' BY <1>1, <1>2 DEF Kinds, IsElf, InTable
  <2>2. InTable(shellPid)' => procs'[shellPid'].kind = "shell"
    BY <1>1, <1>3 DEF Kinds, InTable
  <2>3. ~InTable(1)' BY <1>1 DEF Kinds, InTable
  <2> QED BY <2>1, <2>2, <2>3 DEF Kinds
<1>7. QueuedOnce' BY <1>2 DEF QueueOK, QueuedOnce
<1>8. ASSUME NEW i \in Prios, NEW a \in DOMAIN queues[i], InTable(queues[i][a])'
      PROVE  procs'[queues[i][a]].prio = i
  <2>1. queues[i][a] \in DOMAIN procs' BY <1>2, <1>8 DEF InTable
  <2> QED BY <1>1, <2>1 DEF QueueOK, InTable
<1>9. QueueOK' BY <1>2, <1>7, <1>8 DEF QueueOK
<1> QED BY <1>4, <1>5, <1>6, <1>9

\* The steps that remove a process (reap, and the reset of the session's shell)
\* preserve the invariant.
LEMMA RemoveSteps ==
    ASSUME IInv, Reap \/ ResetShell
    PROVE  IInv'
<1>1. /\ Stack(fg) /\ TableOK /\ SchedOK /\ BgOK /\ user \in Users \cup {0}
      /\ PidsIn(fg, Issued \cup {0}) /\ Kinds /\ QueueOK
  BY TypeParts DEF IInv
<1>2. UNCHANGED <<nextPid, sched, bg, user>> /\ Pc \in {"reap", "reset"}
  BY DEF Reap, ResetShell, At
<1>3. Issued' = Issued BY <1>2 DEF Issued
<1>4. BgOK' /\ user' \in Users \cup {0} BY <1>1, <1>2, <1>3 DEF BgOK, bg
<1>5. enabled' BY <1>1, <1>2 DEF IInv, OffInRun, SchedOK, OffPcs, sched
<1>6. SUFFICES /\ TableOK' /\ SchedOK' /\ Kinds' /\ QueueOK'
               /\ Stack(fg') /\ PidsIn(fg', Issued \cup {0}) /\ Plain(fg')
  <2>1. TypeOK' BY <1>3, <1>4, <1>6, TypeWhole
  <2>2. OffInRun' /\ ExecOK' /\ SpawnOK' BY <1>5, <1>6, PlainStep
  <2> QED BY <1>6, <2>1, <2>2 DEF IInv
<1>7. CASE Reap
  <2>1. /\ Pc = "reap" /\ procs' = Removed(fg[1].pid) /\ Return
        /\ shellPid' \in {shellPid, 0}
    BY <1>7 DEF Reap, At
  <2>2. kstack = 0 BY <2>1 DEF IInv, ExecOK
  <2>3. TableOK' /\ SchedOK' /\ Kinds' /\ QueueOK' BY <1>1, <1>2, <2>1, <2>2, RemovedFacts, Zenon
  <2>4. Pc \notin Main \cup EnsurePcs BY <2>1 DEF Main, EnsurePcs
  <2>5. Stack(fg') /\ PidsIn(fg', Issued \cup {0}) /\ Plain(fg') BY <2>1, <2>4, Returned
  <2> QED BY <2>3, <2>5
<1>8. CASE ResetShell
  <2>1. Pc = "reset" /\ procs' = Removed(shellPid) /\ shellPid' \in {shellPid, 0}
    BY <1>8 DEF ResetShell, At
  <2>2. kstack # 0 => kstack # shellPid BY <1>1 DEF Kinds, IsElf
  <2>3. TableOK' /\ SchedOK' /\ Kinds' /\ QueueOK' BY <1>1, <1>2, <2>1, <2>2, RemovedFacts
  <2>4. CASE shellPid = 0
    <3>1. Goto("login") BY <1>8, <2>4 DEF ResetShell, Goto
    <3>2. /\ "login" \in Pcs \ BusyPcs /\ "login" \notin {"spawn", "su"} /\ "login" # "task"
          /\ ("login" \in Main <=> Pc \in Main) /\ Pc \notin EnsurePcs
      BY <2>1 DEF Pcs, BusyPcs, EnsurePcs, OffPcs, Main
    <3>3. Stack(fg') /\ PidsIn(fg', Issued \cup {0}) /\ Plain(fg') BY <3>1, <3>2, WentOn
    <3> QED BY <2>3, <3>3
  <2>5. CASE shellPid # 0
    <3>1. GotoPid("forget", shellPid) BY <1>8, <2>5 DEF ResetShell, GotoPid
    <3>2. shellPid \in Nat /\ shellPid \in Issued \cup {0} BY <1>1 DEF TableOK, Issued
    <3>3. /\ "forget" \in Pcs /\ "forget" \notin {"spawn", "task", "su"} /\ "forget" # "enqueue"
          /\ ("forget" \in Main <=> fg[1].pc \in Main)
          /\ ("forget" \in EnsurePcs <=> fg[1].pc \in EnsurePcs)
      BY <2>1 DEF Pc, Pcs, Main, EnsurePcs
    <3>4. Stack(fg') /\ PidsIn(fg', Issued \cup {0}) /\ fg'[1].pc = "forget"
      BY <1>1, <3>1, <3>2, <3>3, GotoPidFacts
    <3>5. Plain(fg') BY <3>4 DEF Plain, BusyPcs, EnsurePcs, OffPcs
    <3> QED BY <2>3, <3>4, <3>5
  <2> QED BY <2>4, <2>5
<1> QED BY <1>7, <1>8

-----------------------------------------------------------------------------
(* The run queues. *)

Once(qs) ==
    \A i, j \in Prios : \A a \in DOMAIN qs[i], b \in DOMAIN qs[j] :
        qs[i][a] = qs[j][b] => i = j /\ a = b

Placed(qs) ==
    \A i \in Prios : \A a \in DOMAIN qs[i] :
        InTable(qs[i][a]) => procs[qs[i][a]].prio = i

\* QueueOK says where pids are in the queues.
LEMMA QueueParts == QueueOK => Once(queues) /\ Placed(queues)
BY DEF QueueOK, QueuedOnce, Once, Placed

\* Queues with elements taken out.
Within(rs, qs) ==
    /\ \A i \in Prios : \A a \in DOMAIN rs[i] : \E b \in DOMAIN qs[i] : rs[i][a] = qs[i][b]
    /\ \A i \in Prios : \A a, b \in DOMAIN rs[i] : rs[i][a] = rs[i][b] => a = b

\* Queues with elements taken out still have each pid once, in its own queue.
LEMMA Shrunk ==
    ASSUME NEW qs, Once(qs), Placed(qs), NEW rs, Within(rs, qs)
    PROVE  Once(rs) /\ Placed(rs)
<1>1. Placed(rs) BY DEF Placed, Within
<1>2. ASSUME NEW i \in Prios, NEW j \in Prios, NEW a \in DOMAIN rs[i], NEW b \in DOMAIN rs[j],
             rs[i][a] = rs[j][b]
      PROVE  i = j /\ a = b
  <2>1. i = j BY <1>2 DEF Once, Within
  <2> QED BY <1>2, <2>1 DEF Within
<1> QED BY <1>1, <1>2 DEF Once

\* enqueue: a process of the table, into the queue of its priority.
LEMMA EnqueuedFacts ==
    ASSUME queues \in [Prios -> Seq(Issued)], Once(queues), Placed(queues),
           NEW p \in Issued, NEW prio \in Prios, InTable(p), procs[p].prio = prio
    PROVE  /\ Enqueued(queues, p, prio) \in [Prios -> Seq(Issued)]
           /\ Once(Enqueued(queues, p, prio)) /\ Placed(Enqueued(queues, p, prio))
<1> DEFINE rs == Enqueued(queues, p, prio)
           q == queues[prio]
<1>1. CASE InQueue(q, p) BY <1>1 DEF Enqueued
<1>2. CASE ~InQueue(q, p)
  <2>1. rs = [queues EXCEPT ![prio] = Append(q, p)] BY <1>2 DEF Enqueued
  <2>2. /\ q \in Seq(Issued) /\ Len(q) \in Nat /\ DOMAIN q = 1..Len(q)
    BY Lens
  <2>3. /\ Append(q, p) \in Seq(Issued) /\ Len(Append(q, p)) = Len(q) + 1
        /\ \A i \in 1..Len(q) : Append(q, p)[i] = q[i]
        /\ Append(q, p)[Len(q) + 1] = p
    BY <2>2, Appended
  <2>4. rs \in [Prios -> Seq(Issued)] /\ rs[prio] = Append(q, p)
        /\ \A i \in Prios : i # prio => rs[i] = queues[i]
    BY <2>1, <2>3
  <2>5. DOMAIN rs[prio] = 1..Len(q) + 1 BY <2>3, <2>4, Lens
  <2> HIDE DEF rs
  <2>6. ASSUME NEW i \in Prios, NEW a \in DOMAIN rs[i]
        PROVE  \/ a \in DOMAIN queues[i] /\ rs[i][a] = queues[i][a]
               \/ i = prio /\ a = Len(q) + 1 /\ rs[i][a] = p
    <3>1. CASE i = prio BY <2>2, <2>3, <2>4, <2>5, <3>1
    <3>2. CASE i # prio BY <2>4, <3>2
    <3> QED BY <3>1, <3>2
  <2>7. \A i \in Prios : \A a \in DOMAIN queues[i] : queues[i][a] # p
    BY <1>2 DEF InQueue, Placed
  <2>8. Placed(rs) BY <2>6, Zenon DEF Placed
  <2>9. ASSUME NEW i \in Prios, NEW j \in Prios, NEW a \in DOMAIN rs[i], NEW b \in DOMAIN rs[j],
               rs[i][a] = rs[j][b]
        PROVE  i = j /\ a = b
    <3>1. CASE a \in DOMAIN queues[i] /\ rs[i][a] = queues[i][a]
      <4>1. b \in DOMAIN queues[j] /\ rs[j][b] = queues[j][b] BY <2>6, <2>7, <2>9, <3>1, ZenonT(60)
      <4>2. a \in DOMAIN queues[i] /\ queues[i][a] = queues[j][b] BY <2>9, <3>1, <4>1, Zenon
      <4> QED BY ONLY Once(queues), i \in Prios, j \in Prios, <4>1, <4>2 DEF Once
    <3>2. CASE i = prio /\ a = Len(q) + 1 /\ rs[i][a] = p
      <4>1. j = prio /\ b = Len(q) + 1 BY <2>6, <2>7, <2>9, <3>2
      <4> QED BY <3>2, <4>1
    <3> QED BY <2>6, <3>1, <3>2
  <2>10. Once(rs) BY <2>9 DEF Once
  <2> QED BY <2>4, <2>8, <2>10 DEF rs
<1> QED BY <1>1, <1>2

\* select_next takes the head of a queue.
LEMMA TailFacts ==
    ASSUME NEW qs \in [Prios -> Seq(Issued)], Once(qs), Placed(qs), NEW i \in Prios, qs[i] # <<>>
    PROVE  /\ [qs EXCEPT ![i] = Tail(@)] \in [Prios -> Seq(Issued)]
           /\ Once([qs EXCEPT ![i] = Tail(@)]) /\ Placed([qs EXCEPT ![i] = Tail(@)])
           /\ Head(qs[i]) \in Issued
<1> DEFINE t == Tail(qs[i])
           rs == [qs EXCEPT ![i] = Tail(@)]
<1>1. /\ Head(qs[i]) \in Issued /\ t \in Seq(Issued) /\ Len(t) = Len(qs[i]) - 1
      /\ \A a \in 1..Len(t) : t[a] = qs[i][a + 1]
  BY Split
<1>2. /\ Len(qs[i]) \in Nat /\ DOMAIN qs[i] = 1..Len(qs[i]) /\ Len(t) \in Nat
      /\ DOMAIN t = 1..Len(t)
  BY <1>1, Lens
<1> HIDE DEF t
<1>3. /\ rs \in [Prios -> Seq(Issued)] /\ rs[i] = t
      /\ \A j \in Prios : j # i => rs[j] = qs[j]
  BY <1>1 DEF t
<1> HIDE DEF rs
<1>4. \A a \in DOMAIN t : a + 1 \in DOMAIN qs[i] /\ t[a] = qs[i][a + 1] /\ a \in Nat
  BY <1>1, <1>2
<1>5. \A j \in Prios : \A a \in DOMAIN rs[j] : \E b \in DOMAIN qs[j] : rs[j][a] = qs[j][b]
  BY <1>3, <1>4, ZenonT(60)
<1>6. ASSUME NEW j \in Prios, NEW a \in DOMAIN rs[j], NEW b \in DOMAIN rs[j], rs[j][a] = rs[j][b]
      PROVE  a = b
  <2>1. CASE j # i BY <1>3, <1>6, <2>1 DEF Once
  <2>2. CASE j = i
    <3>1. a + 1 \in DOMAIN qs[i] /\ b + 1 \in DOMAIN qs[i] /\ qs[i][a + 1] = qs[i][b + 1]
          /\ a \in Nat /\ b \in Nat
      BY <1>3, <1>4, <1>6, <2>2
    <3>2. a + 1 = b + 1 BY <3>1 DEF Once
    <3> QED BY <3>1, <3>2
  <2> QED BY <2>1, <2>2
<1>7. \A j \in Prios : \A a, b \in DOMAIN rs[j] : rs[j][a] = rs[j][b] => a = b BY <1>6
<1>8. Within(rs, qs) BY <1>5, <1>7 DEF Within
<1>9. Once(rs) /\ Placed(rs) BY <1>8, Shrunk
<1> QED BY <1>1, <1>3, <1>9 DEF rs

-----------------------------------------------------------------------------
(* Steps that change the scheduler. *)

\* A step that changes the scheduler: what remains to be checked of it.
LEMMA SchedStep ==
    ASSUME IInv, KeptTable, UNCHANGED <<nextPid, shellPid, bg, user>>,
           current' \in Issued \cup {0}, kstack' \in Issued \cup {0}, enabled' \in BOOLEAN,
           kstack' # 0 => IsElf(kstack'),
           queues' \in [Prios -> Seq(Issued)], Once(queues'), Placed(queues'),
           Stack(fg'), PidsIn(fg', Issued \cup {0}), OffInRun', ExecOK', SpawnOK'
    PROVE  IInv'
<1>1. TableOK /\ SchedOK /\ BgOK /\ user \in Users \cup {0} /\ Kinds BY TypeParts DEF IInv
<1>2. TableOK' /\ Issued' = Issued BY <1>1, KeptFacts
<1>3. SchedOK' BY <1>2 DEF SchedOK
<1>4. BgOK' /\ user' \in Users \cup {0} BY <1>1, <1>2 DEF BgOK, bg
<1>5. TypeOK' BY <1>2, <1>3, <1>4, TypeWhole
<1>6. Kinds' BY <1>1 DEF Kinds, KeptTable, InTable, IsElf
<1>7. QueuedOnce' BY DEF Once, QueuedOnce
<1>8. ASSUME NEW i \in Prios, NEW a \in DOMAIN queues'[i], InTable(queues[i][a])'
      PROVE  procs'[queues'[i][a]].prio = i
  BY <1>8 DEF Placed, KeptTable, InTable
<1>9. QueueOK' BY <1>7, <1>8, Zenon DEF QueueOK
<1> QED BY <1>5, <1>6, <1>9 DEF IInv

\* activate_process chooses a program's stack or the boot stack.
LEMMA ActivatedFacts ==
    ASSUME TableOK, SchedOK, Kinds, NEW p
    PROVE  /\ Activated(p) \in Issued \cup {0}
           /\ Activated(p) # 0 => IsElf(Activated(p))
           /\ IsElf(p) => Activated(p) = p
           /\ IsShell(p) => Activated(p) = 0
BY DEF Activated, StackOf, Kinds, IsElf, IsShell, InTable, TableOK, SchedOK

\* The steps that enqueue a process (spawn, exec) preserve the invariant.
LEMMA EnqueueSteps ==
    ASSUME IInv, SpawnEnqueue \/ ExecEnqueue
    PROVE  IInv'
<1>1. /\ Stack(fg) /\ TableOK /\ SchedOK /\ BgOK /\ user \in Users \cup {0}
      /\ PidsIn(fg, Issued \cup {0}) /\ 0 \in Issued \cup {0} /\ Kinds /\ QueueOK
  BY TypeParts DEF IInv
<1> DEFINE p == fg[1].pid
<1>2. UNCHANGED <<table, current, enabled, kstack, bg, user>> /\ Pc \in {"enqueue", "load"}
  BY DEF SpawnEnqueue, ExecEnqueue, At
<1>3. KeptTable /\ UNCHANGED <<nextPid, shellPid, bg, user>> /\ procs' = procs
  BY <1>1, <1>2, SameTable DEF table
<1>4. current' \in Issued \cup {0} /\ kstack' \in Issued \cup {0} /\ enabled' \in BOOLEAN
      /\ (kstack' # 0 => IsElf(kstack')) /\ queues \in [Prios -> Seq(Issued)] /\ enabled'
  BY <1>1, <1>2, Zenon DEF SchedOK, Kinds, IInv, OffInRun, OffPcs
<1>5. Once(queues) /\ Placed(queues) BY <1>1, QueueParts
<1>6. CASE SpawnEnqueue
  <2>1. Pc = "enqueue" /\ queues' = Enqueued(queues, p, fg[1].n) /\ Goto("task")
    BY <1>6 DEF SpawnEnqueue, At
  <2>2. InTable(p) /\ procs[p].prio = fg[1].n BY <2>1 DEF IInv, SpawnOK
  <2>3. p \in Issued /\ fg[1].n \in Prios BY <1>1, <2>2 DEF TableOK, InTable, Processes
  <2>4. queues' \in [Prios -> Seq(Issued)] /\ Once(queues') /\ Placed(queues')
    BY <1>4, <1>5, <2>1, <2>2, <2>3, EnqueuedFacts
  <2>5. /\ "task" \in Pcs \ BusyPcs /\ "task" \notin {"spawn", "su"} /\ Pc = "enqueue"
        /\ ("task" \in Main <=> Pc \in Main) /\ Pc \notin EnsurePcs
    BY <2>1 DEF Pcs, BusyPcs, EnsurePcs, OffPcs, Main
  <2>6. Stack(fg') /\ PidsIn(fg', Issued \cup {0}) /\ Plain(fg') BY <2>1, <2>5, WentOn
  <2>7. OffInRun' /\ ExecOK' /\ SpawnOK' BY <1>4, <2>6, PlainStep
  <2> QED BY <1>3, <1>4, <2>4, <2>6, <2>7, SchedStep
<1>7. CASE ExecEnqueue
  <2>1. Pc = "load" /\ queues' = Enqueued(queues, p, Normal) /\ Call(<<Ensure>>, "disable")
    BY <1>7 DEF ExecEnqueue, At
  <2>2. Loaded(p) BY <2>1, Zenon DEF IInv, ExecOK
  <2>3. InTable(p) /\ procs[p].prio = Normal BY <2>2 DEF Loaded, IsElf
  <2>4. p \in Issued /\ Normal \in Prios BY <1>1, <2>3, SizesAssumption DEF TableOK, InTable
  <2>5. queues' \in [Prios -> Seq(Issued)] /\ Once(queues') /\ Placed(queues')
    BY <1>4, <1>5, <2>1, <2>3, <2>4, EnqueuedFacts, Zenon
  <2>6. ("disable" \in Main <=> fg[1].pc \in Main) /\ fg[1].pc \notin EnsurePcs
    BY <2>1 DEF Main, EnsurePcs, Pc
  <2>7. /\ Stack(fg') /\ PidsIn(fg', Issued \cup {0})
        /\ fg'[1].pc = "ensure" /\ fg'[2].pc = "disable" /\ fg'[2].pid = fg[1].pid
    BY <1>1, <2>1, <2>6, CallEnsureFacts
  <2>8. ExecOK'
    BY <1>2, <1>3, <2>2, <2>7, Zenon DEF ExecOK, Loaded, IsElf, InTable, ShellThere, Pc, EnsurePcs
  <2>9. OffInRun' /\ SpawnOK' BY <1>4, <2>7, Zenon DEF OffInRun, SpawnOK, Pc, OffPcs
  <2> QED BY <1>3, <1>4, <2>5, <2>7, <2>8, <2>9, SchedStep, Zenon
<1> QED BY <1>6, <1>7

\* set_current, of the shell and of the program, preserves the invariant.
LEMMA CurrentSteps ==
    ASSUME IInv, ShellCurrent \/ MarkCurrent
    PROVE  IInv'
<1>1. /\ Stack(fg) /\ TableOK /\ SchedOK /\ BgOK /\ user \in Users \cup {0}
      /\ PidsIn(fg, Issued \cup {0}) /\ Kinds /\ QueueOK
  BY TypeParts DEF IInv
<1> DEFINE p == fg[1].pid
<1>2. /\ UNCHANGED <<table, queues, enabled, bg, user>> /\ Pc \in {"setcur", "switch", "body0"}
      /\ current' = p /\ kstack' = IF current = p THEN kstack ELSE Activated(p)
  BY DEF ShellCurrent, MarkCurrent, At, SetCurrent
<1>3. KeptTable /\ UNCHANGED <<nextPid, shellPid, bg, user>> /\ procs' = procs
  BY <1>1, <1>2, SameTable DEF table
<1>4. p \in Issued \cup {0} BY <1>1, StackShape DEF PidsIn
<1>5. current' \in Issued \cup {0} /\ kstack' \in Issued \cup {0} /\ enabled' \in BOOLEAN
      /\ (kstack' # 0 => IsElf(kstack')) /\ queues' \in [Prios -> Seq(Issued)]
  BY <1>1, <1>2, <1>4, ActivatedFacts DEF SchedOK, Kinds
<1>6. Once(queues') /\ Placed(queues') BY <1>1, <1>2, QueueParts
<1>7. CASE ShellCurrent
  <2>a. Pc = "setcur" /\ fg' = Tail([fg EXCEPT ![2].sh = fg[1].pid])
    BY <1>7, Zenon DEF ShellCurrent, At
  <2>b. p = shellPid BY <2>a, Zenon DEF IInv, ExecOK
  <2>c. enabled BY <1>1, <2>a DEF IInv, OffInRun, OffPcs, SchedOK
  <2>1. Pc = "setcur" /\ fg' = Tail([fg EXCEPT ![2].sh = fg[1].pid]) /\ p = shellPid /\ enabled'
    BY <1>2, <2>a, <2>b, <2>c, Zenon
  <2>2. fg[1].pc \in EnsurePcs BY <2>1 DEF Pc, EnsurePcs
  <2>3. /\ Stack(fg') /\ PidsIn(fg', Issued \cup {0})
        /\ fg'[1].pc = fg[2].pc /\ fg'[1].pid = fg[2].pid /\ fg'[1].sh = fg[1].pid
    BY <1>1, <2>1, <2>2, ShellReturnFacts, Zenon
  <2>4. fg[2].pc \in {"spawn", "exec", "disable", "ready"}
    BY <1>1, <2>2 DEF Stack, Callers
  <2>5. OffInRun' /\ SpawnOK' BY <2>1, <2>3, <2>4, Zenon DEF OffInRun, SpawnOK, Pc, OffPcs
  <2>6. fg[2].pc = "exec" => (Full \/ ShellThere)' 
    BY <1>2, <1>3, <2>1, Zenon DEF IInv, ExecOK, Full, ShellThere, InTable
  <2>7. fg[2].pc = "disable" => Loaded(fg[2].pid) /\ fg[2].pid # shellPid
    BY <1>1, <2>1, <2>2, Zenon DEF IInv, ExecOK, EnsurePcs, Loaded, IsElf, Kinds, Pc
  <2>8. fg[2].pc = "disable" => Loaded(fg[1].pid)'
    BY <1>2, <1>3, <2>1, <2>3, <2>7, Zenon DEF Loaded, IsElf, InTable, ShellThere
  <2>9. Pc' \in {"spawn", "exec", "disable", "ready"} /\ Pc' = fg[2].pc BY <2>3, <2>4 DEF Pc
  <2>10. ExecOK' BY <1>3, <2>1, <2>3, <2>6, <2>8, <2>9, Zenon DEF ExecOK, EnsurePcs
  <2> QED BY <1>3, <1>5, <1>6, <2>3, <2>5, <2>10, SchedStep, Zenon
<1>8. CASE MarkCurrent /\ Pc = "switch"
  <2>1. Goto("get") BY <1>8 DEF MarkCurrent
  <2>2. Pc \notin EnsurePcs \cup Main BY <1>8 DEF EnsurePcs, Main
  <2>3. /\ Stack(fg') /\ PidsIn(fg', Issued \cup {0})
        /\ Pc' = "get" /\ fg'[1].pid = p /\ fg'[1].sh = fg[1].sh
    BY <2>1, <2>2, InExec
  <2>4. IsElf(p) /\ IsShell(fg[1].sh) /\ procs[p].state = "running" /\ (current = p => kstack = p)
    BY <1>8 DEF IInv, ExecOK
  <2>5. kstack' = p /\ current' = p BY <1>1, <1>2, <2>4, ActivatedFacts, Zenon
  <2>6. ExecOK' BY <1>3, <2>3, <2>4, <2>5, Zenon DEF ExecOK, EnsurePcs, IsElf, IsShell, InTable
  <2>7. OffInRun' /\ SpawnOK' BY <1>2, <1>8, <2>3, Zenon DEF IInv, OffInRun, SpawnOK, OffPcs
  <2> QED BY <1>3, <1>5, <1>6, <2>3, <2>6, <2>7, SchedStep, Zenon
<1>9. CASE MarkCurrent /\ Pc = "body0"
  <2>1. Goto("body") /\ enabled'
    BY <1>1, <1>2, <1>9 DEF MarkCurrent, IInv, OffInRun, OffPcs, SchedOK
  <2>2. /\ "body" \in Pcs \ BusyPcs /\ "body" \notin {"spawn", "su"} /\ "body" # "task"
        /\ ("body" \in Main <=> Pc \in Main) /\ Pc \notin EnsurePcs
    BY <1>9 DEF Pcs, BusyPcs, EnsurePcs, OffPcs, Main
  <2>3. Stack(fg') /\ PidsIn(fg', Issued \cup {0}) /\ Plain(fg') BY <2>1, <2>2, WentOn
  <2>4. OffInRun' /\ ExecOK' /\ SpawnOK' BY <2>1, <2>3, PlainStep
  <2> QED BY <1>3, <1>5, <1>6, <2>3, <2>4, SchedStep
<1> QED BY <1>7, <1>8, <1>9 DEF MarkCurrent

\* disable_scheduling preserves the invariant, whatever the tick before it chose.
LEMMA DisableSteps ==
    ASSUME IInv, DisableScheduler
    PROVE  IInv'
<1>1. /\ Stack(fg) /\ TableOK /\ SchedOK /\ BgOK /\ user \in Users \cup {0}
      /\ PidsIn(fg, Issued \cup {0}) /\ 0 \in Issued \cup {0} /\ Kinds /\ QueueOK
  BY TypeParts DEF IInv
<1> DEFINE p == fg[1].pid
           sh == fg[1].sh
<1>2. Pc = "disable" /\ UNCHANGED <<nextPid, shellPid, bg, user>>
  BY DEF DisableScheduler, At, table
<1>3. Pc \notin EnsurePcs \cup Main BY <1>2 DEF EnsurePcs, Main
<1>4. IsElf(p) /\ IsShell(sh) /\ p # sh
  BY <1>1, <1>2, Zenon DEF IInv, ExecOK, Loaded, ShellThere, Kinds, IsElf, IsShell
<1>5. queues \in [Prios -> Seq(Issued)] /\ Once(queues) /\ Placed(queues)
  BY <1>1, QueueParts DEF SchedOK
<1>6. CASE DisableScheduler
  <2>1. Pc = "disable" /\ Goto("mark") /\ enabled' = FALSE
        /\ UNCHANGED <<table, queues, current, kstack>>
    BY <1>6 DEF DisableScheduler, At
  <2>2. /\ Stack(fg') /\ PidsIn(fg', Issued \cup {0})
        /\ Pc' = "mark" /\ fg'[1].pid = p /\ fg'[1].sh = sh
    BY <1>3, <2>1, InExec, Zenon
  <2>3. KeptTable /\ procs' = procs BY <1>1, <2>1, SameTable DEF table
  <2>4. current = p => kstack = p BY <2>1, Zenon DEF IInv, ExecOK, Loaded
  <2>5. ExecOK' BY <1>4, <2>1, <2>2, <2>3, <2>4, Zenon DEF ExecOK, EnsurePcs, IsElf, IsShell, InTable
  <2>6. OffInRun' /\ SpawnOK' BY <2>1, <2>2 DEF OffInRun, SpawnOK, OffPcs
  <2>7. current' \in Issued \cup {0} /\ kstack' \in Issued \cup {0} /\ enabled' \in BOOLEAN
        /\ (kstack' # 0 => IsElf(kstack')) /\ queues' \in [Prios -> Seq(Issued)]
        /\ Once(queues') /\ Placed(queues')
    BY <1>1, <1>5, <2>1, Zenon DEF SchedOK, Kinds
  <2> QED BY <1>2, <2>2, <2>3, <2>5, <2>6, <2>7, SchedStep, Zenon
<1> QED BY <1>6

-----------------------------------------------------------------------------
(* The timer interrupt. *)

\* Charging the tick to the current process leaves the rest as it was.
LEMMA AccountedFacts ==
    ASSUME TableOK, NEW free \in BOOLEAN
    PROVE  /\ DOMAIN Accounted(free) = DOMAIN procs
           /\ \A p \in DOMAIN procs : /\ Accounted(free)[p] \in Processes
                                      /\ Accounted(free)[p].kind = procs[p].kind
                                      /\ Accounted(free)[p].prio = procs[p].prio
                                      /\ Accounted(free)[p].uid = procs[p].uid
                                      /\ Accounted(free)[p].caps = procs[p].caps
<1> DEFINE c == current
<1>1. CASE ~free \/ ~InTable(c) BY <1>1 DEF Accounted, TableOK
<1>2. CASE free /\ InTable(c)
  <2>1. procs[c] \in Processes /\ c \in DOMAIN procs BY <1>2 DEF TableOK, InTable
  <2>2. CASE Expires(free)
    <3> DEFINE r == [procs[c] EXCEPT !.state = "ready", !.slice = Slice[procs[c].prio]]
    <3>1. Slice[procs[c].prio] \in Nat \ {0} BY <2>1, SizesAssumption, Zenon DEF Processes
    <3>2. /\ r \in Processes /\ r.kind = procs[c].kind /\ r.prio = procs[c].prio
          /\ r.uid = procs[c].uid /\ r.caps = procs[c].caps
      BY <2>1, <3>1, Zenon DEF Processes
    <3>3. Accounted(free) = [procs EXCEPT ![c] = r] BY <1>2, <2>1, <2>2, Zenon DEF Accounted
    <3> HIDE DEF r
    <3> QED BY <3>2, <3>3 DEF TableOK
  <2>3. CASE ~Expires(free)
    <3> DEFINE r == [procs[c] EXCEPT !.slice = @ - 1]
    <3>1. procs[c].slice \in Nat \ {0, 1} BY <1>2, <2>1, <2>3 DEF Expires, Processes
    <3>2. procs[c].slice - 1 \in Nat \ {0} BY <3>1
    <3>3. /\ r \in Processes /\ r.kind = procs[c].kind /\ r.prio = procs[c].prio
          /\ r.uid = procs[c].uid /\ r.caps = procs[c].caps
      BY <2>1, <3>2 DEF Processes
    <3>4. Accounted(free) = [procs EXCEPT ![c] = r] BY <1>2, <2>1, <2>3 DEF Accounted
    <3> HIDE DEF r
    <3> QED BY <3>3, <3>4 DEF TableOK
  <2> QED BY <2>2, <2>3
<1> QED BY <1>1, <1>2

\* The process that waits again is put back in its own queue.
LEMMA WaitingFacts ==
    ASSUME TableOK, SchedOK, Once(queues), Placed(queues), NEW free \in BOOLEAN
    PROVE  /\ Waiting(free) \in [Prios -> Seq(Issued)]
           /\ Once(Waiting(free)) /\ Placed(Waiting(free))
<1>1. CASE ~Expires(free) BY <1>1 DEF Waiting, SchedOK
<1>2. CASE Expires(free)
  <2>1. InTable(current) /\ current \in Issued /\ procs[current].prio \in Prios
    BY <1>2 DEF Expires, InTable, TableOK, Processes
  <2> QED BY <1>2, <2>1, EnqueuedFacts DEF Waiting, SchedOK
<1> QED BY <1>1, <1>2

\* What a tick does to the table: the processes stay, with their capabilities.
LEMMA TickTable ==
    ASSUME TableOK, NEW free \in BOOLEAN, TimerTick(free)
    PROVE  KeptTable /\ \A p \in DOMAIN procs : procs'[p].caps = procs[p].caps
<1> DEFINE acc == Accounted(free)
<1>1. /\ DOMAIN acc = DOMAIN procs
      /\ \A p \in DOMAIN procs : /\ acc[p] \in Processes
                                 /\ acc[p].kind = procs[p].kind
                                 /\ acc[p].prio = procs[p].prio
                                 /\ acc[p].uid = procs[p].uid
                                 /\ acc[p].caps = procs[p].caps
  BY AccountedFacts
<1>2. \/ procs' = acc
      \/ \E p \in DOMAIN procs : procs' = [acc EXCEPT ![p].state = "running"]
  BY Zenon DEF TimerTick, InTable
<1> HIDE DEF acc
<1>3. CASE procs' = acc BY <1>1, <1>3 DEF KeptTable
<1>4. ASSUME NEW p \in DOMAIN procs, procs' = [acc EXCEPT ![p].state = "running"]
      PROVE  KeptTable /\ \A q \in DOMAIN procs : procs'[q].caps = procs[q].caps
  <2> DEFINE r == [acc[p] EXCEPT !.state = "running"]
  <2>1. /\ r \in Processes /\ r.kind = procs[p].kind /\ r.prio = procs[p].prio
        /\ r.uid = procs[p].uid /\ r.caps = procs[p].caps
    BY <1>1 DEF Processes
  <2>2. procs' = [acc EXCEPT ![p] = r] BY <1>4
  <2> HIDE DEF r
  <2> QED BY <1>1, <2>1, <2>2 DEF KeptTable
<1> QED BY <1>2, <1>3, <1>4

\* A tick between two steps of exec keeps what they owe each other.
LEMMA TickExec ==
    ASSUME IInv, KeptTable, UNCHANGED <<nextPid, shellPid, user, fg>>,
           Pc \notin OffPcs \cup {"reshell", "teardown", "reap"},
           Pc \in {"load", "disable"} \cup EnsurePcs =>
              \A q : IsElf(q) /\ (current = q => kstack = q) => (current' = q => kstack' = q)
    PROVE  ExecOK' /\ SpawnOK'
<1>1. TableOK BY TypeParts DEF IInv
<1>2. Pc' = Pc BY DEF Pc
<1>3. SpawnOK' BY <1>2, Zenon DEF IInv, SpawnOK, KeptTable, InTable
<1>4. (Full' <=> Full) /\ (ShellThere' <=> ShellThere)
  BY DEF KeptTable, Full, ShellThere, InTable
<1>5. ASSUME NEW q, Loaded(q), Pc \in {"load", "disable"} \cup EnsurePcs
      PROVE  Loaded(q)'
  <2>1. InTable(q) /\ IsElf(q) BY <1>5 DEF Loaded, IsElf
  <2>2. IsElf(q)' /\ procs'[q].prio = Normal
    BY <1>5, <2>1 DEF KeptTable, IsElf, InTable, Loaded
  <2>3. current' = q => kstack' = q BY <1>5, <2>1 DEF Loaded
  <2> QED BY <1>4, <1>5, <2>2, <2>3, Zenon DEF Loaded
<1>6. Pc \in {"load", "disable"} => Loaded(fg[1].pid)'
  <2>1. Pc \in {"load", "disable"} => Loaded(fg[1].pid) BY DEF IInv, ExecOK
  <2>2. Pc \in {"load", "disable"} => \A q : Loaded(q) => Loaded(q)' BY <1>5
  <2>3. fg' = fg OBVIOUS
  <2> QED BY <2>1, <2>2, <2>3, Zenon DEF Loaded, IsElf, InTable, ShellThere
<1>7. Pc \in EnsurePcs /\ fg[2].pc = "disable" => Loaded(fg[2].pid)' /\ Pc # "mkshell"
  <2>1. Pc \in EnsurePcs /\ fg[2].pc = "disable" => Loaded(fg[2].pid) /\ Pc # "mkshell"
    BY DEF IInv, ExecOK
  <2>2. Pc \in EnsurePcs => \A q : Loaded(q) => Loaded(q)' BY <1>5
  <2>3. fg' = fg OBVIOUS
  <2> QED BY <2>1, <2>2, <2>3, Zenon DEF Loaded, IsElf, InTable, ShellThere
<1>8. ExecOK'
  <2>1. Pc = "setcur" => fg[1].pid = shellPid BY Zenon DEF IInv, ExecOK
  <2>2. Pc = "exec" => (Full \/ ShellThere)' BY <1>4 DEF IInv, ExecOK
  <2>3. Pc = "setcur" /\ fg[2].pc = "exec" => (Full \/ ShellThere)' BY <1>4, Zenon DEF IInv, ExecOK
  <2>4. Pc = "disable" => fg[1].sh = shellPid BY Zenon DEF IInv, ExecOK
  <2> QED BY <1>2, <1>6, <1>7, <2>1, <2>2, <2>3, <2>4, Zenon DEF ExecOK, OffPcs
<1> QED BY <1>3, <1>8

\* The timer interrupt preserves the invariant at any point of the kernel thread.
LEMMA TickSteps ==
    ASSUME IInv, Tick
    PROVE  IInv'
<1>1. /\ Stack(fg) /\ TableOK /\ SchedOK /\ BgOK /\ user \in Users \cup {0}
      /\ PidsIn(fg, Issued \cup {0}) /\ Kinds /\ QueueOK
  BY TypeParts DEF IInv
<1>2. PICK free \in BOOLEAN : /\ TimerTick(free)
                              /\ free => Pc \notin InterruptsOff
                              /\ ~free => Pc \in Unprotected
  BY Zenon DEF Tick
<1>3. enabled /\ UNCHANGED <<nextPid, shellPid, enabled, bg, user, fg>> BY <1>2 DEF TimerTick
<1>4. Pc \notin OffPcs \cup {"reshell", "teardown", "reap"}
  BY <1>1, <1>2, <1>3 DEF IInv, OffInRun, OffPcs, InterruptsOff, Unprotected
<1>5. KeptTable BY <1>1, <1>2, TickTable
<1>6. Stack(fg') /\ PidsIn(fg', Issued \cup {0}) BY <1>1, <1>3
<1>7. OffInRun' BY <1>3, <1>4 DEF OffInRun, Pc
<1>8. Once(queues) /\ Placed(queues) BY <1>1, QueueParts
<1>9. SUFFICES /\ current' \in Issued \cup {0} /\ kstack' \in Issued \cup {0}
               /\ kstack' # 0 => IsElf(kstack')
               /\ queues' \in [Prios -> Seq(Issued)] /\ Once(queues') /\ Placed(queues')
               /\ free => \A q : IsElf(q) /\ (current = q => kstack = q)
                                    => (current' = q => kstack' = q)
  <2>1. Pc \in {"load", "disable"} \cup EnsurePcs => free
    BY <1>2 DEF Unprotected, EnsurePcs
  <2>2. ExecOK' /\ SpawnOK' BY <1>3, <1>4, <1>5, <1>9, <2>1, TickExec
  <2>3. enabled' \in BOOLEAN BY <1>1, <1>3 DEF SchedOK
  <2> QED BY <1>3, <1>5, <1>6, <1>7, <1>9, <2>2, <2>3, SchedStep
<1> DEFINE ws == Waiting(free)
<1>10. ws \in [Prios -> Seq(Issued)] /\ Once(ws) /\ Placed(ws) BY <1>1, <1>8, WaitingFacts
<1>11. CASE UNCHANGED <<queues, current, kstack>>
  BY <1>1, <1>8, <1>11 DEF SchedOK, Kinds
<1>12. ASSUME NEW i \in Urgent(ws), queues' = [ws EXCEPT ![i] = Tail(@)], current' = Head(ws[i]),
              kstack' = IF free /\ current # Head(ws[i]) THEN Activated(Head(ws[i])) ELSE kstack
       PROVE  /\ current' \in Issued \cup {0} /\ kstack' \in Issued \cup {0}
              /\ kstack' # 0 => IsElf(kstack')
              /\ queues' \in [Prios -> Seq(Issued)] /\ Once(queues') /\ Placed(queues')
              /\ free => \A q : IsElf(q) /\ (current = q => kstack = q)
                                   => (current' = q => kstack' = q)
  <2>1. i \in Prios /\ ws[i] # <<>> BY DEF Urgent
  <2> HIDE DEF ws
  <2>2. /\ queues' \in [Prios -> Seq(Issued)] /\ Once(queues') /\ Placed(queues')
        /\ current' \in Issued
    BY <1>10, <1>12, <2>1, TailFacts, Zenon
  <2>3. kstack' \in {kstack, Activated(current')} /\ (free /\ current # current' => kstack' = Activated(current'))
        /\ (free /\ current = current' => kstack' = kstack)
    BY <1>12
  <2>4. /\ Activated(current') \in Issued \cup {0}
        /\ Activated(current') # 0 => IsElf(Activated(current'))
        /\ IsElf(current') => Activated(current') = current'
    BY <1>1, ActivatedFacts
  <2>5. kstack \in Issued \cup {0} /\ (kstack # 0 => IsElf(kstack)) BY <1>1 DEF SchedOK, Kinds
  <2>6. kstack' \in Issued \cup {0} /\ (kstack' # 0 => IsElf(kstack')) BY <2>3, <2>4, <2>5
  <2>7. free => \A q : IsElf(q) /\ (current = q => kstack = q) => (current' = q => kstack' = q)
    BY <2>3, <2>4
  <2> QED BY <2>2, <2>6, <2>7
<1>13. \/ UNCHANGED <<queues, current, kstack>>
       \/ \E i \in Urgent(ws) :
             /\ queues' = [ws EXCEPT ![i] = Tail(@)] /\ current' = Head(ws[i])
             /\ kstack' = IF free /\ current # Head(ws[i]) THEN Activated(Head(ws[i])) ELSE kstack
  BY <1>2, Zenon DEF TimerTick
<1> QED BY <1>11, <1>12, <1>13

\* After boot nobody is logged in, and nothing runs.
LEMMA InitOK == Init => IInv
<1> SUFFICES ASSUME Init PROVE IInv OBVIOUS
<1> DEFINE f == Frame("login")
<1>1. /\ f \in Frames /\ f.pc = "login" /\ f.pid = 0
  BY DEF Frame, Frames, Pcs
<1>2. fg = <<f>> BY DEF Init
<1> HIDE DEF f
<1>3. Len(fg) = 1 /\ fg[1] = f /\ fg \in Seq(Frames) /\ fg # <<>> /\ DOMAIN fg = 1..1
  BY <1>1, <1>2
<1>4. Stack(fg) BY <1>1, <1>3 DEF Stack, FrameOK, Main, EnsurePcs
<1>5. Pc = "login" BY <1>1, <1>3 DEF Pc
<1>6. DOMAIN procs = {} BY DEF Init
<1>7. Issued = 1..1 /\ nextPid = 2 BY DEF Init, Issued
<1>8. TypeOK
  <2>1. queues \in [Prios -> Seq(Issued)] BY DEF Init
  <2>2. tasks \in Seq([id : Nat, pid : Issued, cmd : Bodies, yielded : BOOLEAN])
    BY DEF Init
  <2>3. \A i \in DOMAIN fg : fg[i].pid \in Issued \cup {0} BY <1>1, <1>3
  <2>4. nextPid \in Nat \ {0, 1} /\ DOMAIN procs \subseteq Issued BY <1>6, <1>7
  <2>5. \A p \in DOMAIN procs : procs[p] \in Processes BY <1>6
  <2>6. /\ shellPid \in Issued \cup {0} /\ current \in Issued \cup {0}
        /\ kstack \in Issued \cup {0} /\ nextTask \in Nat \ {0} /\ user \in Users \cup {0}
    BY DEF Init
  <2>7. enabled \in BOOLEAN /\ polling \in BOOLEAN BY Zenon DEF Init
  <2> QED BY <1>3, <2>1, <2>2, <2>3, <2>4, <2>5, <2>6, <2>7 DEF TypeOK
<1>9. Kinds BY <1>6 DEF Kinds, Init, InTable
<1>10. OffInRun BY <1>5 DEF OffInRun, OffPcs, Init
<1>11. ExecOK /\ SpawnOK BY <1>5 DEF ExecOK, SpawnOK, EnsurePcs
<1>12. QueueOK BY DEF QueueOK, QueuedOnce, Init
<1> QED BY <1>4, <1>8, <1>9, <1>10, <1>11, <1>12 DEF IInv

-----------------------------------------------------------------------------
(* Capabilities. *)

\* No process is new, and none has a capability it did not have.
CapsKept ==
    /\ DOMAIN procs' \subseteq DOMAIN procs
    /\ \A p \in DOMAIN procs' : procs'[p].caps \subseteq procs[p].caps

CapsStep ==
    \A p \in DOMAIN procs' :
       LET q == procs'[p].parent IN
       IF p \in DOMAIN procs THEN procs'[p].caps \subseteq procs[p].caps
       ELSE q \in DOMAIN procs => procs'[p].caps \subseteq procs[q].caps

\* One entry's other fields change.
LEMMA EntryCaps ==
    ASSUME TableOK, NEW p, NEW r, r.caps \subseteq procs[p].caps,
           procs' = [procs EXCEPT ![p] = r]
    PROVE  CapsKept
BY DEF CapsKept, TableOK

\* spawn_shell_command and spawn_process give a child what its parent has at most.
LEMMA AddCaps ==
    ASSUME TableOK, NEW r, Add(r), r.parent \in DOMAIN procs => r.caps \subseteq procs[r.parent].caps
    PROVE  CapsStep
<1>1. DOMAIN procs' = DOMAIN procs \cup {nextPid} /\ nextPid \notin DOMAIN procs
  BY DEF Add, TableOK, Issued
<1>2. procs'[nextPid] = r /\ \A q \in DOMAIN procs : procs'[q] = procs[q]
  BY <1>1 DEF Add
<1> QED BY <1>1, <1>2 DEF CapsStep

\* A process that is added has no more than its parent.
LEMMA NewCaps ==
    ASSUME IInv, MakeShell \/ Spawn \/ Exec
    PROVE  CapsStep
<1>1. TableOK BY TypeParts DEF IInv
<1>2. CASE procs' = procs BY <1>2 DEF CapsStep
<1>3. ASSUME NEW kind, NEW prio, NEW state, NEW caps, NEW parent,
             parent \in DOMAIN procs => caps \subseteq procs[parent].caps,
             Add(NewProcess(kind, parent, user, prio, state, caps))
      PROVE  CapsStep
  <2> DEFINE r == NewProcess(kind, parent, user, prio, state, caps)
  <2>1. r.parent = parent /\ r.caps = caps BY DEF NewProcess
  <2>2. Add(r) BY <1>3
  <2> HIDE DEF r
  <2> QED BY <1>1, <1>3, <2>1, <2>2, AddCaps
<1>4. \A q : q \in DOMAIN procs => Inherited(q, user) \subseteq procs[q].caps
  BY DEF Inherited, InTable
<1>5. 0 \notin DOMAIN procs BY <1>1 DEF TableOK, Issued
<1>6. CASE MakeShell BY <1>2, <1>3, <1>5, <1>6 DEF MakeShell
<1>7. CASE Spawn BY <1>2, <1>3, <1>4, <1>7 DEF Spawn
<1>8. CASE Exec BY <1>2, <1>3, <1>4, <1>8 DEF Exec
<1> QED BY <1>6, <1>7, <1>8

\* No other step gives a process a capability.
LEMMA OldCaps ==
    ASSUME IInv, [Next]_vars, ~(MakeShell \/ Spawn \/ Exec)
    PROVE  CapsKept
<1>1. TableOK BY TypeParts DEF IInv
<1>2. CASE procs' = procs BY <1>2 DEF CapsKept
<1>3. ASSUME NEW p, procs' = Removed(p) PROVE CapsKept BY <1>3 DEF CapsKept, Removed
<1>4. ASSUME NEW p, p \in DOMAIN procs, NEW s, NEW b, NEW n,
             \/ procs' = [procs EXCEPT ![p].state = s]
             \/ procs' = [procs EXCEPT ![p].state = s, ![p].exited = b]
             \/ procs' = [procs EXCEPT ![p].task = n]
      PROVE  CapsKept
  <2>0. procs[p] \in Processes BY <1>1, <1>4 DEF TableOK
  <2>1. CASE procs' = [procs EXCEPT ![p].state = s]
    BY <1>1, <1>4, <2>0, <2>1, EntryCaps, Zenon DEF Processes
  <2>2. CASE procs' = [procs EXCEPT ![p].state = s, ![p].exited = b]
    <3> DEFINE r == [procs[p] EXCEPT !.state = s, !.exited = b]
    <3>1. r.caps \subseteq procs[p].caps BY <2>0 DEF Processes
    <3>2. procs' = [procs EXCEPT ![p] = r] BY <1>4, <2>2, Zenon
    <3> HIDE DEF r
    <3> QED BY <1>1, <3>1, <3>2, EntryCaps, Zenon
  <2>3. CASE procs' = [procs EXCEPT ![p].task = n]
    BY <1>1, <1>4, <2>0, <2>3, EntryCaps, Zenon DEF Processes
  <2> QED BY <1>4, <2>1, <2>2, <2>3
<1>5. CASE SysExecve
  <2> DEFINE r == [procs[current] EXCEPT !.exited = FALSE, !.state = "running",
                                         !.caps = @ \cap Default[procs[current].uid]]
  <2>1. current \in DOMAIN procs /\ procs[current] \in Processes
    BY <1>1, <1>5 DEF SysExecve, TableOK, InTable
  <2>2. r.caps \subseteq procs[current].caps BY <2>1 DEF Processes
  <2>3. procs' = [procs EXCEPT ![current] = r] BY <1>5, <2>1, Zenon DEF SysExecve
  <2> HIDE DEF r
  <2> QED BY <1>1, <2>2, <2>3, EntryCaps, Zenon
<1>6. CASE Drop
  <2> DEFINE p == fg[1].pid
  <2>1. CASE InTable(p)
    <3>1. PICK c \in Caps : procs' = [procs EXCEPT ![p].caps = @ \ {c}] BY <1>6, <2>1, Zenon DEF Drop
    <3> DEFINE r == [procs[p] EXCEPT !.caps = @ \ {c}]
    <3>2. p \in DOMAIN procs /\ procs[p] \in Processes BY <1>1, <2>1 DEF TableOK, InTable
    <3>3. r.caps \subseteq procs[p].caps BY <3>2 DEF Processes
    <3>4. procs' = [procs EXCEPT ![p] = r] BY <3>1
    <3> HIDE DEF r
    <3> QED BY <1>1, <3>3, <3>4, EntryCaps, Zenon
  <2>2. CASE ~InTable(p) BY <1>2, <1>6, <2>2 DEF Drop
  <2> QED BY <2>1, <2>2
<1>7. CASE Tick
  <2>1. PICK free \in BOOLEAN : TimerTick(free) BY <1>7, Zenon DEF Tick
  <2> QED BY <1>1, <2>1, TickTable DEF CapsKept, KeptTable
<1>8. CASE AttachTask \/ MarkRunning \/ SysExit \/ ShellRunning \/ Slay \/ TaskExit
  BY <1>2, <1>4, <1>8, Zenon DEF AttachTask, MarkRunning, SysExit, ShellRunning, Slay, TaskExit, InTable
<1>9. CASE Reap \/ ResetShell BY <1>3, <1>9 DEF Reap, ResetShell
<1>10. CASE \/ EnsureShell \/ ShellCurrent \/ SpawnEnqueue \/ SpawnTask \/ ExecEnqueue
            \/ DisableScheduler \/ MarkCurrent \/ EnterUser \/ RestoreScheduler \/ Teardown
            \/ Kill \/ KillTask \/ KillDequeue \/ KillOnlyTask \/ ListTasks \/ WaitOver
            \/ DropCurrent \/ SwitchUser \/ ShellLoop \/ PollTask \/ PollDone \/ TaskBody
            \/ TaskDequeue \/ ResetDequeue \/ Login \/ GuiTick \/ GuiLeave \/ GuiAgain
            \/ UNCHANGED vars \/ \E c \in Commands : Command(c) \/ GuiCommand(c)
  <2>1. UNCHANGED table
    BY <1>10, Zenon DEF EnsureShell, ShellCurrent, SpawnEnqueue, SpawnTask, ExecEnqueue,
            DisableScheduler, MarkCurrent, EnterUser, RestoreScheduler, Teardown,
            Kill, KillTask, KillDequeue, KillOnlyTask, ListTasks, WaitOver,
            DropCurrent, SwitchUser, ShellLoop, PollTask, PollDone, TaskBody,
            TaskDequeue, ResetDequeue, Login, GuiTick, GuiLeave, GuiAgain,
            Command, GuiCommand, Execute, vars, table
  <2> QED BY <1>2, <2>1 DEF table
<1> QED BY <1>5, <1>6, <1>7, <1>8, <1>9, <1>10, Zenon DEF Next, Foreground
=============================================================================
