----------------------------- MODULE ExecSched -----------------------------
(***************************************************************************)
(* The process table, the run queues and the timer interrupt of WarExec    *)
(* (kernel/src/exec), the cooperative background tasks (kernel/src/task)   *)
(* and the shell loop that drives them (kernel/src/shell, main.rs).        *)
(*                                                                         *)
(* There is one CPU.  Kernel code runs in one foreground thread, modelled  *)
(* as a stack of frames; a step of it is one lock scope, or one stretch    *)
(* that runs with interrupts off.  The timer interrupt comes between any   *)
(* two steps, and also inside a scope that holds PROCESS_TABLE with        *)
(* interrupts on, where its try_lock fails.  (Inside a scope that holds    *)
(* SCHEDULER it does nothing.)  System calls, and what follows the return  *)
(* of a user program up to its removal, run with interrupts off.           *)
(***************************************************************************)
EXTENDS Naturals, Sequences, FiniteSets

CONSTANTS
    MaxPid,      \* bound: pids handed out in a behaviour
    TableSize,   \* processes the table holds (256 in the code)
    Prios,       \* priorities in use, 0 the most urgent
    Slice,       \* time_slice_for
    FirstSlice,  \* DEFAULT_TIME_SLICE
    Users,       \* users that can log in
    Caps,        \* capabilities
    Default,     \* default_for_uid
    Commands,    \* commands typed at the prompt
    Bodies       \* commands run in the background

Shell == 3      \* Priority::Interactive
Normal == 4     \* Priority::Normal
Batch == 5      \* Priority::Batch

ASSUME SizesAssumption == /\ MaxPid \in Nat \ {0} /\ TableSize \in Nat \ {0}
                          /\ Prios \subseteq Nat /\ {Shell, Normal, Batch} \subseteq Prios
                          /\ Slice \in [Prios -> Nat \ {0}]
                          /\ FirstSlice \in Nat \ {0}
ASSUME UsersAssumption == /\ Users \subseteq Nat \ {0}
                          /\ Default \in [Users \cup {0} -> SUBSET Caps]

VARIABLES
    procs,     \* PROCESS_TABLE: a function from the pids in use
    nextPid, shellPid,
    queues,    \* SCHEDULER: run_queues,
    current,   \*   current_pid (0: none),
    enabled,   \*   enabled
    kstack,    \* whose kernel stack the TSS and the syscall entry use (0: boot)
    tasks,     \* task::SCHEDULER's tasks,
    nextTask,  \*   its next_id,
    polling,   \*   and whether tick() holds its lock
    user,      \* the session's uid (0: nobody is logged in)
    fg         \* the foreground thread's frames, the running one first

table == <<procs, nextPid, shellPid>>
sched == <<queues, current, enabled, kstack>>
bg == <<tasks, nextTask, polling>>
vars == <<table, sched, bg, user, fg>>

Pids == 1..MaxPid

Processes ==
    [state : {"ready", "running", "zombie"}, exited : BOOLEAN, prio : Prios,
     slice : Nat \ {0}, kind : {"shell", "command", "elf"}, parent : Nat,
     uid : Users \cup {0}, caps : SUBSET Caps, task : Nat]

Frame(pc) == [pc |-> pc, pid |-> 0, sh |-> 0, n |-> 0, cmd |-> "none"]

-----------------------------------------------------------------------------
(* Operators of the table and of the scheduler. *)

InTable(p) == p \in DOMAIN procs

Removed(p) == [q \in DOMAIN procs \ {p} |-> procs[q]]

\* Only a loaded ELF image has a kernel stack of its own.
StackOf(p) == IF procs[p].kind = "elf" THEN p ELSE 0

Full == Cardinality(DOMAIN procs) >= TableSize

\* spawn_capabilities
Inherited(parent, u) ==
    Default[u] \cap (IF InTable(parent) THEN procs[parent].caps ELSE Default[u])

NewProcess(kind, parent, u, prio, state, caps) ==
    [state |-> state, exited |-> FALSE, prio |-> prio, slice |-> FirstSlice,
     kind |-> kind, parent |-> parent, uid |-> u, caps |-> caps, task |-> 0]

\* create_process, once the table is known to have room
Add(r) ==
    /\ procs' = [q \in DOMAIN procs \cup {nextPid} |->
                    IF q = nextPid THEN r ELSE procs[q]]
    /\ nextPid' = nextPid + 1

InQueue(q, p) == \E i \in DOMAIN q : q[i] = p

BugEnqueued(qs, p, prio) == [qs EXCEPT ![prio] = Append(@, p)]

\* enqueue
Enqueued(qs, p, prio) ==
    IF InQueue(qs[prio], p) THEN qs ELSE [qs EXCEPT ![prio] = Append(@, p)]

\* The elements of q at the places in keep, in their order: Vec and VecDeque's
\* retain.
Retained(q, keep) ==
    [k \in 1..Cardinality(keep) |->
        q[CHOOSE i \in keep : Cardinality({j \in keep : j <= i}) = k]]

Unqueued(p) ==
    [i \in Prios |-> Retained(queues[i], {a \in DOMAIN queues[i] : queues[i][a] # p})]

\* dequeue: current_pid is cleared without activating another stack
Dequeue(p) ==
    /\ queues' = Unqueued(p)
    /\ current' = IF current = p THEN 0 ELSE current

\* activate_process when PROCESS_TABLE is free
Activated(p) == IF InTable(p) THEN StackOf(p) ELSE kstack

\* set_current_pid
SetCurrent(p) ==
    /\ current' = p
    /\ kstack' = IF current = p THEN kstack ELSE Activated(p)

-----------------------------------------------------------------------------
(* The timer interrupt: exec::tick, timer_tick, select_next. *)

\* The slice of the current process runs out in this tick.
Expires(free) == free /\ InTable(current) /\ procs[current].slice = 1

Accounted(free) ==
    IF ~free \/ ~InTable(current) THEN procs
    ELSE IF Expires(free)
    THEN [procs EXCEPT ![current].state = "ready",
                       ![current].slice = Slice[procs[current].prio]]
    ELSE [procs EXCEPT ![current].slice = @ - 1]

Waiting(free) ==
    IF Expires(free) THEN Enqueued(queues, current, procs[current].prio)
    ELSE queues

\* The most urgent priority with a process waiting.
Urgent(qs) == {i \in Prios : qs[i] # <<>> /\ \A j \in Prios : j < i => qs[j] = <<>>}

TimerTick(free) ==
    /\ enabled
    /\ \/ \E i \in Urgent(Waiting(free)) :
             LET p == Head(Waiting(free)[i])
                 acc == Accounted(free)
             IN  /\ queues' = [Waiting(free) EXCEPT ![i] = Tail(@)]
                 /\ current' = p
                 /\ kstack' = IF free /\ current # p THEN Activated(p) ELSE kstack
                 /\ procs' = IF free /\ InTable(p)
                             THEN [acc EXCEPT ![p].state = "running"] ELSE acc
       \/ /\ Urgent(Waiting(free)) = {}
          /\ procs' = Accounted(free)
          /\ UNCHANGED <<queues, current, kstack>>
    /\ UNCHANGED <<nextPid, shellPid, enabled, bg, user, fg>>

-----------------------------------------------------------------------------
(* The foreground thread. *)

Pc == fg[1].pc

At(pc) == fg # <<>> /\ Pc = pc

Goto(pc) == fg' = [fg EXCEPT ![1].pc = pc]

Return == fg' = Tail(fg)

\* Go on at pc once the frames in front have returned.
Call(frames, pc) == fg' = frames \o [fg EXCEPT ![1].pc = pc]

\* Steps that hold PROCESS_TABLE with interrupts on; at the prompt, the
\* commands that list processes do.
Unprotected == {"ready", "events", "spawn", "attach", "exec", "kill", "slay", "wait",
                "drop", "get"}

\* A user program comes back from its last system call with interrupts off;
\* run_user_process_with_reap turns them on again at its end.
InterruptsOff == {"restore", "reshell", "teardown", "reap"}

Tick ==
    \/ TimerTick(TRUE) /\ Pc \notin InterruptsOff
    \/ TimerTick(FALSE) /\ Pc \in Unprotected

\* Create or reuse the shell process: ensure_shell_process.  The caller's frame
\* gets the pid in sh.
Ensure == Frame("ensure")

EnsureShell ==
    /\ At("ensure")
    /\ fg' = IF InTable(shellPid) /\ procs[shellPid].uid = user
             THEN [fg EXCEPT ![1].pc = "setcur", ![1].pid = shellPid]
             ELSE [fg EXCEPT ![1].pc = "mkshell"]
    /\ UNCHANGED <<table, sched, bg, user>>

MakeShell ==
    /\ At("mkshell")
    /\ \/ /\ ~Full
          /\ Add(NewProcess("shell", 0, user, Shell, "running", Default[user]))
          /\ shellPid' = nextPid
       \/ /\ Full                        \* unwrap_or(1)
          /\ shellPid' = 1
          /\ UNCHANGED <<procs, nextPid>>
    /\ fg' = [fg EXCEPT ![1].pc = "setcur", ![1].pid = shellPid']
    /\ UNCHANGED <<sched, bg, user>>

ShellCurrent ==
    /\ At("setcur")
    /\ SetCurrent(fg[1].pid)
    /\ fg' = Tail([fg EXCEPT ![2].sh = fg[1].pid])
    /\ UNCHANGED <<table, queues, enabled, bg, user>>

\* spawn_shell_command, one step per lock scope.  Without room in the table it
\* reports an error.
Spawn ==
    /\ At("spawn")
    /\ \/ /\ ~Full
          /\ Add(NewProcess("command", fg[1].sh, user, fg[1].n, "ready",
                            Inherited(fg[1].sh, user)))
          /\ fg' = [fg EXCEPT ![1].pc = "enqueue", ![1].pid = nextPid]
       \/ /\ Full
          /\ Return
          /\ UNCHANGED <<procs, nextPid>>
    /\ UNCHANGED <<shellPid, sched, bg, user>>

SpawnEnqueue ==
    /\ At("enqueue")
    /\ queues' = Enqueued(queues, fg[1].pid, fg[1].n)
    /\ Goto("task")
    /\ UNCHANGED <<table, current, enabled, kstack, bg, user>>

\* task::SCHEDULER.lock().spawn: waits for ever if tick() holds the lock.
SpawnTask ==
    /\ At("task") /\ ~polling
    /\ tasks' = Append(tasks, [id |-> nextTask, pid |-> fg[1].pid,
                               cmd |-> fg[1].cmd, yielded |-> FALSE])
    /\ nextTask' = nextTask + 1
    /\ Goto("attach")
    /\ UNCHANGED <<table, sched, polling, user>>

AttachTask ==
    /\ At("attach")
    /\ procs' = IF InTable(fg[1].pid)
                THEN [procs EXCEPT ![fg[1].pid].task = nextTask - 1] ELSE procs
    /\ Return
    /\ UNCHANGED <<nextPid, shellPid, sched, bg, user>>

\* The exec command on an ELF file: spawn_process, then run_user_process.
Exec ==
    /\ At("exec")
    /\ \/ /\ ~Full
          /\ Add(NewProcess("elf", fg[1].sh, user, Normal, "ready",
                            Inherited(fg[1].sh, user)))
          /\ fg' = [fg EXCEPT ![1].pc = "load", ![1].pid = nextPid]
       \/ /\ Full
          /\ Return
          /\ UNCHANGED <<procs, nextPid>>
    /\ UNCHANGED <<shellPid, sched, bg, user>>

ExecEnqueue ==
    /\ At("load")
    /\ queues' = Enqueued(queues, fg[1].pid, Normal)
    /\ Call(<<Ensure>>, "disable")
    /\ UNCHANGED <<table, current, enabled, kstack, bg, user>>

BugDisableLate ==
    /\ At("disable")
    /\ Goto("mark")
    /\ UNCHANGED <<table, sched, bg, user>>

DisableScheduler ==
    /\ At("disable")
    /\ enabled' = FALSE
    /\ Goto("mark")
    /\ UNCHANGED <<table, queues, current, kstack, bg, user>>

\* mark_running, for a user process and for a background command.
MarkRunning ==
    /\ Pc \in {"mark", "begin"}
    /\ procs' = IF InTable(fg[1].pid)
                THEN [procs EXCEPT ![fg[1].pid].state = "running"] ELSE procs
    /\ Goto(IF Pc = "mark" THEN "switch" ELSE "body0")
    /\ UNCHANGED <<nextPid, shellPid, sched, bg, user>>

MarkCurrent ==
    /\ Pc \in {"switch", "body0"}
    /\ SetCurrent(fg[1].pid)
    /\ Goto(IF Pc = "switch" THEN "get" ELSE "body")
    /\ UNCHANGED <<table, queues, enabled, bg, user>>

\* The loop of run_user_process_with_reap: enter ring 3, or fail.
EnterUser ==
    /\ At("get")
    /\ fg' = IF InTable(fg[1].pid) THEN [fg EXCEPT ![1].pc = "user"] ELSE Tail(fg)
    /\ UNCHANGED <<table, sched, bg, user>>

\* sys_execve replaces the image of the current process.
SysExecve ==
    /\ At("user") /\ InTable(current)
    /\ procs' = [procs EXCEPT ![current].exited = FALSE,
                              ![current].state = "running",
                              ![current].caps = @ \cap Default[procs[current].uid]]
    /\ Goto("get")
    /\ UNCHANGED <<nextPid, shellPid, sched, bg, user>>

\* sys_exit: mark_exit on the current process, then back to the kernel.
SysExit ==
    /\ At("user") /\ current # 0
    /\ procs' = IF InTable(current)
                THEN [procs EXCEPT ![current].state = "zombie",
                                   ![current].exited = TRUE] ELSE procs
    /\ Dequeue(current)
    /\ Goto("restore")
    /\ UNCHANGED <<nextPid, shellPid, enabled, kstack, bg, user>>

BugRestoreOff ==
    /\ At("restore")
    /\ queues' = Unqueued(fg[1].pid)
    /\ SetCurrent(fg[1].sh)
    /\ Goto("reshell")
    /\ UNCHANGED <<table, enabled, bg, user>>

\* The scope after the loop: dequeue, set_current_pid(shell), enable.
RestoreScheduler ==
    /\ At("restore")
    /\ queues' = Unqueued(fg[1].pid)
    /\ current' = fg[1].sh
    /\ kstack' = IF current = fg[1].sh THEN kstack ELSE Activated(fg[1].sh)
    /\ enabled' = TRUE
    /\ Goto("reshell")
    /\ UNCHANGED <<table, bg, user>>

ShellRunning ==
    /\ At("reshell")
    /\ procs' = IF InTable(fg[1].sh)
                THEN [procs EXCEPT ![fg[1].sh].state = "running"] ELSE procs
    /\ Goto("teardown")
    /\ UNCHANGED <<nextPid, shellPid, sched, bg, user>>

\* teardown_process unmaps the image; the process is then removed.
Teardown ==
    /\ At("teardown")
    /\ Goto("reap")
    /\ UNCHANGED <<table, sched, bg, user>>

Reap ==
    /\ At("reap")
    /\ procs' = Removed(fg[1].pid)
    /\ Return
    /\ UNCHANGED <<nextPid, shellPid, sched, bg, user>>

\* kill_process: the process's task, the process, the queues.
Kill ==
    /\ At("kill")
    /\ Goto(IF InTable(fg[1].pid) /\ procs[fg[1].pid].task # 0 THEN "untask" ELSE "slay")
    /\ UNCHANGED <<table, sched, bg, user>>

WithoutTask(id) == Retained(tasks, {i \in DOMAIN tasks : tasks[i].id # id})

KillTask ==
    /\ At("untask") /\ ~polling
    /\ tasks' = WithoutTask(IF InTable(fg[1].pid) THEN procs[fg[1].pid].task ELSE 0)
    /\ Goto("slay")
    /\ UNCHANGED <<table, sched, nextTask, polling, user>>

Slay ==
    /\ At("slay")
    /\ procs' = IF InTable(fg[1].pid)
                THEN [procs EXCEPT ![fg[1].pid].state = "zombie",
                                   ![fg[1].pid].exited = TRUE] ELSE procs
    /\ Goto(IF InTable(fg[1].pid) THEN "killed" ELSE "notask")
    /\ UNCHANGED <<nextPid, shellPid, sched, bg, user>>

KillDequeue ==
    /\ At("killed")
    /\ Dequeue(fg[1].pid)
    /\ Return
    /\ UNCHANGED <<table, enabled, kstack, bg, user>>

\* cmd_kill, when there is no such process: a task of that number.
KillOnlyTask ==
    /\ At("notask") /\ ~polling
    /\ tasks' = WithoutTask(fg[1].pid)
    /\ Return
    /\ UNCHANGED <<table, sched, nextTask, polling, user>>

\* The tasks command: task::snapshot takes the lock.
ListTasks ==
    /\ At("tasks") /\ ~polling
    /\ Return
    /\ UNCHANGED <<table, sched, bg, user>>

\* The wait command looks at the table once per timer tick.
WaitOver ==
    /\ At("wait")
    /\ InTable(fg[1].pid) => procs[fg[1].pid].state = "zombie"
    /\ Return
    /\ UNCHANGED <<table, sched, bg, user>>

\* drop_capabilities: the current pid, then its entry.
DropCurrent ==
    /\ At("dropper")
    /\ fg' = IF current = 0 THEN Tail(fg)
             ELSE [fg EXCEPT ![1].pc = "drop", ![1].pid = current]
    /\ UNCHANGED <<table, sched, bg, user>>

Drop ==
    /\ At("drop")
    /\ \E c \in Caps :
         procs' = IF InTable(fg[1].pid)
                  THEN [procs EXCEPT ![fg[1].pid].caps = @ \ {c}] ELSE procs
    /\ Return
    /\ UNCHANGED <<nextPid, shellPid, sched, bg, user>>

\* The spawn and nice commands, and exec on a file that is no ELF image.
SpawnFrames(prio, body) ==
    <<Ensure, [Frame("spawn") EXCEPT !.n = prio, !.cmd = body]>>

GuiActive == \E i \in DOMAIN fg : fg[i].pc \in {"gui", "events"}

\* The frames execute_command runs for a command line.
FramesOf(c) ==
    CASE c = "spawn" -> {SpawnFrames(Batch, b) : b \in Bodies}
      [] c = "script" -> {SpawnFrames(Normal, b) : b \in Bodies}
      [] c = "nice" -> {SpawnFrames(i, b) : i \in Prios, b \in Bodies}
      [] c = "exec" -> {<<Ensure, Frame("exec")>>}
      [] c = "kill" -> {<<[Frame("kill") EXCEPT !.pid = p]>> : p \in 1..nextPid - 1}
      [] c = "wait" -> {<<[Frame("wait") EXCEPT !.pid = p]>> : p \in 1..nextPid - 1}
      [] c = "tasks" -> {<<Frame("tasks")>>}
      [] c = "drop" -> {<<Frame("dropper")>>}
      [] c = "su" -> {<<[Frame("su") EXCEPT !.n = u]>> : u \in Users}
      [] c = "logout" -> {<<[Frame("su") EXCEPT !.n = 0]>>}
      [] c = "startx" /\ ~GuiActive -> {<<Frame("gui")>>}
      [] OTHER -> {<<>>}

\* Bound: a command is typed only while the pids up to MaxPid are enough for it,
\* for the commands in the background (a shell and a program each) and for the
\* shell of the next session.
PidsLeft == nextPid + 2 * Len(tasks) + 3 <= MaxPid

\* The su and logout commands change the session only; the shell loop does the
\* rest.
SwitchUser ==
    /\ At("su")
    /\ user' = fg[1].n
    /\ Return
    /\ UNCHANGED <<table, sched, bg>>

-----------------------------------------------------------------------------
(* The shell loop, background tasks, login and logout. *)

ShellLoop ==
    /\ At("loop")
    /\ IF user = 0 THEN Goto("reset") ELSE Call(<<Ensure>>, "ready")
    /\ UNCHANGED <<table, sched, bg, user>>

\* Command c is typed: execute_command, which goes on at pc.
Execute(c, pc) ==
    /\ PidsLeft \/ c \in {"kill", "wait", "tasks", "drop", "startx"}
    /\ \E frames \in FramesOf(c) : Call(frames, pc)
    /\ UNCHANGED <<table, sched, bg, user>>

\* A line of input at the prompt.
Command(c) == At("ready") /\ Execute(c, "loop")

\* One round of start_gui's loop polls the background tasks, ...
GuiTick ==
    /\ At("gui")
    /\ polling' = (tasks # <<>>)
    /\ IF tasks = <<>> THEN Goto("events")
       ELSE Call(<<[Frame("tick") EXCEPT !.n = Len(tasks)]>>, "events")
    /\ UNCHANGED <<table, sched, tasks, nextTask, user>>

\* ... leaves once the session is over or on Esc, ...
GuiLeave ==
    /\ At("events")
    /\ Return
    /\ UNCHANGED <<table, sched, bg, user>>

\* ... and otherwise goes round, ...
GuiAgain ==
    /\ At("events") /\ user # 0
    /\ Goto("gui")
    /\ UNCHANGED <<table, sched, bg, user>>

\* ... having run a line typed in its terminal, or not.
GuiCommand(c) == At("events") /\ user # 0 /\ Execute(c, "gui")

BugPollLost ==
    /\ At("tick") /\ fg[1].n > 0 /\ tasks # <<>>
    /\ tasks' = Tail(tasks)
    /\ fg' = [fg EXCEPT ![1].n = @ - 1]
    /\ UNCHANGED <<table, sched, nextTask, polling, user>>

\* The first poll of a task yields; the second runs its command.
PollTask ==
    /\ At("tick") /\ fg[1].n > 0 /\ tasks # <<>>
    /\ LET t == Head(tasks)
           rest == [fg EXCEPT ![1].n = @ - 1]
       IN  \/ /\ ~t.yielded
              /\ tasks' = Append(Tail(tasks), [t EXCEPT !.yielded = TRUE])
              /\ fg' = rest
           \/ /\ t.yielded
              /\ tasks' = Tail(tasks)
              /\ fg' = <<[Frame("begin") EXCEPT !.pid = t.pid, !.cmd = t.cmd]>> \o rest
    /\ UNCHANGED <<table, sched, nextTask, polling, user>>

PollDone ==
    /\ At("tick") /\ (fg[1].n = 0 \/ tasks = <<>>)
    /\ polling' = FALSE
    /\ Return
    /\ UNCHANGED <<table, sched, tasks, nextTask, user>>

TaskBody ==
    /\ At("body")
    /\ \E frames \in FramesOf(fg[1].cmd) : Call(frames, "exit")
    /\ UNCHANGED <<table, sched, bg, user>>

\* mark_exit of a background command, in its two scopes.
TaskExit ==
    /\ At("exit")
    /\ procs' = IF InTable(fg[1].pid)
                THEN [procs EXCEPT ![fg[1].pid].state = "zombie",
                                   ![fg[1].pid].exited = TRUE] ELSE procs
    /\ Goto("exited")
    /\ UNCHANGED <<nextPid, shellPid, sched, bg, user>>

TaskDequeue ==
    /\ At("exited")
    /\ Dequeue(fg[1].pid)
    /\ Return
    /\ UNCHANGED <<table, enabled, kstack, bg, user>>

\* After logout, main.rs: reset_shell_process, in its two scopes (the shell has
\* no task), then the next login.
ResetShell ==
    /\ At("reset")
    /\ procs' = Removed(shellPid)
    /\ shellPid' = 0
    /\ fg' = IF shellPid = 0 THEN [fg EXCEPT ![1].pc = "login"]
             ELSE [fg EXCEPT ![1].pc = "forget", ![1].pid = shellPid]
    /\ UNCHANGED <<nextPid, sched, bg, user>>

ResetDequeue ==
    /\ At("forget")
    /\ Dequeue(fg[1].pid)
    /\ Goto("login")
    /\ UNCHANGED <<table, enabled, kstack, bg, user>>

Login ==
    /\ At("login")
    /\ user' \in Users
    /\ Goto("loop")
    /\ UNCHANGED <<table, sched, bg>>

\* After boot: its self-tests used pid 1 for a shell, which the first login's
\* reset_shell_process removed.
Init ==
    /\ procs = [p \in {} |-> 0] /\ nextPid = 2 /\ shellPid = 0
    /\ queues = [i \in Prios |-> <<>>]
    /\ current = 0 /\ enabled = TRUE /\ kstack = 0
    /\ tasks = <<>> /\ nextTask = 1 /\ polling = FALSE
    /\ user = 0
    /\ fg = <<Frame("login")>>

Foreground ==
    \/ EnsureShell \/ MakeShell \/ ShellCurrent
    \/ Spawn \/ SpawnEnqueue \/ SpawnTask \/ AttachTask
    \/ Exec \/ ExecEnqueue \/ DisableScheduler \/ MarkRunning \/ MarkCurrent
    \/ EnterUser \/ SysExit \/ RestoreScheduler \/ ShellRunning
    \/ Teardown \/ Reap
    \/ Kill \/ KillTask \/ Slay \/ KillDequeue \/ KillOnlyTask
    \/ ListTasks \/ WaitOver \/ DropCurrent \/ Drop \/ SwitchUser
    \/ ShellLoop \/ PollTask \/ PollDone \/ TaskBody \/ TaskExit \/ TaskDequeue
    \/ ResetShell \/ ResetDequeue \/ Login
    \/ GuiTick \/ GuiLeave \/ GuiAgain

Next == Foreground \/ SysExecve \/ Tick \/ \E c \in Commands : Command(c) \/ GuiCommand(c)

Spec == Init /\ [][Next]_vars

\* The kernel thread goes on; a user program that keeps running exits in the
\* end.
Fairness == WF_vars(Foreground) /\ SF_vars(SysExit)

FairSpec == Spec /\ Fairness

-----------------------------------------------------------------------------
(* Properties. *)

Pcs == {"ensure", "mkshell", "setcur", "spawn", "enqueue", "task", "attach",
        "exec", "load", "disable", "mark", "switch", "get", "user", "restore",
        "reshell", "teardown", "reap", "kill", "untask", "slay", "killed",
        "notask", "begin", "body0", "body", "exit", "exited", "tick", "tasks",
        "wait", "dropper", "drop", "su", "loop", "ready", "reset", "forget",
        "login", "gui", "events"}

Frames == [pc : Pcs, pid : Nat, sh : Nat, n : Nat, cmd : Bodies \cup {"none"}]

\* The pids handed out so far.
Issued == 1..nextPid - 1

\* The types of the variables; no pid is used that was not handed out.
TypeOK ==
    /\ nextPid \in Nat \ {0, 1}
    /\ DOMAIN procs \subseteq Issued /\ \A p \in DOMAIN procs : procs[p] \in Processes
    /\ shellPid \in Issued \cup {0} /\ current \in Issued \cup {0}
    /\ kstack \in Issued \cup {0}
    /\ queues \in [Prios -> Seq(Issued)] /\ enabled \in BOOLEAN
    /\ tasks \in Seq([id : Nat, pid : Issued, cmd : Bodies, yielded : BOOLEAN])
    /\ nextTask \in Nat \ {0} /\ polling \in BOOLEAN
    /\ user \in Users \cup {0}
    /\ fg \in Seq(Frames) /\ \A i \in DOMAIN fg : fg[i].pid \in Issued \cup {0}

\* No process waits twice: across all the run queues a pid has one place at
\* most, whatever ticks and spawns put back (enqueue only looks at one queue).
QueuedOnce ==
    \A i, j \in Prios : \A a \in DOMAIN queues[i], b \in DOMAIN queues[j] :
        queues[i][a] = queues[j][b] => i = j /\ a = b

\* What run_user_process asks of its caller: while a program runs in ring 3 it
\* is the scheduler's current process, its kernel stack is the active one, and
\* the timer cannot change either.  Nor is a stack freed, by the removal of its
\* process, while the TSS still points into it.
UserOnOwnStack ==
    /\ At("user") => /\ current = fg[1].pid /\ kstack = fg[1].pid
                     /\ ~enabled
                     /\ procs[fg[1].pid].state = "running"
    /\ kstack # 0 => InTable(kstack)

\* run_user_process_with_reap ends as it began: the scheduler is off only while
\* it has it off, so that no return and no error leaves the system without time
\* slices, and the process it removes is the one whose program called exit,
\* marked as such and not touched since.
RunReturnsCleanly ==
    /\ ~enabled => Pc \in {"mark", "switch", "get", "user", "restore"}
    /\ At("reap") => /\ InTable(fg[1].pid)
                     /\ procs[fg[1].pid].state = "zombie" /\ procs[fg[1].pid].exited

\* A capability a process has lost is never given back, neither to it nor,
\* through spawn or exec, to a child.
CapsOnlyShrink ==
    [][\A p \in DOMAIN procs' :
         LET q == procs'[p].parent IN
         IF p \in DOMAIN procs THEN procs'[p].caps \subseteq procs[p].caps
         ELSE q \in DOMAIN procs => procs'[p].caps \subseteq procs[q].caps]_vars

\* A command spawned into the background is run to its end as long as someone
\* polls the tasks, which start_gui's loop does.
CommandsFinish ==
    []<>At("gui") =>
    \A p \in Pids :
        (p \in DOMAIN procs /\ procs[p].kind = "command")
            ~> (p \in DOMAIN procs => procs[p].exited)

-----------------------------------------------------------------------------
(* What comments and messages of the code say, and the code does not do. *)

\* "Killed process N.": a background command that was killed or has exited stays
\* a zombie.
KilledStaysDead ==
    [][\A p \in DOMAIN procs \cap DOMAIN procs' :
         procs[p].kind = "command" /\ procs[p].state = "zombie" =>
             procs'[p].state = "zombie"]_vars

\* "Return a shell-friendly task list snapshot.": no one waits for the lock of
\* the task list while holding it.
TaskLockIsFree == polling => Pc \notin {"task", "untask", "notask", "tasks"}
============================================================================
