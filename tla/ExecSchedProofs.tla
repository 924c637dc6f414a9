-------------------------- MODULE ExecSchedProofs --------------------------
(***************************************************************************)
(* Proofs about ExecSched: for any table size, priorities, time slices,    *)
(* users, commands and number of pids, no process waits in the run queues  *)
(* twice, a program runs on its own kernel stack, the scheduler is on      *)
(* again after it, and capabilities are never given back.                  *)
(***************************************************************************)
EXTENDS ExecSchedSteps, FiniteSetTheorems

-----------------------------------------------------------------------------
(* retain. *)

\* Every place below the number of places kept has one of them: the rank of a
\* place in a finite set of places is a bijection.
LEMMA Ranks ==
    ASSUME NEW n \in Nat, NEW keep \in SUBSET (1..n)
    PROVE  /\ IsFiniteSet(keep) /\ Cardinality(keep) \in Nat
           /\ \A k \in 1..Cardinality(keep) : \E i \in keep :
                 Cardinality({j \in keep : j <= i}) = k
<1> DEFINE Upto(i) == {j \in keep : j <= i}
           card == Cardinality(keep)
           rank == [i \in keep |-> Cardinality(Upto(i))]
<1>1. IsFiniteSet(keep) /\ card \in Nat
  <2>1. IsFiniteSet(1..n)
    <3>1. 1 \in Int /\ n \in Int OBVIOUS
    <3> QED BY <3>1, FS_Interval
  <2>2. IsFiniteSet(keep) BY <2>1, FS_Subset, Zenon
  <2> QED BY <2>2, FS_CardinalityType
<1>2. ASSUME NEW i \in keep
      PROVE  IsFiniteSet(Upto(i)) /\ Cardinality(Upto(i)) \in 1..card
  <2>1. Upto(i) \in SUBSET keep OBVIOUS
  <2>2. IsFiniteSet(Upto(i)) /\ Cardinality(Upto(i)) <= card /\ Cardinality(Upto(i)) \in Nat
    BY <1>1, <2>1, FS_Subset, FS_CardinalityType
  <2>3. i \in Upto(i) OBVIOUS
  <2>4. Cardinality(Upto(i)) # 0 BY <2>2, <2>3, FS_EmptySet
  <2> QED BY <2>2, <2>4, <1>1
<1>3. ASSUME NEW i \in keep, NEW j \in keep, i < j
      PROVE  Cardinality(Upto(i)) # Cardinality(Upto(j))
  <2>0. i \in Nat /\ j \in Nat /\ \A x \in keep : x \in Nat OBVIOUS
  <2>a. \A x \in keep : x <= i => x <= j BY <1>3, <2>0
  <2>b. j <= j /\ ~(j <= i) BY <1>3, <2>0
  <2>1. Upto(i) \in SUBSET Upto(j) /\ j \in Upto(j) /\ j \notin Upto(i)
    BY <2>a, <2>b, Zenon
  <2>2. Upto(i) # Upto(j) BY <2>1
  <2> QED BY <2>1, <2>2, <1>2, FS_Subset
<1>4. rank \in Injection(keep, 1..card)
  <2>1. rank \in [keep -> 1..card] BY <1>2
  <2>2. ASSUME NEW i \in keep, NEW j \in keep, rank[i] = rank[j] PROVE i = j
    <3>1. i \in Nat /\ j \in Nat OBVIOUS
    <3>2. ~(i < j) BY <1>3, <2>2
    <3>3. ~(j < i) BY <1>3, <2>2
    <3> QED BY <3>1, <3>2, <3>3
  <2> QED BY <2>1, <2>2, Zenon DEF Injection, IsInjective
<1>5. IsFiniteSet(1..card) /\ Cardinality(1..card) = card
  BY <1>1, FS_Interval
<1>6. rank \in Surjection(keep, 1..card)
  BY <1>4, <1>5, FS_Injection
<1>7. \A k \in 1..card : \E i \in keep : rank[i] = k
  BY <1>6, Zenon DEF Surjection
<1> QED BY <1>1, <1>7

\* What retain leaves: elements of the old sequence at places that were kept,
\* each place at most once.
LEMMA RetainedFacts ==
    ASSUME NEW S, NEW q \in Seq(S), NEW keep \in SUBSET (DOMAIN q)
    PROVE  /\ Retained(q, keep) \in Seq(S)
           /\ \A k \in DOMAIN Retained(q, keep) :
                 \E i \in keep : Retained(q, keep)[k] = q[i]
           /\ (\A i, j \in DOMAIN q : q[i] = q[j] => i = j)
                 => \A k, l \in DOMAIN Retained(q, keep) :
                       Retained(q, keep)[k] = Retained(q, keep)[l] => k = l
<1> DEFINE Upto(i) == {j \in keep : j <= i}
           card == Cardinality(keep)
           place(k) == CHOOSE i \in keep : Cardinality(Upto(i)) = k
<1>1. Len(q) \in Nat /\ DOMAIN q = 1..Len(q) /\ \A i \in DOMAIN q : q[i] \in S
  BY Lens
<1>2. card \in Nat /\ \A k \in 1..card : \E i \in keep : Cardinality(Upto(i)) = k
  BY <1>1, Ranks, Zenon
<1>3. \A k \in 1..card : place(k) \in keep /\ Cardinality(Upto(place(k))) = k
  BY <1>2, Zenon
<1>4. Retained(q, keep) = [k \in 1..card |-> q[place(k)]]
  BY DEF Retained
<1> HIDE DEF place, card, Upto
<1>5. Retained(q, keep) \in Seq(S)
  <2>1. \A k \in 1..card : q[place(k)] \in S BY <1>1, <1>3
  <2> QED BY <1>2, <1>4, <2>1
<1>6. DOMAIN Retained(q, keep) = 1..card /\ \A k \in 1..card : Retained(q, keep)[k] = q[place(k)]
  BY <1>4
<1>7. \A k, l \in 1..card : place(k) = place(l) => k = l
  BY <1>3
<1>8. \A k \in 1..card : place(k) \in DOMAIN q
  BY <1>3
<1>9. ASSUME \A i, j \in DOMAIN q : q[i] = q[j] => i = j,
             NEW k \in 1..card, NEW l \in 1..card, q[place(k)] = q[place(l)]
      PROVE  k = l
  BY <1>7, <1>8, <1>9
<1> QED BY <1>3, <1>5, <1>6, <1>9

\* retain on the task list leaves a list of tasks.
LEMMA RetainedTasks ==
    ASSUME BgOK, NEW id PROVE WithoutTask(id) \in Seq(TaskRecords)
<1> DEFINE keep == {i \in DOMAIN tasks : tasks[i].id # id}
<1>1. tasks \in Seq(TaskRecords) BY DEF BgOK, TaskRecords
<1>2. keep \in SUBSET (DOMAIN tasks) OBVIOUS
<1> HIDE DEF keep
<1>3. Retained(tasks, keep) \in Seq(TaskRecords) BY <1>1, <1>2, RetainedFacts
<1> QED BY <1>3 DEF WithoutTask, keep

\* kill takes the task off the list and preserves the invariant.
LEMMA KillSteps ==
    ASSUME IInv, KillTask \/ KillOnlyTask
    PROVE  IInv'
<1>1. /\ Stack(fg) /\ TableOK /\ SchedOK /\ BgOK /\ user \in Users \cup {0}
      /\ PidsIn(fg, Issued \cup {0}) /\ 0 \in Issued \cup {0}
  BY TypeParts DEF IInv
<1>2. UNCHANGED <<table, sched, user>> /\ Pc \notin OffPcs
  BY DEF KillTask, KillOnlyTask, At, OffPcs
<1>3. Issued' = Issued BY <1>2 DEF Issued, table
<1>4. fg[1] \in Frames /\ FrameOK(fg[1]) /\ 1 \in 1..Len(fg)
  BY <1>1, StackShape DEF Stack
<1>5. tasks \in Seq(TaskRecords) BY <1>1 DEF BgOK, TaskRecords
<1>6. SUFFICES /\ tasks' \in Seq(TaskRecords) /\ nextTask' \in Nat \ {0} /\ polling' \in BOOLEAN
               /\ Stack(fg') /\ PidsIn(fg', Issued \cup {0}) /\ Plain(fg')
  <2>1. BgOK' BY <1>3, <1>6 DEF BgOK, TaskRecords
  <2> QED BY <1>1, <1>2, <1>6, <2>1, FgStep
<1>7. CASE KillTask
  <2>1. Pc = "untask" /\ Goto("slay") /\ UNCHANGED <<nextTask, polling>>
        /\ \E id : tasks' = WithoutTask(id)
    BY <1>7 DEF KillTask, At
  <2>2. tasks' \in Seq(TaskRecords) BY <1>1, <2>1, RetainedTasks
  <2>3. /\ "slay" \in Pcs \ BusyPcs /\ "slay" \notin {"spawn", "su"} /\ "slay" # "task"
        /\ ("slay" \in Main <=> Pc \in Main) /\ Pc \notin EnsurePcs
    BY <2>1 DEF Pcs, BusyPcs, EnsurePcs, OffPcs, Main
  <2>4. Stack(fg') /\ PidsIn(fg', Issued \cup {0}) /\ Plain(fg') BY <2>1, <2>3, WentOn
  <2> QED BY <1>1, <2>1, <2>2, <2>4 DEF BgOK
<1>8. CASE KillOnlyTask
  <2>1. Pc = "notask" /\ Return /\ UNCHANGED <<nextTask, polling>>
        /\ \E id : tasks' = WithoutTask(id)
    BY <1>8 DEF KillOnlyTask, At
  <2>2. tasks' \in Seq(TaskRecords) BY <1>1, <2>1, RetainedTasks
  <2>3. Pc \notin Main \cup EnsurePcs BY <2>1 DEF Main, EnsurePcs
  <2>4. Stack(fg') /\ PidsIn(fg', Issued \cup {0}) /\ Plain(fg') BY <2>1, <2>3, Returned
  <2> QED BY <1>1, <2>1, <2>2, <2>4 DEF BgOK
<1> QED BY <1>7, <1>8

\* dequeue
LEMMA UnqueuedFacts ==
    ASSUME queues \in [Prios -> Seq(Issued)], Once(queues), Placed(queues), NEW p
    PROVE  /\ Unqueued(p) \in [Prios -> Seq(Issued)]
           /\ Once(Unqueued(p)) /\ Placed(Unqueued(p))
<1> DEFINE keep(i) == {a \in DOMAIN queues[i] : queues[i][a] # p}
           rs == Unqueued(p)
<1>1. ASSUME NEW i \in Prios
      PROVE  /\ rs[i] \in Seq(Issued)
             /\ \A a \in DOMAIN rs[i] : \E b \in DOMAIN queues[i] : rs[i][a] = queues[i][b]
             /\ \A a, b \in DOMAIN rs[i] : rs[i][a] = rs[i][b] => a = b
  <2>1. rs[i] = Retained(queues[i], keep(i)) BY DEF Unqueued
  <2>2. queues[i] \in Seq(Issued) /\ keep(i) \in SUBSET (DOMAIN queues[i]) OBVIOUS
  <2>3. \A a, b \in DOMAIN queues[i] : queues[i][a] = queues[i][b] => a = b BY DEF Once
  <2> HIDE DEF keep, rs
  <2> QED BY <2>1, <2>2, <2>3, RetainedFacts
<1>2. rs \in [Prios -> Seq(Issued)] BY <1>1 DEF Unqueued
<1> HIDE DEF rs
<1>3. \A i \in Prios : \A a \in DOMAIN rs[i] : \E b \in DOMAIN queues[i] : rs[i][a] = queues[i][b]
  BY <1>1
<1>4. \A i \in Prios : \A a, b \in DOMAIN rs[i] : rs[i][a] = rs[i][b] => a = b BY <1>1
<1>5. Within(rs, queues) BY <1>3, <1>4 DEF Within
<1>6. Once(rs) /\ Placed(rs) BY <1>5, Shrunk
<1> QED BY <1>2, <1>6 DEF rs

\* The steps that dequeue a process preserve the invariant.
LEMMA DequeueSteps ==
    ASSUME IInv, KillDequeue \/ TaskDequeue \/ ResetDequeue
    PROVE  IInv'
<1>1. /\ Stack(fg) /\ TableOK /\ SchedOK /\ BgOK /\ user \in Users \cup {0}
      /\ PidsIn(fg, Issued \cup {0}) /\ Kinds /\ QueueOK
  BY TypeParts DEF IInv
<1>2. /\ UNCHANGED <<table, enabled, kstack, bg, user>> /\ Pc \in {"killed", "exited", "forget"}
      /\ Dequeue(fg[1].pid)
  BY DEF KillDequeue, TaskDequeue, ResetDequeue, At
<1>3. KeptTable /\ UNCHANGED <<nextPid, shellPid, bg, user>>
  BY <1>1, <1>2, SameTable DEF table
<1>4. current' \in Issued \cup {0} /\ kstack' \in Issued \cup {0} /\ enabled' \in BOOLEAN
      /\ (kstack' # 0 => IsElf(kstack')) /\ queues \in [Prios -> Seq(Issued)] /\ enabled'
  BY <1>1, <1>2 DEF SchedOK, Kinds, IInv, OffInRun, OffPcs, Dequeue
<1>5. Once(queues) /\ Placed(queues) BY <1>1, QueueParts
<1>6. queues' \in [Prios -> Seq(Issued)] /\ Once(queues') /\ Placed(queues')
  BY <1>2, <1>4, <1>5, UnqueuedFacts DEF Dequeue
<1>7. SUFFICES Stack(fg') /\ PidsIn(fg', Issued \cup {0}) /\ Plain(fg')
  <2>1. OffInRun' /\ ExecOK' /\ SpawnOK' BY <1>4, <1>7, PlainStep
  <2> QED BY <1>3, <1>4, <1>6, <1>7, <2>1, SchedStep
<1>8. CASE KillDequeue \/ TaskDequeue
  <2>1. Return /\ Pc \notin Main \cup EnsurePcs
    BY <1>8 DEF KillDequeue, TaskDequeue, At, Main, EnsurePcs
  <2> QED BY <2>1, Returned
<1>9. CASE ResetDequeue
  <2>1. Pc = "forget" /\ Goto("login") BY <1>9 DEF ResetDequeue, At
  <2>2. /\ "login" \in Pcs \ BusyPcs /\ "login" \notin {"spawn", "su"} /\ "login" # "task"
        /\ ("login" \in Main <=> Pc \in Main) /\ Pc \notin EnsurePcs
    BY <2>1 DEF Pcs, BusyPcs, EnsurePcs, OffPcs, Main
  <2> QED BY <2>1, <2>2, WentOn
<1> QED BY <1>8, <1>9

\* exit and the return to the shell's scheduling preserve the invariant.
LEMMA ExitSteps ==
    ASSUME IInv, SysExit \/ RestoreScheduler
    PROVE  IInv'
<1>1. /\ Stack(fg) /\ TableOK /\ SchedOK /\ BgOK /\ user \in Users \cup {0}
      /\ PidsIn(fg, Issued \cup {0}) /\ 0 \in Issued \cup {0} /\ Kinds /\ QueueOK
  BY TypeParts DEF IInv
<1> DEFINE p == fg[1].pid
           sh == fg[1].sh
<1>2. Pc \in {"user", "restore"} /\ UNCHANGED <<nextPid, shellPid, bg, user>>
  BY DEF SysExit, RestoreScheduler, At, table
<1>3. Pc \notin EnsurePcs \cup Main BY <1>2 DEF EnsurePcs, Main
<1>4. IsElf(p) /\ IsShell(sh) /\ p # sh
  BY <1>1, <1>2, Zenon DEF IInv, ExecOK, Loaded, ShellThere, Kinds, IsElf, IsShell
<1>5. queues \in [Prios -> Seq(Issued)] /\ Once(queues) /\ Placed(queues)
  BY <1>1, QueueParts DEF SchedOK
<1>6. CASE SysExit
  <2>1. Pc = "user" /\ Goto("restore") /\ Dequeue(current) /\ UNCHANGED <<enabled, kstack>>
        /\ current = p
    BY <1>6 DEF SysExit, At, IInv, ExecOK
  <2>2. /\ Stack(fg') /\ PidsIn(fg', Issued \cup {0})
        /\ Pc' = "restore" /\ fg'[1].pid = p /\ fg'[1].sh = sh
    BY <1>3, <2>1, InExec
  <2>3. procs' = [procs EXCEPT ![p].state = "zombie", ![p].exited = TRUE] /\ InTable(p)
    BY <1>4, <1>6, <2>1 DEF SysExit, IsElf
  <2>4. Touches(p) BY <1>1, <2>3, StateTouches, Zenon
  <2>5. KeptTable BY <1>1, <2>4, TouchedKept
  <2>6. procs'[p].state = "zombie" /\ procs'[p].exited
    BY <1>1, <2>3, ZenonT(60) DEF TableOK, InTable, Processes
  <2>7. queues' \in [Prios -> Seq(Issued)] /\ Once(queues') /\ Placed(queues')
    BY <1>5, <2>1, UnqueuedFacts DEF Dequeue
  <2>8. current' = 0 BY <2>1 DEF Dequeue
  <2>9. IsElf(p)' /\ IsShell(sh)' BY <1>4, <2>2, <2>5 DEF KeptTable, IsElf, IsShell, InTable
  <2>10. ExecOK' BY <2>2, <2>6, <2>8, <2>9, Zenon DEF ExecOK, EnsurePcs
  <2>11. OffInRun' /\ SpawnOK' BY <2>1, <2>2 DEF IInv, OffInRun, SpawnOK, OffPcs
  <2>12. current' \in Issued \cup {0} /\ kstack' \in Issued \cup {0} /\ enabled' \in BOOLEAN
         /\ (kstack' # 0 => IsElf(kstack'))
    BY <1>1, <2>1, <2>8 DEF SchedOK, Kinds
  <2> QED BY <1>2, <2>2, <2>5, <2>7, <2>10, <2>11, <2>12, SchedStep, Zenon
<1>7. CASE RestoreScheduler
  <2>1. Pc = "restore" /\ Goto("reshell") /\ queues' = Unqueued(p) /\ current' = sh
        /\ kstack' = (IF current = sh THEN kstack ELSE Activated(sh))
        /\ enabled' = TRUE /\ UNCHANGED table
    BY <1>7 DEF RestoreScheduler, At
  <2>2. /\ Stack(fg') /\ PidsIn(fg', Issued \cup {0})
        /\ Pc' = "reshell" /\ fg'[1].pid = p /\ fg'[1].sh = sh
    BY <1>3, <2>1, InExec
  <2>3. KeptTable /\ procs' = procs BY <1>1, <2>1, SameTable DEF table
  <2>4. current = 0 /\ procs[p].state = "zombie" /\ procs[p].exited BY <2>1, Zenon DEF IInv, ExecOK
  <2>5. sh \in Issued /\ sh # 0 BY <1>1, <1>4 DEF IsShell, InTable, TableOK, Issued
  <2>6. kstack' = 0 BY <1>1, <1>4, <2>1, <2>4, <2>5, ActivatedFacts
  <2>7. queues' \in [Prios -> Seq(Issued)] /\ Once(queues') /\ Placed(queues')
    BY <1>5, <2>1, UnqueuedFacts
  <2>8. ExecOK' BY <1>4, <2>2, <2>3, <2>4, <2>6 DEF ExecOK, EnsurePcs, IsElf, IsShell, InTable
  <2>9. OffInRun' /\ SpawnOK' BY <2>1, <2>2 DEF OffInRun, SpawnOK, OffPcs
  <2>10. current' \in Issued \cup {0} /\ kstack' \in Issued \cup {0} /\ enabled' \in BOOLEAN
         /\ (kstack' # 0 => IsElf(kstack'))
    BY <1>1, <2>1, <2>5, <2>6
  <2> QED BY <1>2, <2>2, <2>3, <2>7, <2>8, <2>9, <2>10, SchedStep
<1> QED BY <1>6, <1>7

-----------------------------------------------------------------------------
(* The invariant. *)

\* Every step preserves the invariant.
LEMMA NextOK == IInv /\ [Next]_vars => IInv'
<1> SUFFICES ASSUME IInv, [Next]_vars PROVE IInv' OBVIOUS
<1>1. CASE Foreground
  <2>1. CASE MarkRunning
    <3>1. Pc \in {"mark", "begin"} BY <2>1 DEF MarkRunning
    <3> QED BY <2>1, <3>1, EntrySteps, RunSteps
  <2>2. CASE ~MarkRunning
    BY <1>1, <2>2, StackSteps, TaskSteps, UserSteps, KillSteps, EntrySteps, EnsureSteps,
       RunSteps, AddSteps, RemoveSteps, EnqueueSteps, DequeueSteps, CurrentSteps,
       DisableSteps, ExitSteps, CommandSteps, Zenon DEF Foreground
  <2> QED BY <2>1, <2>2
<1>2. CASE SysExecve BY <1>2, RunSteps
<1>3. CASE Tick BY <1>3, TickSteps
<1>4. CASE \E c \in Commands : Command(c) \/ GuiCommand(c) BY <1>4, CommandSteps
<1>5. CASE UNCHANGED vars
  <2>1. UNCHANGED <<procs, nextPid, shellPid, queues, current, enabled, kstack, tasks,
                    nextTask, polling, user, fg>>
    BY <1>5 DEF vars, table, sched, bg
  <2>2. Stack(fg') BY <2>1 DEF IInv
  <2>3. TypeOK' BY <2>1 DEF IInv, TypeOK, Issued
  <2>4. Kinds' BY <2>1 DEF IInv, Kinds, IsElf, InTable
  <2>5. OffInRun' BY <2>1 DEF IInv, OffInRun, Pc
  <2>6. QueueOK' BY <2>1 DEF IInv, QueueOK, QueuedOnce, InTable
  <2>7. SpawnOK' BY <2>1 DEF IInv, SpawnOK, Pc, InTable
  <2>8. ExecOK' BY <2>1, ZenonT(60) DEF IInv, ExecOK, Pc, Full, ShellThere, Loaded, IsElf, IsShell, InTable
  <2> QED BY <2>2, <2>3, <2>4, <2>5, <2>6, <2>7, <2>8 DEF IInv
<1> QED BY <1>1, <1>2, <1>3, <1>4, <1>5 DEF Next

\* The inductive invariant holds of every behaviour of the process table, the
\* run queues, the timer interrupt and the kernel thread.
THEOREM Invariance == Spec => []IInv
BY InitOK, NextOK, PTL DEF Spec

\* Pids: what the table, the run queues, the tasks and the frames of the kernel
\* thread name was handed out by create_process, for any table and any number of
\* commands.
THEOREM TypesHold == Spec => []TypeOK
<1>1. IInv => TypeOK BY DEF IInv
<1> QED BY <1>1, Invariance, PTL

\* Across all the run queues a pid has one place at most, although enqueue looks
\* at one queue only: whatever the timer, spawn, nice and exec put back.
THEOREM QueuedOnceHolds == Spec => []QueuedOnce
<1>1. IInv => QueuedOnce BY DEF IInv, QueueOK
<1> QED BY <1>1, Invariance, PTL

\* A program in ring 3 is the current process, on its own kernel stack, with the
\* scheduler off; and the TSS never points into the stack of a removed process.
THEOREM UserOnOwnStackHolds == Spec => []UserOnOwnStack
<1>1. ASSUME IInv PROVE UserOnOwnStack
  <2>1. kstack # 0 => InTable(kstack) BY <1>1 DEF IInv, Kinds, IsElf
  <2>2. Pc = "user" => ~enabled BY <1>1 DEF IInv, OffInRun, OffPcs
  <2>3. Pc = "user" => /\ current = fg[1].pid /\ kstack = fg[1].pid
                       /\ procs[fg[1].pid].state = "running"
    BY <1>1 DEF IInv, ExecOK
  <2> QED BY <2>1, <2>2, <2>3 DEF UserOnOwnStack, At
<1> QED BY <1>1, Invariance, PTL

\* run_user_process_with_reap leaves the scheduler on, on every path, and
\* removes the process whose program called exit, still marked as it was then.
THEOREM RunReturnsCleanlyHolds == Spec => []RunReturnsCleanly
<1>1. ASSUME IInv PROVE RunReturnsCleanly
  <2>1. ~enabled => Pc \in {"mark", "switch", "get", "user", "restore"}
    BY <1>1 DEF IInv, OffInRun, OffPcs
  <2>2. Pc = "reap" => /\ InTable(fg[1].pid)
                       /\ procs[fg[1].pid].state = "zombie" /\ procs[fg[1].pid].exited
    BY <1>1 DEF IInv, ExecOK, IsElf
  <2> QED BY <2>1, <2>2 DEF RunReturnsCleanly, At
<1> QED BY <1>1, Invariance, PTL

\* What drop_capabilities or execve took away stays away: a process's
\* capabilities only shrink, and spawn_capabilities gives a child no more than its
\* parent has at that moment.
THEOREM CapsOnlyShrinkHolds == Spec => CapsOnlyShrink
<1>1. ASSUME IInv, [Next]_vars PROVE CapsStep
  <2>1. CASE MakeShell \/ Spawn \/ Exec BY <1>1, <2>1, NewCaps
  <2>2. CASE ~(MakeShell \/ Spawn \/ Exec)
    <3>1. CapsKept BY <1>1, <2>2, OldCaps
    <3> QED BY <3>1 DEF CapsKept, CapsStep
  <2> QED BY <2>1, <2>2
<1>2. IInv /\ [Next]_vars
         => [\A p \in DOMAIN procs' :
               LET q == procs'[p].parent IN
               IF p \in DOMAIN procs THEN procs'[p].caps \subseteq procs[p].caps
               ELSE q \in DOMAIN procs => procs'[p].caps \subseteq procs[q].caps]_vars
  BY <1>1 DEF CapsStep
<1> QED BY <1>2, Invariance, PTL DEF Spec, CapsOnlyShrink
=============================================================================
