---------------------------- MODULE Capabilities ----------------------------
(***************************************************************************)
(* The capability sets of processes (kernel/src/security/capabilities.rs), *)
(* the process that stands for the shell (exec/mod.rs) and the sessions    *)
(* that decide whose shell it is (main.rs, auth/session.rs).               *)
(*                                                                         *)
(* The shell makes sure of its process at the top of every turn of its     *)
(* loop (ShellTurn) and then reads keys: commands, jobs and timer ticks    *)
(* come in any order before the next turn, as when lines are typed ahead.  *)
(* While a foreground program runs the scheduler is off and only the       *)
(* program moves.  The machine is a record                                 *)
(*   table    the processes by pid,                                        *)
(*   next     the next pid,                                                *)
(*   shell    shell_pid, 0 for None,                                       *)
(*   current  the scheduler's current pid, 0 for None,                     *)
(*   ready    the pids in the run queues, whose order is left open.        *)
(***************************************************************************)
EXTENDS Integers, FiniteSets, Functions

CONSTANTS
  Caps,           \* the capability bits, "PKG_INSTALL" and "USER_ADMIN" among them
  UserDefault,    \* the ones of an ordinary user
  Uids,           \* user ids, 0 among them
  AdminUids,      \* the ones whose account has the admin role
  MaxProcesses,   \* the limit of the process table
  MaxPid          \* bound: no process is made beyond this pid

ASSUME CapsAssumption ==
  /\ 0 \in Uids /\ UserDefault \subseteq Caps
  /\ MaxProcesses \in Nat \ {0, 1}

VARIABLES
  users,          \* the uids that have an account
  capSession,        \* [uid, admin] of who is logged in, or NoSession
  machine,
  program,        \* the pid of the foreground program, 0 for none
  job,            \* the pid of the job whose command runs, 0 for none
  first,          \* first_interactive_cycle
  phase,          \* "boot", "login" (no shell runs) or "shell"
  ensured         \* nothing took the shell's place since ensure_shell_process (history)

capvars == <<users, capSession, machine, program, job, first, phase, ensured>>

NoOne == [uid |-> 0, admin |-> FALSE, open |-> FALSE]
LoginOf(uid) == [uid |-> uid, admin |-> uid \in AdminUids, open |-> TRUE]
RecoverySession == [uid |-> 0, admin |-> TRUE, open |-> TRUE]

-----------------------------------------------------------------------------
(* Capability sets                                                         *)

(* The session answers for its own user, then the accounts; a uid without  *)
(* an account is an ordinary one unless it is 0.                           *)
AdminRole(s, uid) ==
  IF s.open /\ s.uid = uid THEN s.admin
  ELSE IF uid \in users THEN uid \in AdminUids ELSE uid = 0

DefaultForUid(s, uid) == IF uid = 0 \/ AdminRole(s, uid) THEN Caps ELSE UserDefault

(* The parent's set, or the user's default without a parent, inside the    *)
(* default of the child's user.                                            *)
SpawnCapabilities(m, parent, s) ==
  DefaultForUid(s, s.uid) \cap (IF parent \in DOMAIN m.table THEN m.table[parent].caps
                           ELSE DefaultForUid(s, s.uid))

ExecCapabilities(current, uid) == current \cap DefaultForUid(capSession, uid)

DropCapabilities(m, caps) ==
  IF m.current \in DOMAIN m.table THEN [m EXCEPT !.table[m.current].caps = @ \ caps] ELSE m

\* current_or_session_capabilities
CurrentOrSession ==
  IF machine.current \in DOMAIN machine.table THEN machine.table[machine.current].caps
  ELSE DefaultForUid(capSession, capSession.uid)

SetProcessCapabilities(m, pid, caps) ==
  IF pid \in DOMAIN m.table THEN [m EXCEPT !.table[pid].caps = caps] ELSE m

-----------------------------------------------------------------------------
(* Processes                                                               *)

ProcessesFull(m) == Cardinality(DOMAIN m.table) >= MaxProcesses

Added(m, p) ==
  [m EXCEPT !.table = [q \in DOMAIN @ \cup {m.next} |-> IF q = m.next THEN p ELSE @[q]],
            !.next = @ + 1]
Removed(m, pid) == [m EXCEPT !.table = Restrict(@, DOMAIN @ \ {pid})]
Dequeue(m, pid) == [m EXCEPT !.current = IF @ = pid THEN 0 ELSE @, !.ready = @ \ {pid}]

ShellOf(s) ==
  [uid |-> s.uid, parent |-> 0, kind |-> "shell", live |-> TRUE,
   caps |-> DefaultForUid(s, s.uid)]

(* A shell of another user is left in the table.  When the table is full   *)
(* pid 1 stands for the shell, whether there is such a process or not.     *)
WithShell(m, s) ==
  IF ProcessesFull(m) THEN [m EXCEPT !.shell = 1, !.current = 1]
  ELSE [Added(m, ShellOf(s)) EXCEPT !.shell = m.next, !.current = m.next]

EnsureShellProcess(m, s) ==
  IF m.shell \in DOMAIN m.table /\ m.table[m.shell].uid = s.uid
  THEN [m EXCEPT !.current = m.shell]
  ELSE WithShell(m, s)

ResetShellProcess(m) ==
  IF m.shell = 0 THEN m ELSE [Dequeue(Removed(m, m.shell), m.shell) EXCEPT !.shell = 0]

ChildOf(m, parent, s, kind) ==
  [uid |-> s.uid, parent |-> parent, kind |-> kind, live |-> TRUE,
   caps |-> SpawnCapabilities(m, parent, s)]

MarkRunning(m, pid) ==
  IF pid \in DOMAIN m.table THEN [m EXCEPT !.table[pid].live = TRUE, !.current = pid]
  ELSE [m EXCEPT !.current = pid]
MarkExit(m, pid) ==
  IF pid \in DOMAIN m.table THEN Dequeue([m EXCEPT !.table[pid].live = FALSE], pid)
  ELSE Dequeue(m, pid)

(* timer_tick: a current process whose slice ran out goes back to its      *)
(* queue, and the one that select_next takes is current.                   *)
Waiting(m, expired) ==
  IF expired /\ m.current \in DOMAIN m.table THEN m.ready \cup {m.current} ELSE m.ready
TimerTick(m, expired, pid) == [m EXCEPT !.current = pid, !.ready = Waiting(m, expired) \ {pid}]

-----------------------------------------------------------------------------
(* run_transition_proof, which the boot runs with interrupts off: the      *)
(* shell gives up a capability, a child is made and removed, the shell     *)
(* gets its set back.                                                      *)

Narrowed(m, cap) == SetProcessCapabilities(m, m.shell, m.table[m.shell].caps \ {cap})
Spawned(m) == Added(m, ChildOf(m, m.shell, capSession, "program"))

TransitionProof(m, cap) ==
  LET child == Spawned(Narrowed(m, cap))
  IN  SetProcessCapabilities(Removed(child, m.next), m.shell, m.table[m.shell].caps)

-----------------------------------------------------------------------------
CapsInit ==
  /\ users = Uids
  /\ capSession = NoOne
  /\ machine = [table |-> <<>>, next |-> 1, shell |-> 0, current |-> 0, ready |-> {}]
  /\ program = 0 /\ job = 0
  /\ first = TRUE
  /\ phase = "boot" /\ ensured = FALSE

CapsBoot ==
  /\ phase = "boot"
  /\ machine' = TransitionProof(EnsureShellProcess(machine, NoOne), "PKG_INSTALL")
  /\ phase' = "login"
  /\ UNCHANGED <<users, capSession, program, job, first, ensured>>

AtLogin == phase = "login" /\ job = 0 /\ machine.next <= MaxPid

(* Mutant: the boot's shell process is kept.                               *)
BugCapsLogin(s) ==
  /\ AtLogin /\ s \in {LoginOf(u) : u \in users}
  /\ capSession' = s
  /\ machine' = EnsureShellProcess(machine, s) /\ ensured' = TRUE
  /\ first' = FALSE
  /\ phase' = "shell"
  /\ UNCHANGED <<users, program, job>>

(* A login starts a session; in the first turn of the main loop it drops   *)
(* the shell process of the boot.                                          *)
CapsLogin(s) ==
  /\ AtLogin /\ s \in {LoginOf(u) : u \in users}
  /\ capSession' = s
  /\ machine' = EnsureShellProcess(IF first THEN ResetShellProcess(machine) ELSE machine, s)
  /\ ensured' = TRUE
  /\ first' = FALSE
  /\ phase' = "shell"
  /\ UNCHANGED <<users, program, job>>

(* The recovery shell, never in the first turn.                            *)
EnterRecovery ==
  /\ AtLogin /\ ~first
  /\ capSession' = RecoverySession
  /\ machine' = EnsureShellProcess(machine, RecoverySession) /\ ensured' = TRUE
  /\ phase' = "shell"
  /\ UNCHANGED <<users, program, job, first>>

CapsPrompt == phase = "shell" /\ program = 0 /\ machine.next <= MaxPid

(* The top of the shell's loop, reached when no more keys are typed ahead. *)
ShellTurn ==
  /\ CapsPrompt /\ job = 0
  /\ machine' = EnsureShellProcess(machine, capSession) /\ ensured' = TRUE
  /\ UNCHANGED <<users, capSession, program, job, first, phase>>

(* The timer, while the scheduler is enabled.                              *)
CapsTick(expired, pid) ==
  /\ phase # "boot" /\ program = 0
  /\ pid \in Waiting(machine, expired)
  /\ machine' = TimerTick(machine, expired, pid)
  /\ ensured' = (ensured /\ pid = machine.current)
  /\ UNCHANGED <<users, capSession, program, job, first, phase>>

(* logout or shutdown of the shell: its process goes with it.              *)
CapsLogout ==
  /\ phase = "shell" /\ program = 0 /\ job = 0
  /\ capSession' = NoOne
  /\ machine' = ResetShellProcess(machine)
  /\ phase' = "login" /\ ensured' = FALSE
  /\ UNCHANGED <<users, program, job, first>>

(* Only the session changes: the process stays the old shell until the     *)
(* next turn of the loop.                                                  *)
CapsSu(uid) ==
  /\ CapsPrompt /\ uid \in users
  /\ capSession' = LoginOf(uid) /\ ensured' = FALSE
  /\ UNCHANGED <<users, machine, program, job, first, phase>>

CmdDrop(caps) ==
  /\ CapsPrompt \/ job # 0
  /\ machine' = DropCapabilities(machine, caps)
  /\ UNCHANGED <<users, capSession, program, job, first, phase, ensured>>

(* userdel: any account but root's, one's own too.                         *)
CapsUserdel(uid) ==
  /\ CapsPrompt /\ "USER_ADMIN" \in CurrentOrSession /\ uid \in users \ {0}
  /\ users' = users \ {uid}
  /\ UNCHANGED <<capSession, machine, program, job, first, phase, ensured>>

CmdSpawn ==
  /\ CapsPrompt
  /\ LET m == EnsureShellProcess(machine, capSession)
     IN  machine' = IF ProcessesFull(m) THEN m
                    ELSE [Added(m, ChildOf(m, m.shell, capSession, "job"))
                           EXCEPT !.ready = @ \cup {m.next}]
  /\ ensured' = TRUE
  /\ UNCHANGED <<users, capSession, program, job, first, phase>>

(* The task of a job is polled, at the prompt or at the login screen: it   *)
(* is the current process while its command runs, unless a tick comes.     *)
JobStarts(pid) ==
  /\ phase \in {"login", "shell"} /\ program = 0 /\ job = 0
  /\ pid \in DOMAIN machine.table
  /\ machine.table[pid].kind = "job" /\ machine.table[pid].live
  /\ machine' = MarkRunning(machine, pid) /\ ensured' = FALSE
  /\ job' = pid
  /\ UNCHANGED <<users, capSession, program, first, phase>>

(* Its process stays in the table.                                         *)
JobEnds ==
  /\ job # 0 /\ program = 0
  /\ machine' = MarkExit(machine, job)
  /\ job' = 0
  /\ UNCHANGED <<users, capSession, program, first, phase, ensured>>

(* kill takes any pid, the shell's own too; the process stays as a zombie. *)
CmdKill(pid) ==
  /\ CapsPrompt /\ pid \in DOMAIN machine.table
  /\ machine' = MarkExit(machine, pid)
  /\ UNCHANGED <<users, capSession, program, job, first, phase, ensured>>

(* The program is queued, but it is taken from the queues before the       *)
(* scheduler is enabled again.                                             *)
CapsExec ==
  /\ CapsPrompt
  /\ LET m == EnsureShellProcess(machine, capSession)
     IN  IF ProcessesFull(m) THEN machine' = m /\ UNCHANGED program
         ELSE /\ machine' = [Added(m, ChildOf(m, m.shell, capSession, "program"))
                              EXCEPT !.current = m.next]
              /\ program' = m.next
  /\ ensured' = TRUE
  /\ UNCHANGED <<users, capSession, job, first, phase>>

(* Mutant: the new program starts from its user's default set.             *)
BugSysExecve ==
  /\ program # 0
  /\ machine' = SetProcessCapabilities(machine, program,
                  DefaultForUid(capSession, machine.table[program].uid))
  /\ UNCHANGED <<users, capSession, program, job, first, phase, ensured>>

SysExecve ==
  /\ program # 0
  /\ machine' = SetProcessCapabilities(machine, program,
                  ExecCapabilities(machine.table[program].caps, machine.table[program].uid))
  /\ UNCHANGED <<users, capSession, program, job, first, phase, ensured>>

(* The program is reaped and the shell is current again.                   *)
CapsExit ==
  /\ program # 0
  /\ machine' = [Dequeue(Removed(machine, program), program) EXCEPT !.current = machine.shell]
  /\ program' = 0
  /\ UNCHANGED <<users, capSession, job, first, phase, ensured>>

CapsNext ==
  \/ CapsBoot \/ EnterRecovery \/ ShellTurn \/ CapsLogout \/ CmdSpawn \/ CapsExec
  \/ SysExecve \/ CapsExit \/ JobEnds
  \/ \E u \in Uids : CapsLogin(LoginOf(u)) \/ CapsSu(u) \/ CapsUserdel(u)
  \/ \E c \in Caps : CmdDrop({c})
  \/ \E p \in DOMAIN machine.table :
       CmdKill(p) \/ JobStarts(p) \/ \E expired \in BOOLEAN : CapsTick(expired, p)

CapsSpec == CapsInit /\ [][CapsNext]_capvars

-----------------------------------------------------------------------------
(* The machine and the sessions have their types; the table respects its   *)
(* limit and no pid is given twice.                                        *)
CapsTypeOK ==
  /\ users \subseteq Uids
  /\ capSession \in [uid : Uids, admin : BOOLEAN, open : BOOLEAN]
  /\ phase \in {"boot", "login", "shell"} /\ first \in BOOLEAN /\ ensured \in BOOLEAN
  /\ {program, job} \subseteq DOMAIN machine.table \cup {0}
  /\ DOMAIN machine.table \cup machine.ready \subseteq 1..(machine.next - 1)
  /\ Cardinality(DOMAIN machine.table) <= MaxProcesses
  /\ \A p \in DOMAIN machine.table :
       machine.table[p] \in [uid : Uids, parent : Nat, live : BOOLEAN,
                             kind : {"shell", "job", "program"}, caps : SUBSET Caps]

(* "When a shell process is present this uses the live process capability  *)
(* set" (session_require): from the top of a turn of the shell's loop      *)
(* (ensure_shell_process) until a tick, a job or su takes its place, the   *)
(* current process, when there is one, is a shell of the session's user,   *)
(* through kill, spawn, exec and a full table; pid 1, which then stands    *)
(* for the shell, is never the boot's shell of another user.  After a tick *)
(* or su it may be another user's until the next turn.  But whichever      *)
(* process is current, one of a user without the admin role never holds a  *)
(* bit outside USER_DEFAULT, whoever logged in before and whatever         *)
(* accounts were removed since.                                            *)
ShellIsTheSessions ==
  /\ (phase = "shell" /\ program = 0 /\ ensured /\ machine.current \in DOMAIN machine.table)
    => /\ machine.table[machine.current].uid = capSession.uid
       /\ machine.table[machine.current].kind = "shell"
  /\ \A p \in DOMAIN machine.table :
       machine.table[p].uid \notin AdminUids \cup {0} => machine.table[p].caps \subseteq UserDefault

(* "One-way drop: remove capabilities from the current process (cannot be  *)
(* regained through spawn or exec under the current model)"                *)
(* (drop_capabilities): no step gives a process a bit it did not have, and *)
(* a child starts with no more than its parent has then.  The boot's proof *)
(* gives the shell back what it took from it; it runs with interrupts off  *)
(* (main.rs) and is one step here.                                         *)
DropsAreOneWay ==
  [][/\ \A p \in DOMAIN machine.table \cap DOMAIN machine'.table :
          machine'.table[p].caps \subseteq machine.table[p].caps
     /\ \A p \in DOMAIN machine'.table \ DOMAIN machine.table :
          LET q == machine'.table[p]
          IN  (q.kind # "shell" /\ machine'.shell \in DOMAIN machine'.table)
                => q.caps \subseteq machine'.table[machine'.shell].caps]_capvars

=============================================================================
