------------------------------ MODULE MCKernel ------------------------------
(***************************************************************************)
(* Parts of the kernel that are checked as a sum: processes and the        *)
(* scheduler, the physical frames, the address spaces with the self tests  *)
(* at boot, the quantum registers, and the search for free disk blocks.    *)
(***************************************************************************)
EXTENDS MCExecSched, FrameAllocator, SelfTests, Quantum, BlockAlloc, Parts

-----------------------------------------------------------------------------
(* Processes: one user's programs and tasks, or two users who log in,      *)
(* change to each other and drop capabilities.                             *)

TaskCommands == {"spawn", "script", "exec", "kill", "wait", "tasks", "startx"}
UserCommands == {"nice", "su", "logout", "drop", "startx"}

TypedOf(commands) == \E c \in commands : Command(c) \/ GuiCommand(c)

\* Bound: where users change, what runs in the background is a program.
OnlyPrograms == \A i \in DOMAIN fg' : fg'[i].cmd \in {"none", "exec"}

SchedParts == {"tasks", "sessions"}
SchedPartsNext ==
    \/ about \in SchedParts /\ (Foreground \/ SysExecve \/ Tick) /\ (about = "tasks" => user' # 2)
    \/ about = "tasks" /\ TypedOf(TaskCommands)
    \/ about = "sessions" /\ TypedOf(UserCommands) /\ OnlyPrograms

-----------------------------------------------------------------------------
(* The frames: memory maps that start at frame 0, have a hole or end past  *)
(* the frames tracked, and two that are too small for the heap.            *)

Memory(from, to) == [start |-> from, end |-> to, usable |-> TRUE]
Hole(from, to) == [start |-> from, end |-> to, usable |-> FALSE]
TheMaps == {{Memory(0, 4), Hole(4, 5), Memory(5, 10)}, {Hole(0, 2), Memory(2, 4)},
            {Hole(0, 1), Memory(1, 2)}, {Hole(0, 1)}}
TheRegisters == {[offset |-> 0, size |-> 2], [offset |-> 1, size |-> 2], [offset |-> 0, size |-> 0]}

-----------------------------------------------------------------------------
(* The quantum registers: the shell's register with its gates or with the  *)
(* files it is saved to, the programs' registers and the demonstrations    *)
(* share nothing, so a behaviour is about one of them.                     *)

TheNames == {[stem |-> "a", ext |-> ""], [stem |-> "a", ext |-> ".qasm"], [stem |-> "a", ext |-> ".txt"]}
TheTokens == {[coefficient |-> "0", suffix |-> "", number |-> 0],
              [coefficient |-> "", suffix |-> "/", number |-> 2],
              [coefficient |-> "-", suffix |-> "", number |-> 0],
              [coefficient |-> "", suffix |-> "x", number |-> 2],
              [coefficient |-> "e", suffix |-> "", number |-> 0]}
OneQubit(gates, qubits) == {[gate |-> g, qubits |-> <<q>>] : g \in gates, q \in qubits}
TheGates == OneQubit({"h", "t"}, {0, 1}) \cup OneQubit({"x", "y", "z", "s", "rx", "ry", "rz"}, {1})
            \cup {[gate |-> "cx", qubits |-> <<0, 1>>], [gate |-> "cx", qubits |-> <<1, 0>>],
                  [gate |-> "cx", qubits |-> <<1, 1>>], [gate |-> "cz", qubits |-> <<1, 0>>],
                  [gate |-> "swap", qubits |-> <<0, 2>>], [gate |-> "ccx", qubits |-> <<1, 0, 2>>]}
TheCalls == {<<0, 0, 0, 0>>, <<10, 1, 0, 0>>, <<11, 1, 0, 0>>, <<21, 1, 0, 90>>, <<2, 1, 0, 0>>, <<7, 0, 0, 0>>}

QuantumPartsInit == QInit /\ about \in {"register", "saved", "programs", "demonstrations"}
QuantumPartsNext ==
  \/ about = "register" /\ ShellCommand /\ UNCHANGED files
  \/ about = "saved" /\ ShellCommand /\ applied' <= 1  \* bound: one gate
  \/ about = "programs" /\ ProgramCall
  \/ about = "demonstrations" /\ CmdQcircuit

-----------------------------------------------------------------------------
(* The sum.                                                                *)

FramesAtRest == FramesInit /\ Hole(0, 1) \in map /\ Cardinality(map) = 1
TestsAtRest == TestsInit /\ testFiles = <<>> /\ Cardinality(frames) = Min(FrameCounts)

\* An empty file table.
AllocAtRest ==
  /\ start = [i \in Entries |-> 0] /\ count = start /\ wanted = 0 /\ ignored = 0
  /\ n = 0 /\ ranges = <<>> /\ next = 1 /\ candidate = 0 /\ state = "loop"

KernelInit ==
  \/ /\ about \in SchedParts
     /\ Init /\ FramesAtRest /\ TestsAtRest /\ QInit /\ AllocAtRest
  \/ /\ about = "frames" /\ FramesInit
     /\ Init /\ TestsAtRest /\ QInit /\ AllocAtRest
  \/ /\ about = "tests" /\ TestsInit
     /\ Init /\ FramesAtRest /\ QInit /\ AllocAtRest
  \/ /\ QuantumPartsInit
     /\ Init /\ FramesAtRest /\ TestsAtRest /\ AllocAtRest
  \/ /\ about = "blocks" /\ AllocInit
     /\ Init /\ FramesAtRest /\ TestsAtRest /\ QInit

\* The parts but the scheduler may really stop.
KernelNext ==
  /\ UNCHANGED about
  /\ \/ SchedPartsNext /\ UNCHANGED <<framevars, testvars, qvars, allocvars>>
     \/ about = "frames" /\ FramesNext /\ UNCHANGED <<vars, testvars, qvars, allocvars>>
     \/ about = "tests" /\ TestsNext /\ UNCHANGED <<vars, framevars, qvars, allocvars>>
     \/ QuantumPartsNext /\ UNCHANGED <<vars, framevars, testvars, allocvars>>
     \/ about = "blocks" /\ AllocNext /\ UNCHANGED <<vars, framevars, testvars, qvars>>
     \/ /\ about \notin SchedParts
        /\ UNCHANGED <<vars, framevars, testvars, qvars, allocvars>>

\* The fairness is that of ExecSched, where users log in and out.
KernelSpec ==
  /\ KernelInit /\ [][KernelNext]_<<about, vars, framevars, testvars, qvars, allocvars>>
  /\ WF_vars(about = "sessions" /\ Foreground) /\ SF_vars(about = "sessions" /\ SysExit)

\* CommandsFinish where nothing is killed: a command spawned into the background
\* is run to its end as long as someone polls the tasks, which start_gui's loop
\* does.
SessionCommandsFinish == about = "sessions" => CommandsFinish
=============================================================================
