------------------------------ MODULE Quantum -------------------------------
(***************************************************************************)
(* The kernel's quantum subsystem (kernel/src/quantum): the shell's        *)
(* register and its commands qalloc, qfree, qreset, qrun, qmeasure, qsave, *)
(* qexport and qresult, the registers that programs hold by handle         *)
(* (exec/syscalls/quantum.rs), the circuit given to IBM's service and the  *)
(* built-in demonstrations.  State vectors are those of Amplitudes; the    *)
(* gates are the matrices of gates.rs, applied by the loops of             *)
(* simulator.rs.                                                           *)
(***************************************************************************)
EXTENDS Amplitudes, TLC

CONSTANTS Widths,        \* the qubit counts asked for, some of them refused
          Names,         \* the file names typed, as [stem, ext] records
          AngleTokens,   \* the angles typed
          GateCalls,     \* the gates typed, with their qubits
          CallGates,     \* the gates of sys_qgate, as <<number, target, control, degrees>>
          ShotCounts,    \* the shots asked for
          MaxQubits,     \* MAX_KERNEL_QUBITS
          MaxShots,      \* the largest number of shots a command runs
          MaxOps,        \* bound: the gates applied
          MaxHandle      \* bound: the registers programs allocate

VARIABLES register,   \* QUANTUM_STATE: None, or the session of the shell
          pool,       \* PROCESS_REGISTERS: the state vectors by handle
          nextHandle, \* NEXT_HANDLE
          files,      \* the kind of text that qsave and qresult wrote, by name
          shown,      \* what the last demonstration displayed
          applied     \* the gates applied so far

qvars == <<register, pool, nextHandle, files, shown, applied>>

None == [n |-> 0]
NewSession(s) == [n |-> s.n, state |-> s, ops |-> <<>>, result |-> <<>>]

-----------------------------------------------------------------------------
(* gates.rs: matrices by rows, over 1/sqrt(2)^k.                           *)

Hadamard == [k |-> 1, m |-> <<<<0, 0>>, <<0, 8>>>>]
PauliX == [k |-> 0, m |-> <<<<Nil, 0>>, <<0, Nil>>>>]
PauliY == [k |-> 0, m |-> <<<<Nil, 12>>, <<4, Nil>>>>]
Diagonal(e) == [k |-> 0, m |-> <<<<0, Nil>>, <<Nil, e>>>>]
PauliZ == Diagonal(8)
SGate == Diagonal(4)
TGate == Diagonal(2)

Rx(a) == [k |-> Halves(a), m |-> <<<<Cosine(a), Times(Sine(a), 12)>>, <<Times(Sine(a), 12), Cosine(a)>>>>]
Ry(a) == [k |-> Halves(a), m |-> <<<<Cosine(a), Times(Sine(a), 8)>>, <<Sine(a), Cosine(a)>>>>]
Rz(a) == [k |-> 0, m |-> <<<<(0 - a) % 16, Nil>>, <<Nil, a % 16>>>>]
Cnot == [k |-> 0, m |-> <<<<0, Nil, Nil, Nil>>, <<Nil, 0, Nil, Nil>>,
                          <<Nil, Nil, Nil, 0>>, <<Nil, Nil, 0, Nil>>>>]
ControlledPhase(e) == [k |-> 0, m |-> <<<<0, Nil, Nil, Nil>>, <<Nil, 0, Nil, Nil>>,
                                        <<Nil, Nil, 0, Nil>>, <<Nil, Nil, Nil, e>>>>]
Cz == ControlledPhase(8)
Swap == [k |-> 0, m |-> <<<<0, Nil, Nil, Nil>>, <<Nil, Nil, 0, Nil>>,
                          <<Nil, 0, Nil, Nil>>, <<Nil, Nil, Nil, 0>>>>]

-----------------------------------------------------------------------------
(* simulator.rs.  An operation that is refused returns None.               *)

(* One row of a matrix times the amplitudes at the given indices.          *)
RowTimes(row, s, at) ==
  FoldLeft(LAMBDA sum, c : CAdd(sum, Entry(row[c], s.amp[at[c]])), Zero,
           [c \in 1..Len(row) |-> c])

Apply1q(s, target, gate) ==
  IF target >= s.n THEN None
  ELSE [s EXCEPT !.k = @ + gate.k,
                 !.amp = [i \in Basis(s.n) |->
                            RowTimes(gate.m[Bit(i, target) + 1], s,
                                     <<Low(i, target), Low(i, target) + 2^target>>)]]

(* The first qubit is the higher bit of the matrix's index.                *)
Apply2q(s, q0, q1, gate) ==
  IF q0 >= s.n \/ q1 >= s.n \/ q0 = q1 THEN None
  ELSE [s EXCEPT !.k = @ + gate.k,
                 !.amp = [i \in Basis(s.n) |->
                            LET base == Low(Low(i, q0), q1)
                            IN  RowTimes(gate.m[2 * Bit(i, q0) + Bit(i, q1) + 1], s,
                                         <<base, base + 2^q1, base + 2^q0, base + 2^q0 + 2^q1>>)]]

ApplyToffoli(s, c0, c1, target) ==
  IF Cardinality({c0, c1, target}) < 3 \/ Max({c0, c1, target}) >= s.n THEN None
  ELSE [s EXCEPT !.amp = [i \in Basis(s.n) |-> IF Bit(i, c0) = 1 /\ Bit(i, c1) = 1
                                               THEN s.amp[Flip(i, target)] ELSE s.amp[i]]]

(* The index that the chosen qubits of a basis state spell, the first one  *)
(* lowest.                                                                 *)
Reduced(i, qubits) == FoldLeft(LAMBDA sum, b : sum + Bit(i, qubits[b]) * 2^(b - 1), 0,
                               [b \in 1..Len(qubits) |-> b])

(* The outcomes whose aggregated probability is not zero.  The draw is     *)
(* random, so each of them may come.                                       *)
Outcomes(s, qubits) == {Reduced(i, qubits) : i \in {j \in Basis(s.n) : s.amp[j] # Zero}}

(* The counts of a measurement: a bag of outcomes, one per shot.           *)
SampleCounts(s, qubits, shots) ==
  {c \in [Outcomes(s, qubits) -> 0..shots] : FoldFunction(+, 0, c) = shots}
Nonzero(c) == [o \in {x \in DOMAIN c : c[x] > 0} |-> c[o]]

AllQubits(n) == [q \in 1..n |-> q - 1]

(* The branch of an outcome.  The code divides by the root of its          *)
(* probability; here the branch keeps its length.                          *)
Collapse(s, qubit, outcome) ==
  [s EXCEPT !.amp = [i \in Basis(s.n) |-> IF Bit(i, qubit) = outcome THEN s.amp[i] ELSE Zero]]
CollapseOutcomes(s, qubit) == Outcomes(s, <<qubit>>)

-----------------------------------------------------------------------------
(* qrun.  A typed angle is a number of radians (0 here) or a coefficient,  *)
(* "pi" and a suffix; angles are counted in pi/4.  The code takes any f64  *)
(* for the numbers; the ones that make no angle (nan, inf, pi/0) are left  *)
(* out, as floating point is.                                              *)

Unreadable == 999
Coefficient(c) == CASE c \in {"", "+"} -> 1 [] c = "-" -> -1 [] c = "2" -> 2 [] OTHER -> Unreadable
ParseAngle(token) ==
  LET pi == 4 * Coefficient(token.coefficient)
  IN  IF token.coefficient = "0" THEN 0
      ELSE IF Coefficient(token.coefficient) = Unreadable THEN Unreadable
      ELSE CASE token.suffix = "" -> pi
             [] token.suffix = "/" -> pi \div token.number
             [] token.suffix = "x" -> pi * token.number
             [] OTHER -> Unreadable

(* The angle as it is written into the circuit: six digits of a radian,    *)
(* and the angle such a text stands for.                                   *)
Printed(a) == LET up(x) == x * 785398 + (x * 163 + 500) \div 1000
              IN  IF a < 0 THEN 0 - up(0 - a) ELSE up(a)
ReadBack(m) == CHOOSE a \in -16..16 : Printed(a) = m

RotationGates == {"rx", "ry", "rz"}
Gate1Q(gate, a) ==
  CASE gate = "h" -> Hadamard [] gate = "x" -> PauliX [] gate = "y" -> PauliY
    [] gate = "z" -> PauliZ [] gate = "s" -> SGate [] gate = "t" -> TGate
    [] gate = "rx" -> Rx(a) [] gate = "ry" -> Ry(a) [] gate = "rz" -> Rz(a)
Gate2Q(gate) == CASE gate = "cx" -> Cnot [] gate = "cz" -> Cz [] gate = "swap" -> Swap

ApplyGate(s, gate, q, a) ==
  CASE gate \in {"cx", "cz", "swap"} -> Apply2q(s, q[1], q[2], Gate2Q(gate))
    [] gate = "ccx" -> ApplyToffoli(s, q[1], q[2], q[3])
    [] OTHER -> Apply1q(s, q[1], Gate1Q(gate, a))

Operation(gate, q, a) ==
  IF gate \in RotationGates THEN [gate |-> gate, qubits |-> q, printed |-> Printed(a)]
  ELSE [gate |-> gate, qubits |-> q]

(* The session after a gate.  A gate that is refused is not recorded.      *)
WithGate(session, s, operation) ==
  IF s = None THEN session ELSE [session EXCEPT !.state = s, !.ops = Append(@, operation)]

Typed(gate, q, a) ==
  /\ a # Unreadable
  /\ gate \in {"rx", "ry"} => a % 2 = 0   \* bound: the angles Amplitudes can hold
  /\ register' = WithGate(register, ApplyGate(register.state, gate, q, a), Operation(gate, q, a))

CmdQrun ==
  /\ register # None /\ applied < MaxOps
  /\ \E call \in GateCalls :
       \/ call.gate \notin RotationGates /\ Typed(call.gate, call.qubits, 0)
       \/ call.gate \in RotationGates
          /\ \E token \in AngleTokens : Typed(call.gate, call.qubits, ParseAngle(token))
  /\ applied' = applied + 1
  /\ UNCHANGED <<pool, nextHandle, files, shown>>

CmdQalloc ==
  /\ \E n \in Widths : n \in 1..MaxQubits /\ register' = NewSession(ZeroState(n))
  /\ UNCHANGED <<pool, nextHandle, files, shown, applied>>

CmdQfree == register' = None /\ UNCHANGED <<pool, nextHandle, files, shown, applied>>

(* Mutant: the operations of the circuit so far are kept.                  *)
BugReset(session) == [session EXCEPT !.state = ZeroState(session.n), !.result = <<>>]

Reset(session) == NewSession(ZeroState(session.n))

CmdQreset ==
  /\ register # None
  /\ register' = Reset(register)
  /\ UNCHANGED <<pool, nextHandle, files, shown, applied>>

Clamp(shots) == Max({1, Min({shots, MaxShots})})

(* The register does not collapse.                                         *)
CmdQmeasure ==
  /\ register # None
  /\ \E shots \in ShotCounts :
       \E c \in SampleCounts(register.state, AllQubits(register.n), Clamp(shots)) :
         register' = [register EXCEPT !.result = <<Nonzero(c)>>]
  /\ UNCHANGED <<pool, nextHandle, files, shown, applied>>

-----------------------------------------------------------------------------
(* qsave, qexport, qresult, and what is sent to IBM.                       *)

QasmSource(session) == [qubits |-> session.n, ops |-> session.ops, measured |-> <<>>]
CurrentIbmQasm(session) ==
  [qubits |-> session.n, ops |-> session.ops,
   measured |-> [q \in 1..session.n |-> <<q - 1, q - 1>>]]

WithExtension(name, extension) ==
  IF name.ext = extension THEN name
  ELSE [stem |-> IF name.ext = "" THEN name.stem ELSE name.stem \o name.ext, ext |-> extension]

WriteCurrent(name, content) == files' = (name :> content) @@ files

(* fs::write_current may refuse; then nothing is written.                  *)
CmdQsave ==
  /\ register # None
  /\ \E name \in Names : WriteCurrent(WithExtension(name, ".qasm"), "circuit")
  /\ UNCHANGED <<register, pool, nextHandle, shown, applied>>

CmdQresult ==
  /\ register # None /\ register.result # <<>>
  /\ \E name \in Names : WriteCurrent(WithExtension(name, ".txt"), "results")
  /\ UNCHANGED <<register, pool, nextHandle, shown, applied>>

-----------------------------------------------------------------------------
(* The registers of programs                                               *)

SysQalloc ==
  /\ nextHandle <= MaxHandle
  /\ \E n \in Widths :
       /\ n \in 1..MaxQubits
       /\ pool' = (nextHandle :> ZeroState(n)) @@ pool
  /\ nextHandle' = nextHandle + 1
  /\ UNCHANGED <<register, files, shown, applied>>

(* Freeing a handle twice is no error.                                     *)
SysQfree ==
  /\ \E handle \in 1..MaxHandle : pool' = [h \in DOMAIN pool \ {handle} |-> pool[h]]
  /\ UNCHANGED <<register, nextHandle, files, shown, applied>>

(* The gates by number; the angle of a rotation comes in degrees.          *)
NumberedGate(number) == (0 :> "h" @@ 1 :> "x" @@ 2 :> "y" @@ 3 :> "z" @@ 4 :> "s" @@ 5 :> "t"
                         @@ 10 :> "cx" @@ 11 :> "cz" @@ 20 :> "rx" @@ 21 :> "ry" @@ 22 :> "rz")[number]
GateNumbers == 0..5 \cup {10, 11} \cup 20..22

Numbered(s, number, target, control, degrees) ==
  IF number \notin GateNumbers \/ target >= s.n \/ (number \in {10, 11} /\ control >= s.n) THEN None
  ELSE ApplyGate(s, NumberedGate(number),
                 IF number \in {10, 11} THEN <<control, target>> ELSE <<target>>, degrees \div 45)

SysQgate ==
  /\ applied < MaxOps
  /\ \E handle \in DOMAIN pool, g \in CallGates :
       LET s == Numbered(pool[handle], g[1], g[2], g[3], g[4])
       IN  s # None /\ pool' = [pool EXCEPT ![handle] = s]
  /\ applied' = applied + 1
  /\ UNCHANGED <<register, nextHandle, files, shown>>

-----------------------------------------------------------------------------
(* The demonstrations (circuits.rs).  Each prepares a state of its own and *)
(* displays what it measured.                                              *)

Run(s, steps) == FoldLeft(LAMBDA acc, step : ApplyGate(acc, step[1], step[2], 0), s, steps)

RunBell == Run(ZeroState(2), <<<<"h", <<0>>>>, <<"cx", <<0, 1>>>>>>)
RunGhz3 == Run(ZeroState(3), <<<<"h", <<0>>>>, <<"cx", <<0, 1>>>>, <<"cx", <<0, 2>>>>>>)

RunGrover ==
  Run(ZeroState(2), <<<<"h", <<0>>>>, <<"h", <<1>>>>, <<"cz", <<0, 1>>>>, <<"h", <<0>>>>, <<"h", <<1>>>>,
                      <<"x", <<0>>>>, <<"x", <<1>>>>, <<"cz", <<0, 1>>>>, <<"x", <<0>>>>, <<"x", <<1>>>>,
                      <<"h", <<0>>>>, <<"h", <<1>>>>>>)
RunDeutsch ==
  Run(ZeroState(2), <<<<"x", <<1>>>>, <<"h", <<0>>>>, <<"h", <<1>>>>, <<"cx", <<0, 1>>>>, <<"h", <<0>>>>>>)
RunBernsteinVazirani ==
  Run(ZeroState(4), <<<<"x", <<3>>>>, <<"h", <<0>>>>, <<"h", <<1>>>>, <<"h", <<2>>>>, <<"h", <<3>>>>,
                      <<"cx", <<0, 3>>>>, <<"cx", <<2, 3>>>>, <<"h", <<0>>>>, <<"h", <<1>>>>, <<"h", <<2>>>>>>)
RunSuperdense ==
  Run(ZeroState(2), <<<<"h", <<0>>>>, <<"cx", <<0, 1>>>>, <<"x", <<0>>>>, <<"cx", <<0, 1>>>>, <<"h", <<0>>>>>>)

(* Bob's qubit, for each pair of outcomes of Alice.  The demonstration     *)
(* teleports Ry(pi/3)|0>; Amplitudes has no root of three, and three other *)
(* angles that span the real states of a qubit stand for it.               *)
TeleportAngles == {0, 2, 4}
RunTeleport ==
  {LET prepared == Run(Apply1q(ZeroState(3), 0, Ry(a)),
                       <<<<"h", <<1>>>>, <<"cx", <<1, 2>>>>, <<"cx", <<0, 1>>>>, <<"h", <<0>>>>>>)
       measured == Collapse(Collapse(prepared, 0, m[1]), 1, m[2])
       bob == Run(measured, (IF m[2] = 1 THEN <<<<"x", <<2>>>>>> ELSE <<>>)
                            \o (IF m[1] = 1 THEN <<<<"z", <<2>>>>>> ELSE <<>>))
   IN  [demo |-> "teleport", angle |-> a,
        zero |-> bob.amp[m[1] + 2 * m[2]], one |-> bob.amp[m[1] + 2 * m[2] + 4]]
     : a \in TeleportAngles, m \in {0, 1} \X {0, 1}}

(* Mutant: the distance is counted from zero.                              *)
BugPhased(s, control, target, distance) ==
  Apply2q(s, control, target, ControlledPhase(Degree \div 2^(distance - 1)))

Phased(s, control, target, distance) ==
  Apply2q(s, control, target, ControlledPhase(Degree \div 2^distance))
ApplyQft(s, n) ==
  LET layer(acc, t) == FoldLeft(LAMBDA x, c : Phased(x, c, t, c - t), Apply1q(acc, t, Hadamard),
                                [i \in 1..(n - 1 - t) |-> t + i])
      phased == FoldLeft(layer, s, AllQubits(n))
  IN  FoldLeft(LAMBDA x, i : Apply2q(x, i, n - 1 - i, Swap), phased, AllQubits(n \div 2))
RunQft4 == ApplyQft(Run(ZeroState(4), <<<<"x", <<0>>>>, <<"x", <<2>>>>>>), 4)

ShorGcd[x \in Nat, y \in Nat] == IF y = 0 THEN x ELSE ShorGcd[y, x % y]
ShorModPow[b \in Nat, e \in Nat, m \in Nat] ==
  IF e = 0 THEN 1 ELSE (ShorModPow[(b * b) % m, e \div 2, m] * (IF e % 2 = 1 THEN b % m ELSE 1)) % m
RunShorDemo ==
  LET power == ShorModPow[7, 4 \div 2, 15]
  IN  [demo |-> "shor", plus |-> ShorGcd[power + 1, 15], minus |-> ShorGcd[power - 1, 15]]

(* The best cut among the sampled ones: any of the eight states may be     *)
(* sampled.                                                                *)
TriangleMaxcutCost(b) == Cardinality({e \in {<<0, 1>>, <<1, 2>>, <<0, 2>>} : Bit(b, e[1]) # Bit(b, e[2])})
RunQaoaDemo ==
  {[demo |-> "qaoa", sampled |-> results,
    best |-> CHOOSE b \in results : \A c \in results : TriangleMaxcutCost(c) <= TriangleMaxcutCost(b)]
     : results \in (SUBSET Basis(3)) \ {{}}}

Displayed(demo, s, qubits) == {[demo |-> demo, outcome |-> o] : o \in Outcomes(s, qubits)}

CmdQcircuit ==
  /\ shown' \in Displayed("bell", RunBell, <<0, 1>>)
                 \cup Displayed("ghz3", RunGhz3, <<0, 1, 2>>)
                 \cup Displayed("grover", RunGrover, <<0, 1>>)
                 \cup Displayed("deutsch", RunDeutsch, <<0>>)
                 \cup Displayed("bernstein", RunBernsteinVazirani, <<0, 1, 2>>)
                 \cup Displayed("superdense", RunSuperdense, <<0, 1>>)
                 \cup RunTeleport \cup {RunShorDemo} \cup RunQaoaDemo
                 \cup {[demo |-> "qft4", state |-> RunQft4]}
  /\ UNCHANGED <<register, pool, nextHandle, files, applied>>

-----------------------------------------------------------------------------
QInit ==
  /\ register = None /\ pool = <<>> /\ nextHandle = 1
  /\ files = <<>> /\ shown = [demo |-> "none"] /\ applied = 0

ShellCommand ==
  \/ CmdQalloc \/ CmdQfree \/ CmdQreset \/ CmdQrun \/ CmdQmeasure \/ CmdQsave \/ CmdQresult
ProgramCall == SysQalloc \/ SysQfree \/ SysQgate

QNext == ShellCommand \/ ProgramCall \/ CmdQcircuit

QSpec == QInit /\ [][QNext]_qvars

-----------------------------------------------------------------------------
(* The circuit that qsave writes and that is sent to IBM prepares the      *)
(* state the register is in: every gate applied, and only those, with its  *)
(* qubits in the order of the OpenQASM gate, since the last qalloc or      *)
(* qreset; IBM's also measures every qubit into the bit of its number.     *)
(* The probabilities of every register, the programs' too, add up to one.  *)
CircuitIsTheState ==
  /\ register = None \/
       LET Angled(op) == IF op.gate \in RotationGates
                         THEN [gate |-> op.gate, qubits |-> op.qubits, angle |-> ReadBack(op.printed)] ELSE op
           Prepared(qasm) == Replay(qasm.qubits, [i \in DOMAIN qasm.ops |-> Angled(qasm.ops[i])])
           ibm == CurrentIbmQasm(register)
       IN  /\ SameState(Prepared(QasmSource(register)), register.state)
           /\ ibm.ops = QasmSource(register).ops
           /\ \A q \in 0..(register.n - 1) : Contains(ibm.measured, <<q, q>>)
           /\ Normalized(register.state)
  /\ \A h \in DOMAIN pool : Normalized(pool[h])

(* What the demonstrations announce is what they display: bell and ghz3    *)
(* only correlated outcomes, grover the target 11, deutsch a balanced      *)
(* oracle, bernstein the secret 101, superdense the message 10, teleport   *)
(* Bob's qubit in Alice's state, qft4 the phases of the transform (with    *)
(* qubit 0 as the highest digit), shor two factors of 15 and qaoa a best   *)
(* sampled cut.                                                            *)
Reversed(i) == Bit(i, 0) * 8 + Bit(i, 1) * 4 + Bit(i, 2) * 2 + Bit(i, 3)
BuiltinsKeepTheirWord ==
  CASE shown.demo = "bell" -> shown.outcome \in {0, 3}
    [] shown.demo = "ghz3" -> shown.outcome \in {0, 7}
    [] shown.demo = "grover" -> shown.outcome = 3
    [] shown.demo = "deutsch" -> shown.outcome = 1
    [] shown.demo = "bernstein" -> shown.outcome = 5
    [] shown.demo = "superdense" -> shown.outcome = 2
    [] shown.demo = "teleport" ->
         LET alice == Meaning(ZeroState(1), [gate |-> "ry", qubits |-> <<0>>, angle |-> shown.angle])
         IN  /\ CTimes(shown.zero, alice.amp[1]) = CTimes(shown.one, alice.amp[0])
             /\ shown.zero # Zero \/ shown.one # Zero
    [] shown.demo = "shor" -> shown.plus * shown.minus = 15 /\ shown.plus > 1 /\ shown.minus > 1
    [] shown.demo = "qaoa" ->
         /\ shown.best \in shown.sampled
         /\ shown.sampled \cap 1..6 # {} => TriangleMaxcutCost(shown.best) = 2
    [] shown.demo = "qft4" ->
         \A i \in Basis(4) : shown.state.amp[i] = Turn(One, Reversed(5) * Reversed(i))
    [] OTHER -> TRUE

=============================================================================
