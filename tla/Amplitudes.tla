----------------------------- MODULE Amplitudes -----------------------------
(***************************************************************************)
(* Exact arithmetic for the state vectors of the two quantum simulators    *)
(* (kernel/src/quantum and crates/waros-quantum).  The programs compute    *)
(* with pairs of floating-point numbers; here an amplitude is an integer   *)
(* combination of the powers 0 to 7 of z = e^(i pi/8), and a state vector  *)
(* carries one common factor 1/sqrt(2)^k.  Every gate without an angle,    *)
(* and the rotations by multiples of pi/4, stay inside these numbers, so   *)
(* two state vectors can be compared exactly.                              *)
(*                                                                         *)
(* A state vector is a record [n, k, amp] with amp a function from the     *)
(* basis indices 0..2^n-1; qubit q is bit q of the index.                  *)
(***************************************************************************)
EXTENDS Integers, Sequences, FiniteSets, FiniteSetsExt, SequencesExt, Functions

Degree == 8
Zero == [i \in 0..(Degree - 1) |-> 0]
One == [Zero EXCEPT ![0] = 1]

CAdd(a, b) == [i \in 0..(Degree - 1) |-> a[i] + b[i]]

(* a * z^j: z^8 = -1.                                                      *)
Turn(a, j) ==
  [i \in 0..(Degree - 1) |-> LET from == (i - j) % (2 * Degree)
                             IN  IF from < Degree THEN a[from] ELSE 0 - a[from - Degree]]

Scale(a, c) == [i \in 0..(Degree - 1) |-> c * a[i]]
CTimes(a, b) ==
  FoldSet(LAMBDA j, sum : CAdd(sum, Scale(Turn(b, j), a[j])), Zero, 0..(Degree - 1))
Conjugate(a) == [i \in 0..(Degree - 1) |-> IF i = 0 THEN a[0] ELSE 0 - a[Degree - i]]
TimesSqrt2(a) == CAdd(Turn(a, 2), Turn(a, -2))

(* An entry of a gate's matrix is zero or a power of z.                    *)
Nil == 2 * Degree
Entry(e, a) == IF e = Nil THEN Zero ELSE Turn(a, e)

Bit(index, q) == (index \div 2^q) % 2
Low(index, q) == index - Bit(index, q) * 2^q
Flip(index, q) == IF Bit(index, q) = 0 THEN index + 2^q ELSE index - 2^q

Basis(n) == 0..(2^n - 1)
ZeroState(n) == [n |-> n, k |-> 0, amp |-> [i \in Basis(n) |-> IF i = 0 THEN One ELSE Zero]]

NormSq(a) == CTimes(a, Conjugate(a))
TotalProbability(s) == FoldSet(LAMBDA i, sum : CAdd(sum, NormSq(s.amp[i])), Zero, Basis(s.n))
Normalized(s) == TotalProbability(s) = Scale(One, 2^s.k)

(* The factor 1/sqrt(2)^k is written out until the two agree.              *)
Raised(s, by) ==
  [s EXCEPT !.k = @ + by,
            !.amp = [i \in Basis(s.n) |-> FoldLeft(LAMBDA a, x : TimesSqrt2(a), s.amp[i],
                                                   [x \in 1..by |-> x])]]
SameState(s, t) ==
  LET k == Max({s.k, t.k}) IN Raised(s, k - s.k) = Raised(t, k - t.k)

-----------------------------------------------------------------------------
(* What a gate of the OpenQASM library means: where a basis state goes,    *)
(* with which power of z.  Angles are multiples of pi/4 (of pi/8 for cp);  *)
(* rx and ry take even ones.  This is the definition that the simulators' *)
(* matrices and loops are compared with.                                   *)

Sign(b) == IF b = 0 THEN 0 ELSE Degree

(* cos(a pi/8) and sin(a pi/8) for even a, as entries over sqrt(2)^(a/2 odd) *)
Cosine(a) == <<0, 0, Nil, 8, 8, 8, Nil, 0>>[((a \div 2) % 8) + 1]
Sine(a) == <<Nil, 0, 0, 0, Nil, 8, 8, 8>>[((a \div 2) % 8) + 1]
Times(e, j) == IF e = Nil THEN Nil ELSE (e + j) % (2 * Degree)
Halves(a) == IF (a \div 2) % 2 = 1 THEN 1 ELSE 0

(* The images of basis state b: pairs of a basis state and an entry.       *)
Image(op, b) ==
  LET q == op.qubits
      v == Bit(b, q[1])
      stay == {<<b, 0>>}
      split(keep, flip) == {<<b, keep>>, <<Flip(b, q[1]), flip>>}
  IN  CASE op.gate = "h" -> split(Sign(v), 0)
        [] op.gate = "x" -> {<<Flip(b, q[1]), 0>>}
        [] op.gate = "y" -> {<<Flip(b, q[1]), IF v = 0 THEN 4 ELSE 12>>}
        [] op.gate = "z" -> {<<b, 8 * v>>}
        [] op.gate = "s" -> {<<b, 4 * v>>}
        [] op.gate = "sdg" -> {<<b, 12 * v>>}
        [] op.gate = "t" -> {<<b, 2 * v>>}
        [] op.gate = "tdg" -> {<<b, 14 * v>>}
        [] op.gate = "rx" -> split(Cosine(op.angle), Times(Sine(op.angle), 12))
        [] op.gate = "ry" -> split(Cosine(op.angle), Times(Sine(op.angle), Sign(v)))
        [] op.gate = "rz" -> {<<b, (IF v = 0 THEN 0 - op.angle ELSE op.angle) % 16>>}
        [] op.gate = "cx" -> IF v = 1 THEN {<<Flip(b, q[2]), 0>>} ELSE stay
        [] op.gate = "cz" -> {<<b, 8 * v * Bit(b, q[2])>>}
        [] op.gate = "cp" -> {<<b, (op.angle * v * Bit(b, q[2])) % 16>>}
        [] op.gate = "swap" -> IF v # Bit(b, q[2]) THEN {<<Flip(Flip(b, q[1]), q[2]), 0>>} ELSE stay
        [] op.gate = "ccx" -> IF v = 1 /\ Bit(b, q[2]) = 1 THEN {<<Flip(b, q[3]), 0>>} ELSE stay

Meaning(s, op) ==
  [s EXCEPT !.k = @ + (IF op.gate = "h" THEN 1
                       ELSE IF op.gate \in {"rx", "ry"} THEN Halves(op.angle) ELSE 0),
            !.amp = [i \in Basis(s.n) |->
                       FoldSet(LAMBDA b, sum :
                                 FoldSet(LAMBDA p, acc : IF p[1] = i THEN CAdd(acc, Entry(p[2], s.amp[b]))
                                                         ELSE acc, sum, Image(op, b)),
                               Zero, Basis(s.n))]]

Replay(n, ops) == FoldLeft(Meaning, ZeroState(n), ops)

=============================================================================
