---------------------------- MODULE MCExecSched ----------------------------
(* Instances of ExecSched for TLC: time slices and capabilities. *)
EXTENDS ExecSched

\* The shell gets two ticks, the others one.
Slices == [p \in Prios |-> IF p = Shell THEN 2 ELSE 1]

AllCaps == [u \in Users \cup {0} |-> Caps]

\* User 1 is an administrator.
RootCaps == [u \in Users \cup {0} |-> IF u = 1 THEN Caps ELSE {}]
=============================================================================
