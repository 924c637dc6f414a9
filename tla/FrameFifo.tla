----------------------------- MODULE FrameFifo -----------------------------
(***************************************************************************)
(* What a descriptor ring promises to the two sides that share it: frames  *)
(* come out in the order they went in, each once and unchanged.  The ring  *)
(* drivers of WarOS are shown to implement this.                           *)
(***************************************************************************)
EXTENDS Sequences

CONSTANTS Frames,  \* what one side may put into the ring
          Nothing  \* what the other side gets when it asks in vain

VARIABLES q,   \* the frames in the ring, oldest first
          got  \* what the receiving side got last

Init == q = <<>> /\ got = Nothing

Put == \E f \in Frames : q' = Append(q, f) /\ UNCHANGED got

Get == q # <<>> /\ got' = Head(q) /\ q' = Tail(q)

GetNothing == got' = Nothing /\ UNCHANGED q

Next == Put \/ Get \/ GetNothing

Spec == Init /\ [][Next]_<<q, got>>
=============================================================================
