------------------------------- MODULE E1000 -------------------------------
(***************************************************************************)
(* The Intel card: the two descriptor rings of hal/net/e1000.rs and the    *)
(* card that walks them.  A descriptor carries its done bit and the frame  *)
(* in its buffer.                                                          *)
(***************************************************************************)
EXTENDS Naturals, Sequences, FiniteSets, SequencesExt

CONSTANTS ETx, ERx,      \* NUM_TX_DESCS, NUM_RX_DESCS
          EFrames, ENone

ASSUME E1000Assumption == ETx \in Nat \ {0} /\ ERx \in Nat \ {0, 1} /\ ENone \notin EFrames

VARIABLES etx,   \* the transmit descriptors
          tail,  \* tx_tail, which is also what TDT holds
          tdh,   \* TDH, where the card sends next
          erx,   \* the receive descriptors
          rhead, \* rx_head
          rdh,   \* RDH, where the card receives next
          rdt,   \* RDT, the descriptor the card stops at
          egot,  \* what recv_frame returned last
          ewire  \* the frame sent last

evars == <<etx, tail, tdh, erx, rhead, rdh, rdt, egot, ewire>>

EBad == "bad"              \* received with errors, or empty
ETooLarge == "too large"

\* init_tx and init_rx.
E1000Init ==
    /\ etx = [i \in 0 .. ETx - 1 |-> [dd |-> TRUE, frame |-> ENone]]
    /\ erx = [i \in 0 .. ERx - 1 |-> [dd |-> FALSE, frame |-> ENone]]
    /\ tail = 0 /\ tdh = 0 /\ rhead = 0 /\ rdh = 0 /\ rdt = ERx - 1
    /\ egot = ENone /\ ewire = ENone

\* send_frame: QueueFull until the card is done with the descriptor at the
\* tail; a frame too large leaves no trace.
ESend(f) ==
    /\ etx[tail].dd /\ f # ETooLarge
    /\ etx' = [etx EXCEPT ![tail] = [dd |-> FALSE, frame |-> f]]
    /\ tail' = (tail + 1) % ETx
    /\ UNCHANGED <<tdh, erx, rhead, rdh, rdt, egot, ewire>>

\* Mutant: the done bit is left set.
BugERecv ==
    /\ egot' = IF erx[rhead].dd /\ erx[rhead].frame # EBad THEN erx[rhead].frame ELSE ENone
    /\ IF erx[rhead].dd
       THEN rdt' = rhead /\ rhead' = (rhead + 1) % ERx
       ELSE UNCHANGED <<rdt, rhead>>
    /\ UNCHANGED <<etx, tail, tdh, erx, rdh, ewire>>

\* recv_frame: the descriptor goes back to the card whatever was in it.
ERecv ==
    /\ egot' = IF erx[rhead].dd /\ erx[rhead].frame # EBad THEN erx[rhead].frame ELSE ENone
    /\ IF erx[rhead].dd
       THEN /\ rdt' = rhead
            /\ erx' = [erx EXCEPT ![rhead].dd = FALSE]
            /\ rhead' = (rhead + 1) % ERx
       ELSE UNCHANGED <<erx, rdt, rhead>>
    /\ UNCHANGED <<etx, tail, tdh, rdh, ewire>>

\* The card sends from TDH up to TDT: equal registers mean an empty ring.
CardSends ==
    /\ tdh # tail
    /\ ewire' = etx[tdh].frame
    /\ etx' = [etx EXCEPT ![tdh].dd = TRUE]
    /\ tdh' = (tdh + 1) % ETx
    /\ UNCHANGED <<tail, erx, rhead, rdh, rdt, egot>>

\* The card receives into RDH unless that is RDT.
CardReceives(f) ==
    /\ rdh # rdt
    /\ erx' = [erx EXCEPT ![rdh] = [dd |-> TRUE, frame |-> f]]
    /\ rdh' = (rdh + 1) % ERx
    /\ UNCHANGED <<etx, tail, tdh, rhead, rdt, egot, ewire>>

E1000Next ==
    \/ \E f \in EFrames \cup {ETooLarge} : ESend(f)
    \/ ERecv \/ CardSends
    \/ \E f \in EFrames \cup {EBad} : CardReceives(f)

-----------------------------------------------------------------------------
\* The frames in the n descriptors from `from` on.
InRing(ring, size, from, n) == [i \in 1 .. n |-> ring[(from + i - 1) % size].frame]

\* The descriptors from rx_head on that carry a frame to collect.
ToCollect == CHOOSE k \in 0 .. ERx :
                 /\ \A j \in 0 .. k - 1 : erx[(rhead + j) % ERx].dd
                 /\ k < ERx => ~erx[(rhead + k) % ERx].dd

Received == SelectSeq(InRing(erx, ERx, rhead, ToCollect), LAMBDA f : f # EBad)

\* What the card still has to send, as its registers say: from TDH up to TDT.
Unsent == InRing(etx, ETx, tdh, (tail + ETx - tdh) % ETx)

\* send_frame goes by the done bits, so a burst can fill the whole ring; the
\* registers are then equal, and the card takes the ring for empty.
Wedged == tdh = tail /\ ~etx[tail].dd

ERxFifo == INSTANCE FrameFifo WITH Frames <- EFrames, Nothing <- ENone, q <- Received, got <- egot
ETxFifo == INSTANCE FrameFifo WITH Frames <- EFrames, Nothing <- ENone, q <- Unsent, got <- ewire

\* A frame the card received reaches the stack once, unchanged and in order: the
\* card never writes a descriptor whose frame is still to be collected (recv_frame
\* moves RDT to the descriptor it emptied).  The frames accepted by send_frame are
\* the card's to send, once, unchanged and in order, and the driver never writes
\* one that is still to be sent, up to the burst that fills the ring (send_frame
\* keeps no descriptor free): with it all the frames in the ring are lost to the
\* card, which sends nothing more, and send_frame answers QueueFull from then on.
\* Short of that burst a descriptor that is not done is one the card will send.
E1000InOrder ==
    /\ ERxFifo!Init /\ [][UNCHANGED evars \/ ERxFifo!Next]_<<Received, egot>>
    /\ ETxFifo!Init /\ [][UNCHANGED evars \/ ETxFifo!Next \/ Wedged']_<<Unsent, ewire>>
    /\ [][Wedged => Wedged' /\ UNCHANGED <<tail, ewire>>]_evars
    /\ [](Wedged \/ Len(Unsent) = Cardinality({i \in DOMAIN etx : ~etx[i].dd}))
=============================================================================
