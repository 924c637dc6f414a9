----------------------------- MODULE VirtioNet -----------------------------
(***************************************************************************)
(* The virtio network card: the driver of net/virtio/net.rs on the two     *)
(* virtqueues of net/virtio/queue.rs, and the device at the other end of   *)
(* the shared memory.  Indices run modulo IndexSpan (2^16 in the code) and *)
(* select ring entries modulo QueueSize.                                   *)
(***************************************************************************)
EXTENDS Naturals, Sequences, SequencesExt, TLC

CONSTANTS QueueSize, IndexSpan, VFrames, VNone,
          VBound  \* frames received and not yet collected, a bound of the model

ASSUME VirtioAssumption ==
    /\ QueueSize \in Nat \ {0}
    /\ IndexSpan \in Nat \ {0}
    /\ IndexSpan % QueueSize = 0
    /\ IndexSpan > QueueSize
    /\ VNone \notin VFrames

VARIABLES vrx,     \* the receive queue
          vtx,     \* the transmit queue
          free,    \* tx_free
          pending, \* pending_rx
          vgot,    \* what recv_frame returned last
          vwire,   \* the frame the device put on the wire last
          held,    \* transmit descriptors the device has not given back
          runts    \* whether all the device received since it ran dry were runts

vvars == <<vrx, vtx, free, pending, vgot, vwire, held, runts>>

Ids == 0 .. QueueSize - 1
Indices == 0 .. IndexSpan - 1
Runt == "runt"                       \* a buffer used for no more than the header
VTooLarge == "too large"

Wrap(i) == i % IndexSpan
Between(from, to) == (to + IndexSpan - from) % IndexSpan

-----------------------------------------------------------------------------
(* The queue: avail/used rings with their free-running indices, `last` the *)
(* driver's last_used_idx, `seen` the device's place in the available      *)
(* ring, `kicked` whether the device has been notified and not yet gone    *)
(* back to sleep.                                                          *)

NewQueue ==
    [avail |-> [s \in Ids |-> 0], ai |-> 0, used |-> [s \in Ids |-> <<0, VNone>>],
     ui |-> 0, last |-> 0, seen |-> 0, kicked |-> FALSE]

AddAvailable(q, ids) ==
    LET Slot(i) == Wrap(q.ai + i - 1) % QueueSize
    IN [q EXCEPT !.avail = [s \in Ids |->
                     IF \E i \in DOMAIN ids : Slot(i) = s
                     THEN ids[CHOOSE i \in DOMAIN ids : Slot(i) = s]
                     ELSE q.avail[s]],
                 !.ai = Wrap(@ + Len(ids))]

\* What repeated calls of pop_used return until one finds nothing.
UsedElements(q) ==
    [i \in 1 .. Between(q.last, q.ui) |-> q.used[Wrap(q.last + i - 1) % QueueSize]]

PopUsed(q) == [q EXCEPT !.last = q.ui]

Notify(q) == [q EXCEPT !.kicked = TRUE]

-----------------------------------------------------------------------------
(* The driver.                                                             *)

ReclaimTx(q, fr) ==
    fr \o SelectSeq([i \in DOMAIN UsedElements(q) |-> UsedElements(q)[i][1]],
                    LAMBDA id : ~Contains(fr, id))

\* Mutant: the frame goes into the buffer of another descriptor.
BugSendFrameBuffer(f) ==
    LET q == PopUsed(vtx)
        fr == ReclaimTx(vtx, free)
        id == Last(fr)
        sends == fr # <<>> /\ f # VTooLarge
    IN  /\ vtx' = IF sends
                  THEN Notify(AddAvailable([q EXCEPT !.buf[Head(fr)] = f], <<id>>))
                  ELSE q
        /\ free' = IF sends THEN Front(fr) ELSE fr
        /\ UNCHANGED <<vrx, pending, vgot, vwire, held, runts>>

\* send_frame: a frame too large for the buffer gives the descriptor back.
SendFrame(f) ==
    LET q == PopUsed(vtx)
        fr == ReclaimTx(vtx, free)
        id == Last(fr)
        sends == fr # <<>> /\ f # VTooLarge
    IN  /\ vtx' = IF sends
                  THEN Notify(AddAvailable([q EXCEPT !.buf[id] = f], <<id>>))
                  ELSE q
        /\ free' = IF sends THEN Front(fr) ELSE fr
        /\ UNCHANGED <<vrx, pending, vgot, vwire, held, runts>>

\* poll: every used buffer is emptied and offered again; the device hears of
\* it when at least one frame came.
Poll(q) ==
    LET es == UsedElements(q)
        frames == SelectSeq([i \in DOMAIN es |-> es[i][2]], LAMBDA f : f # Runt)
        again == AddAvailable(PopUsed(q), [i \in DOMAIN es |-> es[i][1]])
    IN [frames |-> frames, queue |-> IF frames = <<>> THEN again ELSE Notify(again)]

RecvFrame ==
    LET p == Poll(vrx)
        all == pending \o p.frames
    IN  /\ vrx' = p.queue
        /\ vgot' = IF all = <<>> THEN VNone ELSE Head(all)
        /\ pending' = IF all = <<>> THEN all ELSE Tail(all)
        /\ vtx' = PopUsed(vtx)
        /\ free' = ReclaimTx(vtx, free)
        /\ UNCHANGED <<vwire, held, runts>>

-----------------------------------------------------------------------------
(* The device.                                                             *)

Use(q, id, f) ==
    [q EXCEPT !.used[q.ui % QueueSize] = <<id, f>>, !.ui = Wrap(@ + 1)]

\* The device takes the next transmit buffer; it gives buffers back in any
\* order.
DeviceSends ==
    /\ vtx.kicked /\ vtx.seen # vtx.ai
    /\ LET id == vtx.avail[vtx.seen % QueueSize]
       IN  /\ held' = held \cup {id}
           /\ vwire' = vtx.buf[id]
    /\ vtx' = [vtx EXCEPT !.seen = Wrap(@ + 1)]
    /\ UNCHANGED <<vrx, free, pending, vgot, runts>>

DeviceGivesBack ==
    /\ \E id \in held : held' = held \ {id} /\ vtx' = Use(vtx, id, VNone)
    /\ UNCHANGED <<vrx, free, pending, vgot, vwire, runts>>

DeviceReceives(f) ==
    /\ vrx.kicked /\ vrx.seen # vrx.ai
    /\ Len(pending) + Between(vrx.last, vrx.ui) < VBound
    /\ vrx' = [Use(vrx, vrx.avail[vrx.seen % QueueSize], f) EXCEPT !.seen = Wrap(@ + 1)]
    /\ runts' = (runts /\ f = Runt)
    /\ UNCHANGED <<vtx, free, pending, vgot, vwire, held>>

\* With nothing left to take the device waits for a notification.
DeviceSleeps ==
    \/ /\ vtx.kicked /\ vtx.seen = vtx.ai
       /\ vtx' = [vtx EXCEPT !.kicked = FALSE]
       /\ UNCHANGED <<vrx, free, pending, vgot, vwire, held, runts>>
    \/ /\ vrx.kicked /\ vrx.seen = vrx.ai
       /\ vrx' = [vrx EXCEPT !.kicked = FALSE]
       /\ runts' = \A i \in DOMAIN UsedElements(vrx) : UsedElements(vrx)[i][2] = Runt
       /\ UNCHANGED <<vtx, free, pending, vgot, vwire, held>>

-----------------------------------------------------------------------------
\* init, prime_rx_queue and prime_tx_queue: all receive buffers are offered,
\* all transmit descriptors are free.
VirtioInit ==
    /\ vrx = Notify(AddAvailable(NewQueue, [i \in 1 .. QueueSize |-> i - 1]))
    /\ vtx = NewQueue @@ [buf |-> [id \in Ids |-> VNone]]
    /\ free = [i \in 1 .. QueueSize |-> i - 1]
    /\ pending = <<>> /\ vgot = VNone /\ vwire = VNone /\ held = {} /\ runts = TRUE

VirtioNext ==
    \/ \E f \in VFrames \cup {VTooLarge} : SendFrame(f)
    \/ RecvFrame
    \/ DeviceSends \/ DeviceGivesBack \/ DeviceSleeps
    \/ \E f \in VFrames \cup {Runt} : DeviceReceives(f)

-----------------------------------------------------------------------------
\* The frames in a queue that the driver has still to see.
RxInTransit ==
    pending \o SelectSeq([i \in DOMAIN UsedElements(vrx) |-> UsedElements(vrx)[i][2]],
                         LAMBDA f : f # Runt)

Offered(q) == [i \in 1 .. Between(q.seen, q.ai) |-> q.avail[Wrap(q.seen + i - 1) % QueueSize]]

TxInTransit == [i \in DOMAIN Offered(vtx) |-> vtx.buf[Offered(vtx)[i]]]

Rx == INSTANCE FrameFifo WITH Frames <- VFrames, Nothing <- VNone, q <- RxInTransit, got <- vgot
Tx == INSTANCE FrameFifo WITH Frames <- VFrames, Nothing <- VNone, q <- TxInTransit, got <- vwire

\* A frame the device received reaches the stack, and a frame handed to
\* send_frame the wire, once, unchanged and in order, however the free-running
\* indices wrap and whatever the device makes of its buffers' order: no
\* descriptor is reused while the device still reads its buffer (recv_frame,
\* poll, pop_used, send_frame, reclaim_tx_descriptors).
VirtioInOrder ==
    /\ Rx!Init /\ [][UNCHANGED vvars \/ Rx!Next]_<<RxInTransit, vgot>>
    /\ Tx!Init /\ [][UNCHANGED vvars \/ Tx!Next]_<<TxInTransit, vwire>>
=============================================================================
