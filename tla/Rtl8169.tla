------------------------------ MODULE Rtl8169 ------------------------------
(***************************************************************************)
(* The Realtek card: hal/net/rtl8169.rs.  Its rings end where a descriptor *)
(* carries the end-of-ring mark, ownership is a bit in the descriptor, the *)
(* card sends only after it was poked, and the driver brings the wired     *)
(* link up, at first in init, later from the poll at the start of every    *)
(* call.  Reads of the PHY are taken as right, its writes may time out.    *)
(***************************************************************************)
EXTENDS Naturals, Sequences, SequencesExt, FiniteSets

CONSTANTS RTx, RRx,     \* NUM_TX_DESCS, NUM_RX_DESCS
          RFrames, RNone,
          RetryTicks,   \* AUTONEG_RETRY_INTERVAL_MS in ticks
          StallTicks    \* 500 ms in ticks

ASSUME RtlAssumption ==
    /\ RTx \in Nat \ {0} /\ RRx \in Nat \ {0}
    /\ RetryTicks \in Nat \ {0} /\ StallTicks \in Nat /\ RNone \notin RFrames

VARIABLES rtl,   \* the driver and the registers and rings it shares with the card
          cable, \* whether the PHY reports a link
          rgot,  \* what recv_frame returned last
          rwire  \* the frame sent last

rvars == <<rtl, cable, rgot, rwire>>

RBad == "bad"             \* received with errors, split, or shorter than its CRC
RTooLarge == "too large"
-----------------------------------------------------------------------------
(* Bringing the card up.                                                   *)

Ring(n, own) == [i \in 0 .. n - 1 |-> [own |-> own, eor |-> i = n - 1, frame |-> RNone]]

NoCard ==
    [state |-> "none", tx |-> Ring(RTx, FALSE), tail |-> 0, sending |-> 0, poked |-> FALSE,
     rx |-> Ring(RRx, TRUE), head |-> 0, receiving |-> 0, on |-> FALSE, isr |-> {},
     phy |-> "down", lastUp |-> FALSE, changes |-> 0, age |-> 0,
     sent |-> FALSE, txAge |-> 0]

\* write_phy: the write is done, or times out.
WritePhy(r, mode) == {[r EXCEPT !.phy = mode], r}

\* restart_autoneg; the tick is taken only when the write went through.
RestartAutoneg(r) == {[r EXCEPT !.phy = "autoneg", !.age = 0], r}

\* The driver finds a link within its timeout, or does not: the cable may be
\* plugged in at any moment of the wait.
LinkOutcomes == IF cable THEN {TRUE} ELSE {TRUE, FALSE}

\* init, reset, configure_phy, configure, configure_interrupts: a timeout of
\* the reset, or of a PHY write before the link comes up, fails the probe.
Bring ==
    /\ rtl.state = "none"
    /\ \/ rtl' = [rtl EXCEPT !.state = "failed"] /\ UNCHANGED cable
       \/ \E up \in LinkOutcomes, mode \in {"autoneg", "forced"} :
              /\ mode = "forced" => up
              /\ cable' = up
              /\ rtl' = [rtl EXCEPT !.state = "ready", !.on = TRUE, !.phy = mode,
                                    !.lastUp = up, !.age = 0]
    /\ UNCHANGED <<rgot, rwire>>

-----------------------------------------------------------------------------
(* poll: the interrupt status, then the link.                              *)

ServiceInterrupts(r) ==
    [r EXCEPT !.isr = {}, !.on = @ \/ "system-error" \in r.isr]

Wake(r) ==
    IF r.phy = "down" THEN {r} \cup {[r EXCEPT !.phy = mode] : mode \in {"autoneg", "forced"}} ELSE {r}

\* The number of the attempt, of which refresh_link_state uses the parity.
Attempt(r) == r.changes + (r.age \div RetryTicks)

Retry(r) ==
    {[w EXCEPT !.age = 0] :
        w \in UNION {IF Attempt(r) % 2 = 1 THEN WritePhy(v, "forced") ELSE RestartAutoneg(v)
                      : v \in Wake(r)}}

RefreshLinkState(r) ==
    IF cable # r.lastUp
    THEN {[r EXCEPT !.changes = 1 - @, !.lastUp = cable, !.on = @ \/ cable]}
    ELSE IF ~cable /\ r.age >= RetryTicks THEN Retry(r) ELSE {r}

PollCard == RefreshLinkState(ServiceInterrupts(rtl))

-----------------------------------------------------------------------------
(* The card.                                                               *)

NextIn(ring, i) == IF ring[i].eor THEN 0 ELSE i + 1

CanSend(r) == r.on /\ r.poked /\ cable /\ r.tx[r.sending].own

\* The card sends the descriptor it is at and goes idle behind the last.
Sends(r) ==
    LET next == NextIn(r.tx, r.sending)
    IN [r EXCEPT !.tx[r.sending].own = FALSE, !.sending = next,
                 !.poked = r.tx[next].own /\ next # r.sending]

RtlCardSends ==
    /\ rtl.state = "ready" /\ CanSend(rtl)
    /\ rwire' = rtl.tx[rtl.sending].frame
    /\ rtl' = Sends(rtl)
    /\ UNCHANGED <<cable, rgot>>

RtlCardReceives(f) ==
    /\ rtl.state = "ready" /\ rtl.on /\ cable /\ rtl.rx[rtl.receiving].own
    /\ rtl' = [rtl EXCEPT !.rx[rtl.receiving].own = FALSE, !.rx[rtl.receiving].frame = f,
                          !.receiving = NextIn(rtl.rx, rtl.receiving)]
    /\ UNCHANGED <<cable, rgot, rwire>>

\* A bus error: the card stops both directions.
SystemError ==
    /\ rtl.state = "ready" /\ rtl.on
    /\ rtl' = [rtl EXCEPT !.isr = @ \cup {"system-error"}, !.on = FALSE]
    /\ UNCHANGED <<cable, rgot, rwire>>

\* The cable is pulled or plugged in; firmware puts the PHY to sleep.
LinkChange ==
    /\ rtl.state = "ready"
    /\ \/ cable' = ~cable /\ (cable \/ rtl.phy # "down")
          /\ rtl' = [rtl EXCEPT !.isr = @ \cup {"link-change"}]
       \/ rtl.phy # "down" /\ cable' = FALSE
          /\ rtl' = [rtl EXCEPT !.phy = "down", !.isr = @ \cup {"link-change"}]
    /\ UNCHANGED <<rgot, rwire>>

RtlTick ==
    /\ rtl.state = "ready"
    /\ rtl' = [rtl EXCEPT !.age = IF @ = 2 * RetryTicks THEN @ ELSE @ + 1,
                          !.txAge = IF rtl.sent /\ @ <= StallTicks THEN @ + 1 ELSE @]
    /\ UNCHANGED <<cable, rgot, rwire>>

-----------------------------------------------------------------------------
(* The calls of the network stack.                                         *)

\* Mutant: the stalled descriptor is taken back as well.
BugCheckTxStall(r) ==
    IF r.sent /\ r.txAge > StallTicks
    THEN [r EXCEPT !.on = TRUE, !.tx[r.tail].own = FALSE, !.poked = TRUE, !.txAge = 0]
    ELSE r

\* check_tx_stall: enable the datapath again and poke the card.
CheckTxStall(r) ==
    IF r.sent /\ r.txAge > StallTicks THEN [r EXCEPT !.on = TRUE, !.poked = TRUE, !.txAge = 0]
    ELSE r

Queue(r, f) ==
    [r EXCEPT !.tx[r.tail] = [own |-> TRUE, eor |-> r.tail + 1 = RTx, frame |-> f],
              !.tail = (@ + 1) % RTx, !.sent = TRUE, !.txAge = 0, !.poked = TRUE]

\* send_frame: blocked without a link; with the descriptor still owned by the
\* card the stall check runs.  A card that gives the descriptor back right
\* then is taken to do so before the next call.
RtlSend(f) ==
    /\ rtl.state = "ready"
    /\ \E r \in PollCard :
          \/ /\ ~cable \/ (~r.tx[r.tail].own /\ f = RTooLarge)
             /\ rtl' = r
          \/ /\ cable /\ ~r.tx[r.tail].own /\ f # RTooLarge
             /\ rtl' = Queue(r, f)
          \/ /\ cable /\ r.tx[r.tail].own
             /\ rtl' = CheckTxStall(r)
    /\ UNCHANGED <<cable, rgot, rwire>>

\* The emptied descriptor as the card gets it back.
GiveBack(r) ==
    [r EXCEPT !.rx[r.head].own = TRUE, !.rx[r.head].eor = (r.head + 1 = RRx),
              !.head = (@ + 1) % RRx]

RtlRecv ==
    /\ rtl.state = "ready"
    /\ \E r \in PollCard :
          LET d == r.rx[r.head]
          IN  /\ rgot' = IF ~d.own /\ d.frame # RBad THEN d.frame ELSE RNone
              /\ rtl' = IF d.own THEN r ELSE GiveBack(r)
    /\ UNCHANGED <<cable, rwire>>

\* force_retry, from `net retry`: wake, negotiate, force 100M, negotiate
\* again in the background.
ForceRetry ==
    /\ rtl.state = "ready"
    /\ \E v \in Wake(rtl), up \in LinkOutcomes :
          LET on == [v EXCEPT !.on = TRUE]
          IN  /\ cable' = up
              /\ up => \E w \in RestartAutoneg(on) \cup UNION {WritePhy(u, "forced") : u \in RestartAutoneg(on)} :
                           rtl' = [w EXCEPT !.lastUp = TRUE]
              /\ ~up => \E u \in RestartAutoneg(on) : \E w \in WritePhy(u, "forced") : rtl' \in RestartAutoneg(w)
    /\ UNCHANGED <<rgot, rwire>>

RtlInit == rtl = NoCard /\ cable \in BOOLEAN /\ rgot = RNone /\ rwire = RNone

RtlDriver ==
    \/ Bring \/ RtlRecv \/ ForceRetry
    \/ \E f \in RFrames \cup {RTooLarge} : RtlSend(f)

RtlNext ==
    \/ RtlDriver
    \/ RtlCardSends \/ SystemError \/ LinkChange \/ RtlTick
    \/ \E f \in RFrames \cup {RBad} : RtlCardReceives(f)

-----------------------------------------------------------------------------
RingRun(ring, from, Test(_)) ==
    LET n == Cardinality(DOMAIN ring)
        length == CHOOSE k \in 0 .. n :
                      /\ \A j \in 0 .. k - 1 : Test(ring[(from + j) % n])
                      /\ k < n => ~Test(ring[(from + k) % n])
    IN [i \in 1 .. length |-> ring[(from + i - 1) % n].frame]

RReceived == SelectSeq(RingRun(rtl.rx, rtl.head, LAMBDA d : ~d.own), LAMBDA f : f # RBad)
RUnsent == RingRun(rtl.tx, rtl.sending, LAMBDA d : d.own)

RRxFifo == INSTANCE FrameFifo WITH Frames <- RFrames, Nothing <- RNone, q <- RReceived, got <- rgot
RTxFifo == INSTANCE FrameFifo WITH Frames <- RFrames, Nothing <- RNone, q <- RUnsent, got <- rwire

\* A frame the card received reaches the stack, and a frame send_frame accepted
\* the wire, once, unchanged and in order, across stalls, link losses and
\* retries: the descriptors recv_frame gives back keep the end-of-ring mark, so
\* the card and the driver wrap at the same place.
RtlInOrder ==
    /\ RRxFifo!Init /\ [][UNCHANGED rvars \/ RRxFifo!Next]_<<RReceived, rgot>>
    /\ RTxFifo!Init /\ [][UNCHANGED rvars \/ RTxFifo!Next]_<<RUnsent, rwire>>
=============================================================================
