------------------------------ MODULE NetStack ------------------------------
(***************************************************************************)
(* The state of NetworkSubsystem in kernel/src/net/mod.rs: the active      *)
(* network card, the DHCP lease and who may ask for one, the caches and    *)
(* the socket set.  Everything is a record n under the NET lock, and the   *)
(* operators take n to its next value; NetCalls interleaves the calls.     *)
(*                                                                         *)
(*   hw      the active card: NoNic, PciNic or the slot of a USB adapter   *)
(*   ready   the interface and the DHCP socket exist (set and cleared      *)
(*           together)                                                     *)
(*   cfg     the lease in use, 0 when there is none (network_config)       *)
(*   owner, gen          dhcp_owner and dhcp_generation                    *)
(*   pump    dhcp_auto_pump: active, generation, state, started            *)
(*   last, maint         the states of dhcp_last_attempt and of            *)
(*           read_only_maintenance                                         *)
(*   arp, dns            the leases under which cached entries were        *)
(*           learned (0: none)                                             *)
(*   socks   the handles in use in the socket set, the DHCP socket's apart *)
(*   dsock, lease        smoltcp's DHCP socket: its state and its lease    *)
(*   wire    DHCP_WIRE_TRACE: the messages seen, and the last one          *)
(*                                                                         *)
(* Addresses, timestamps, frame counts and the text of reports are left    *)
(* out; a deadline that has passed is an argument `late`.                  *)
(***************************************************************************)
EXTENDS Naturals, FiniteSets, FiniteSetsExt

CONSTANTS UsbSlots,   \* slots a USB network adapter can have
          MaxSockets  \* bound on the sockets in use: a call starts only with one free

NoNic == 0
PciNic == Max(UsbSlots) + 1
IsUsb(n) == n.hw \in UsbSlots

IdlePump == [active |-> FALSE, gen |-> 0, state |-> "idle", started |-> FALSE]
NewTrace == [seen |-> {}, last |-> "none"]

NewNet == [hw |-> NoNic, ready |-> FALSE, cfg |-> 0, owner |-> "none", gen |-> 0,
           pump |-> IdlePump, last |-> "idle", maint |-> "idle", arp |-> {}, dns |-> {},
           socks |-> {}, dsock |-> "none", lease |-> 0, wire |-> NewTrace]

\* A USB adapter's link always reads as up.
LinkUp(n, link) == n.hw # NoNic /\ (IsUsb(n) \/ link)

-----------------------------------------------------------------------------
(* Cards.                                                                  *)

ClearCaches(n) == [n EXCEPT !.arp = {}, !.dns = {}]

ResetRuntime(n) == [NewNet EXCEPT !.hw = n.hw, !.gen = n.gen]

\* The active USB adapter is dropped when the one the USB side reports is
\* another one, or gone.
SyncUsbNic(n, usb) ==
    IF ~IsUsb(n) \/ usb = n.hw THEN n ELSE [ResetRuntime(n) EXCEPT !.hw = NoNic]

PrepareStack(n) == [n EXCEPT !.ready = TRUE, !.dsock = "init"]

-----------------------------------------------------------------------------
(* The DHCP socket and the wire.                                           *)

See(w, message) == [seen |-> w.seen \cup {message}, last |-> message]

TimeoutState(w) ==
    IF "ack-received" \in w.seen THEN "timeout-after-ack"
    ELSE IF "request-sent" \in w.seen THEN "timeout-no-ack"
    ELSE IF "offer-received" \in w.seen THEN "timeout-offer-no-request"
    ELSE IF "discover-sent" \in w.seen THEN "timeout-no-offer" ELSE "timeout-no-discover"

TimeoutStates == {"timeout-after-ack", "timeout-no-ack", "timeout-offer-no-request",
                  "timeout-no-offer", "timeout-no-discover"}

\* What the wire can bring in one poll.
Traffic(n, up) ==
    {"quiet"} \cup (IF n.dsock = "bound" THEN {"expire"} ELSE {})
      \cup (IF ~up \/ ~n.ready THEN {}
            ELSE {"arp"} \cup CASE n.dsock = "init" -> {"discover", "offer"}
                                [] n.dsock = "dirty" -> {"discover"}
                                [] n.dsock = "requesting" -> {"ack", "nak"}
                                [] n.dsock = "bound" -> {"ack", "nak"})

\* smoltcp's DHCP client: an offer is answered with a request at once, an
\* acknowledgement binds, a refusal or the end of the lease starts over.
DhcpSocket(n, x, l) ==
    CASE x = "discover" -> [n EXCEPT !.dsock = "init", !.wire = See(@, "discover-sent")]
      [] x = "offer" -> [n EXCEPT !.dsock = "requesting",
                                  !.wire = See(See(@, "offer-received"), "request-sent")]
      [] x = "ack" -> [n EXCEPT !.dsock = "bound", !.lease = l, !.wire = See(@, "ack-received")]
      [] x = "nak" -> [n EXCEPT !.dsock = "init", !.lease = 0, !.wire = See(@, "nak-received")]
      [] x = "expire" -> [n EXCEPT !.dsock = "init", !.lease = 0]
      [] OTHER -> [n EXCEPT !.dsock = IF @ = "dirty" THEN "init" ELSE @]

ResetDhcpSocket(n) ==
    [n EXCEPT !.dsock = IF n.lease # 0 THEN "dirty" ELSE "init", !.lease = 0, !.wire = NewTrace]

ApplyDhcpEvent(n, l) == [ClearCaches(n) EXCEPT !.cfg = l]

\* One poll_network: the USB check, the traffic x with lease l, then the DHCP
\* event, if there is one, or the loss of the lease when the link is down.
PollNetwork(n, usb, link, x, l) ==
    LET s == SyncUsbNic(n, usb)
        up == LinkUp(s, link)
        h == IF x = "arp" THEN [s EXCEPT !.arp = @ \cup {s.cfg}] ELSE s
        d == DhcpSocket(h, x, l)
    IN CASE ~s.ready -> s
         [] s.ready /\ (d.lease # s.lease \/ s.dsock = "dirty") -> ApplyDhcpEvent(d, d.lease)
         [] s.ready /\ d.lease = s.lease /\ s.dsock # "dirty" ->
              IF ~up /\ d.cfg # 0 THEN ApplyDhcpEvent(d, 0) ELSE d

-----------------------------------------------------------------------------
(* Who may ask for a lease.                                                *)

SetDhcpOwner(n, owner) == [n EXCEPT !.owner = owner, !.gen = @ + 1]

BugClearDhcpOwner(n, owner, gen) ==
    IF n.owner = owner /\ n.gen = gen + 1 THEN [n EXCEPT !.owner = "none"] ELSE n

ClearDhcpOwner(n, owner, gen) ==
    IF n.owner = owner /\ n.gen = gen THEN [n EXCEPT !.owner = "none"] ELSE n

RetireAutoPump(n, state, report) ==
    ClearDhcpOwner([n EXCEPT !.last = IF n.pump.started /\ report THEN state ELSE @,
                             !.pump.active = FALSE, !.pump.state = state],
                   "auto", n.pump.gen)

ClaimManualOwner(n) ==
    LET q == IF n.owner = "auto" /\ n.pump.active THEN RetireAutoPump(n, "preempted-manual", FALSE)
                                                  ELSE [n EXCEPT !.pump = IdlePump]
    IN SetDhcpOwner([q EXCEPT !.maint = "manual-owner"], "manual")

BeginAutoPump(n, up, late) ==
    LET m == ResetDhcpSocket(SetDhcpOwner(n, "auto"))
    IN CASE n.cfg # 0 \/ n.hw = NoNic -> [n EXCEPT !.pump = IdlePump]
         [] n.cfg = 0 /\ n.hw # NoNic ->
              IF \/ ~up \/ ~n.ready \/ n.owner = "manual"
                 \/ n.pump.active /\ n.owner = "auto" /\ n.pump.gen = n.gen /\ ~late
              THEN n
              ELSE [m EXCEPT !.last = "in-progress",
                             !.pump = [active |-> TRUE, gen |-> m.gen,
                                       state |-> "lease-pending", started |-> TRUE]]

UpdateSnapshot(n) ==
    IF n.pump.started THEN [n EXCEPT !.pump.state = "lease-pending", !.last = "lease-pending"]
                      ELSE n

\* drive_dhcp_auto_pump before its loop: the state it ends with at once, or
\* "drive" when it goes on to poll.
DriveEntry(n, up, late) ==
    CASE ~n.pump.active -> "inactive"
      [] n.pump.active /\ (n.owner # "auto" \/ n.pump.gen # n.gen) -> "stale-ignored"
      [] n.pump.active /\ n.owner = "auto" /\ n.pump.gen = n.gen ->
           IF n.cfg # 0 THEN "lease-acquired"
           ELSE IF ~up \/ ~n.ready THEN "offline"
           ELSE IF late THEN TimeoutState(n.wire) ELSE "drive"

EndDrive(n, state) ==
    IF state = "inactive" THEN n ELSE RetireAutoPump(n, state, state # "stale-ignored")

\* The state of the lease that `net status` and the shell go by.
CanonicalState(n, up) ==
    CASE n.cfg # 0 -> "lease-acquired"
      [] n.cfg = 0 /\ (~up \/ ~n.ready) -> "offline"
      [] n.cfg = 0 /\ up /\ n.ready ->
           IF n.last \in TimeoutStates THEN n.last
           ELSE IF n.pump.state \in TimeoutStates THEN n.pump.state
           ELSE IF \/ n.owner # "none"
                   \/ n.pump.active
                   \/ n.pump.state = "lease-pending"
                   \/ n.last \in {"in-progress", "lease-pending"}
                   \/ n.maint = "lease-pending"
                   \/ n.wire.last \in {"discover-sent", "offer-received", "request-sent",
                                       "ack-received"}
                THEN "lease-pending" ELSE "offline"

\* service_read_only_maintenance before it polls: why it does nothing, or
\* that it goes on with the pump ("pump") or without ("poll").
MaintenanceEntry(n, up, trigger, cool) ==
    LET state == CanonicalState(n, up)
    IN CASE n.cfg # 0 -> "skipped-lease-active"
         [] n.cfg = 0 /\ n.hw = NoNic -> "skipped-no-hardware"
         [] n.cfg = 0 /\ n.hw # NoNic ->
              IF ~up THEN "skipped-link-down"
              ELSE IF ~n.ready THEN "skipped-iface-missing"
              ELSE IF n.owner = "manual" THEN "observer-manual-owner"
              ELSE IF IsUsb(n) /\ (\/ n.pump.active \/ n.owner = "auto"
                                   \/ trigger = "usb-attach" \/ state = "lease-pending")
                   THEN "pump"
              ELSE IF cool /\ state # "lease-pending" THEN "skipped-cooldown" ELSE "poll"

-----------------------------------------------------------------------------
(* Sockets.                                                                *)

\* smoltcp hands out the first free index.
NewHandle(n) == Min((1 .. MaxSockets) \ n.socks)
AddSocket(n) == [n EXCEPT !.socks = @ \cup {NewHandle(n)}]
RemoveSocket(n, h) == [n EXCEPT !.socks = @ \ {h}]

\* A destination can be reached with a lease on a link that is up.
RouteTo(n, link) == LinkUp(n, link) /\ n.cfg # 0

=============================================================================
