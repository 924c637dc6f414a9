----------------------------- MODULE MCDevices ------------------------------
(***************************************************************************)
(* The device side of the kernel, checked as a sum: the USB controller and *)
(* its devices, the calls of the network stack, and the rings of the       *)
(* network cards.  A behaviour is about one part.                          *)
(***************************************************************************)
EXTENDS Xhci, NetCalls, VirtioNet, E1000, Rtl8169, Parts

-----------------------------------------------------------------------------
(* A USB controller with two root ports.  A keyboard, an RNDIS telephone   *)
(* whose ep0 packet size has to be corrected, and a disk.                  *)

If(n, alt, kind, eps) == [number |-> n, alt |-> alt, kind |-> kind, eps |-> eps]

MCInterfaces(dev) ==
    CASE dev = "keyboard" -> <<If(0, 0, "boot_keyboard", {"interrupt_in"})>>
      [] dev = "phone" -> <<If(0, 0, "rndis", {"interrupt_in"}),
                            If(1, 1, "cdc_data", {"bulk_in", "bulk_out"})>>
      [] dev = "disk" -> <<If(0, 0, "scsi_bulk", {"bulk_in", "bulk_out"})>>

MCAllInterfaces == [dev \in Devices |-> MCInterfaces(dev)]
MCClass == [dev \in Devices |-> IF dev = "phone" THEN "wireless" ELSE "perinterface"]

-----------------------------------------------------------------------------
(* Three parts of NetCalls: who owns DHCP, with every call that touches    *)
(* it; the calls that use sockets, from the state in which the pump has    *)
(* just acquired a lease on a USB adapter, without the two rules that let  *)
(* an echo out; and lookups and echoes on a PCI card while the rules       *)
(* change and time passes.                                                 *)

MCSlots == {1, 2}
MCLeases == {1, 2}
MCPorts == {49152}
MCRuleChanges == {Rule(0, "in", "tcp", AnyPort, action) : action \in {"allow", "deny"}}
MCRemovable == {4, 5}

\* What acquiring lease 1 leaves on a card.
Leased(card) ==
    LET messages == {"discover-sent", "offer-received", "request-sent", "ack-received"}
        n == [NewNet EXCEPT !.hw = card, !.ready = TRUE, !.cfg = 1, !.lease = 1, !.dsock = "bound",
                            !.gen = 1, !.last = "lease-acquired",
                            !.wire = [seen |-> messages, last |-> "ack-received"]]
    IN IF card = PciNic THEN [n EXCEPT !.maint = "manual-owner"]
       ELSE [n EXCEPT !.maint = "lease-acquired",
                      !.pump = [active |-> FALSE, gen |-> 1, state |-> "lease-acquired", started |-> TRUE]]

Bare == RemoveRule(RemoveRule(NewGuard, 4), 5)

NetPartsInit ==
    \/ Init /\ about = "dhcp"
    \/ /\ \/ about = "sockets" /\ net = Leased(1) /\ fw = Bare
          \/ about = "rules" /\ net = Leased(PciNic) /\ fw = NewGuard
       /\ usb = 1 /\ link = TRUE /\ port = Min(LocalPorts) /\ call = NoCall /\ ret = "ok"

NetAtRest == Init /\ link = TRUE

\* Bound: the server gives one address where only its ownership matters.
NetPartsNext ==
    \/ about = "dhcp" /\ (DhcpNext \/ WorldNext) /\ net'.lease # 2
    \/ about = "sockets" /\ (RuntimePoll \/ SocketNext \/ WorldNext)
    \/ about = "rules" /\ (LookupHost \/ PingHost \/ DnsStep \/ ArpStep \/ EchoStep \/ GuardNext)

-----------------------------------------------------------------------------
(* The rings that drivers share with their devices: one card and one       *)
(* direction moves.  The Realtek card keeps its link handling in both      *)
(* directions.                                                             *)

ringvars == <<vvars, evars, rvars>>

RingsInit ==
    /\ VirtioInit /\ E1000Init /\ RtlInit
    /\ about \in {"virtio-rx", "virtio-tx", "e1000", "rtl-rx", "rtl-tx"}
    /\ about \in {"rtl-rx", "rtl-tx"} \/ cable

RingsAtRest == VirtioInit /\ E1000Init /\ RtlInit /\ cable

VirtioMoves ==
    \/ about = "virtio-rx" /\ (\/ RecvFrame \/ DeviceSleeps
                               \/ \E f \in VFrames \cup {Runt} : DeviceReceives(f))
    \/ about = "virtio-tx" /\ (\/ RecvFrame \/ DeviceSleeps \/ DeviceSends \/ DeviceGivesBack
                               \/ \E f \in VFrames \cup {VTooLarge} : SendFrame(f))

RtlMoves ==
    \/ Bring \/ ForceRetry \/ SystemError \/ LinkChange
    \/ about = "rtl-rx" /\ (RtlRecv \/ \E f \in RFrames \cup {RBad} : RtlCardReceives(f))
    \/ about = "rtl-tx" /\ (\/ RtlCardSends \/ RtlTick
                            \/ \E f \in RFrames \cup {RTooLarge} : RtlSend(f))

RingsNext ==
    \/ VirtioMoves /\ UNCHANGED <<evars, rvars>>
    \/ about = "e1000" /\ E1000Next /\ UNCHANGED <<vvars, rvars>>
    \/ about \in {"rtl-rx", "rtl-tx"} /\ RtlMoves /\ UNCHANGED <<vvars, evars>>

-----------------------------------------------------------------------------
(* The sum.                                                                *)

\* Any device at the first port at power-on, nothing or a keyboard at the second.
AtPowerOn == XhciInit /\ DeviceAt(2) \in {None, "keyboard"}
XhciAtRest == XhciInit /\ ~Connected(1) /\ ~Connected(2)

DevicesInit ==
    \/ about = "usb" /\ AtPowerOn /\ NetAtRest /\ RingsAtRest
    \/ NetPartsInit /\ XhciAtRest /\ RingsAtRest
    \/ RingsInit /\ XhciAtRest /\ NetAtRest

DevicesNext ==
    /\ UNCHANGED about
    /\ \/ about = "usb" /\ XhciNext /\ UNCHANGED <<vars, ringvars>>
       \/ NetPartsNext /\ UNCHANGED <<xhcivars, ringvars>>
       \/ RingsNext /\ UNCHANGED <<xhcivars, vars>>

DevicesSpec == DevicesInit /\ [][DevicesNext]_<<about, xhcivars, vars, ringvars>>
=============================================================================
