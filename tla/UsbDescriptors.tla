--------------------------- MODULE UsbDescriptors ---------------------------
(***************************************************************************)
(* What the USB stack reads out of a device's descriptors                  *)
(* (kernel/src/hal/usb/descriptors.rs and the classification helpers of    *)
(* xhci.rs): the interfaces of a configuration, the category of the        *)
(* device, the pair of interfaces a network function is driven through,    *)
(* and how the port is shown to the user.  Class, subclass and protocol    *)
(* triples are abstracted to the kinds the predicates tell apart, and an   *)
(* endpoint to its direction and transfer type.                            *)
(***************************************************************************)
EXTENDS Naturals, Sequences, SequencesExt, FiniteSets

Kinds == {"boot_keyboard", "boot_mouse", "hid", "scsi_bulk", "storage",
          "ecm", "ncm", "rndis", "eem", "cdc_data", "ptp", "adb", "vendor",
          "other"}

Endpoints == {"bulk_in", "bulk_out", "interrupt_in", "interrupt_out"}

\* The class predicates of UsbInterface.
IsHid(i) == i.kind \in {"boot_keyboard", "boot_mouse", "hid"}
IsMassStorage(i) == i.kind \in {"scsi_bulk", "storage"}
IsNetwork(i) == i.kind \in {"ecm", "ncm", "rndis", "eem"}
IsVendorSpecific(i) == i.kind \in {"adb", "vendor"}
HasBulk(i) == {"bulk_in", "bulk_out"} \subseteq i.eps

AnyOf(ifs, P(_)) == \E k \in DOMAIN ifs : P(ifs[k])
AnyKind(ifs, K) == \E k \in DOMAIN ifs : ifs[k].kind \in K

(***************************************************************************)
(* parse_configuration_descriptors: the descriptors behind the nine-byte   *)
(* header, in order.  An interface descriptor opens an interface; an       *)
(* endpoint descriptor belongs to the last interface opened and is skipped *)
(* when there is none; anything too short for its type is skipped; a       *)
(* descriptor whose length leaves the blob ends the walk.                  *)
(***************************************************************************)
BeforeBadLength(raw) ==
    LET bad == {k \in DOMAIN raw : raw[k].t = "bad_length"}
    IN  IF bad = {} THEN raw
        ELSE SubSeq(raw, 1, (CHOOSE k \in bad : \A j \in bad : k <= j) - 1)

AddDescriptor(ifs, x) ==
    CASE x.t = "interface" ->
             Append(ifs, [number |-> x.number, alt |-> x.alt,
                          kind |-> x.kind, eps |-> {}])
      [] x.t = "endpoint" /\ ifs # <<>> ->
             [ifs EXCEPT ![Len(ifs)].eps = @ \cup {x.ep}]
      [] OTHER -> ifs

ParseConfiguration(raw) ==
    FoldLeft(AddDescriptor, <<>>, BeforeBadLength(raw))

\* classify_device: the device class decides first, then the interfaces.
ClassifyDevice(cls, ifs) ==
    CASE cls = "comm" ->
             IF AnyOf(ifs, IsNetwork) THEN "Network" ELSE "UsbDevice"
      [] cls = "hid" -> "Input"
      [] cls = "storage" -> "Storage"
      [] cls = "hub" -> "UsbDevice"
      [] cls \in {"wireless", "misc"} ->
             IF AnyKind(ifs, {"rndis"}) THEN "Network" ELSE "UsbDevice"
      [] OTHER ->
             CASE AnyOf(ifs, IsNetwork) -> "Network"
               [] AnyOf(ifs, IsHid) -> "Input"
               [] AnyOf(ifs, IsMassStorage) -> "Storage"
               [] OTHER -> "UsbDevice"

\* The first pair <<control, data>> in the order of the two nested loops.
FirstPair(pairs) ==
    CHOOSE p \in pairs :
        \A q \in pairs : p[1] < q[1] \/ (p[1] = q[1] /\ p[2] <= q[2])

\* The data interfaces an RNDIS control interface is matched with; the
\* control interface itself stands in when it carries the bulk endpoints.
RndisData(ifs, c) ==
    LET near == {k \in DOMAIN ifs :
                    /\ ifs[k].kind = "cdc_data" /\ HasBulk(ifs[k])
                    /\ \/ ifs[k].number \in {ifs[c].number, ifs[c].number + 1}
                       \/ k = c + 1}
    IN  IF near # {} THEN near ELSE IF HasBulk(ifs[c]) THEN {c} ELSE {}

Pairs(ifs, proto) ==
    IF proto = "rndis"
    THEN {<<c, k>> \in (DOMAIN ifs) \X (DOMAIN ifs) :
             /\ ifs[c].kind = "rndis" /\ "interrupt_in" \in ifs[c].eps
             /\ k \in RndisData(ifs, c)}
    ELSE {<<c, k>> \in (DOMAIN ifs) \X (DOMAIN ifs) :
             ifs[c].kind = proto /\ ifs[k].kind = "cdc_data" /\ HasBulk(ifs[k])}

RndisControlSeen(ifs) ==
    \E c \in DOMAIN ifs :
        ifs[c].kind = "rndis" /\ "interrupt_in" \in ifs[c].eps

NoPair == [proto |-> "none", ctrl |-> 0, data |-> 0]

(***************************************************************************)
(* find_network_interfaces: RNDIS before CDC-ECM before CDC-NCM; an RNDIS  *)
(* control interface without a usable data interface ends the search.      *)
(***************************************************************************)
FindNetworkInterfaces(ifs) ==
    LET Take(proto) == LET p == FirstPair(Pairs(ifs, proto))
                       IN  [proto |-> proto, ctrl |-> p[1], data |-> p[2]]
    IN  CASE Pairs(ifs, "rndis") # {} -> Take("rndis")
          [] Pairs(ifs, "rndis") = {} /\ RndisControlSeen(ifs) -> NoPair
          [] ~RndisControlSeen(ifs) /\ Pairs(ifs, "ecm") # {} -> Take("ecm")
          [] ~RndisControlSeen(ifs) /\ Pairs(ifs, "ecm") = {}
                /\ Pairs(ifs, "ncm") # {} -> Take("ncm")
          [] OTHER -> NoPair

\* configure_hid drives the first boot keyboard or mouse, if its interrupt
\* endpoint is there.
HidInterface(ifs) ==
    LET boot == {k \in DOMAIN ifs :
                    ifs[k].kind \in {"boot_keyboard", "boot_mouse"}}
        first == CHOOSE k \in boot : \A j \in boot : k <= j
    IN  IF boot # {} /\ "interrupt_in" \in ifs[first].eps THEN first ELSE 0

\* configure_mass_storage takes the first SCSI bulk-only interface.
StorageInterface(ifs) ==
    LET bot == {k \in DOMAIN ifs : ifs[k].kind = "scsi_bulk"}
        first == CHOOSE k \in bot : \A j \in bot : k <= j
    IN  IF bot # {} /\ HasBulk(ifs[first]) THEN first ELSE 0

\* classify_port_visibility.
Visibility(cat, ifs, ready) ==
    CASE ready -> "NetworkReady"
      [] ~ready /\ (AnyOf(ifs, IsNetwork) \/ AnyKind(ifs, {"cdc_data"})) ->
             "NetworkCandidate"
      [] OTHER ->
             CASE AnyKind(ifs, {"adb"}) -> "PhoneAdb"
               [] ~AnyKind(ifs, {"adb"}) /\ AnyKind(ifs, {"ptp"}) -> "PhoneMedia"
               [] ~AnyKind(ifs, {"adb", "ptp"}) /\ AnyOf(ifs, IsVendorSpecific) ->
                      "VendorSpecific"
               [] OTHER -> IF cat \in {"Input", "Storage"} THEN cat ELSE "Generic"

(***************************************************************************)
(* infer_attach_state.  A probe error makes any device without a CDC-EEM   *)
(* interface a candidate.                                                  *)
(***************************************************************************)
InferAttachState(ifs, ready, probeError) ==
    CASE ready -> "Ready"
      [] ~ready /\ AnyKind(ifs, {"eem"}) -> "Unsupported"
      [] ~ready /\ ~AnyKind(ifs, {"eem"})
            /\ (probeError \/ AnyOf(ifs, IsNetwork) \/ AnyKind(ifs, {"cdc_data"})) ->
             "Candidate"
      [] OTHER -> IF AnyOf(ifs, IsVendorSpecific) \/ AnyKind(ifs, {"ptp"})
                  THEN "Unsupported" ELSE "NotApplicable"

\* What enumerate_device stores: for a device without a network function it
\* infers the state a second time, passing the first reason as the error.
AttachState(ifs, ready) == InferAttachState(ifs, ready, ~ready)

\* The key of best_usb_network_candidate, highest first; 0 is filtered out.
AttachRank(attach, visibility) ==
    CASE attach = "Ready" -> 5
      [] attach = "Candidate" -> 4
      [] attach = "Unsupported" ->
             CASE visibility = "NetworkCandidate" -> 3
               [] visibility \in {"PhoneMedia", "PhoneAdb"} -> 2
               [] visibility = "VendorSpecific" -> 1
               [] OTHER -> 0
      [] OTHER -> IF visibility \in {"PhoneMedia", "PhoneAdb"} THEN 1 ELSE 0

=============================================================================
