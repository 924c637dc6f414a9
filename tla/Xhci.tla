-------------------------------- MODULE Xhci --------------------------------
(***************************************************************************)
(* The xHCI driver (kernel/src/hal/usb/xhci.rs, usb/mod.rs): one           *)
(* controller with its root ports, its device slots and its event ring,    *)
(* and the driver that scans the ports, enumerates the devices and serves  *)
(* their transfers.                                                        *)
(*                                                                         *)
(* The driver runs under the XHCI_CONTROLLERS mutex, so its operations do  *)
(* not interleave with each other; they do interleave with the hardware.   *)
(* Every place where the code spins on the event ring is a step of its     *)
(* own: the step takes the events queued so far by the rule of that wait   *)
(* and ends with the answer, an error, a timeout or, in a budgeted         *)
(* catch-up, the end of the budget.                                        *)
(***************************************************************************)
EXTENDS UsbDescriptors, FiniteSetsExt

CONSTANTS
    NPorts,          \* root ports
    NSlots,          \* device slots of the controller
    Devices,         \* what may be plugged in
    DeviceClass,     \* the class byte of each device
    Interfaces,      \* the interfaces of each device
    EvaluatesEp0,    \* the devices whose ep0 packet size has to be corrected
    EventsPerPoll,   \* MAX_EVENTS_PER_POLL
    MaxEvents,       \* bound on the events queued by the hardware
    MaxLate,         \* bound on the commands outstanding after a timeout
    MaxFaults        \* bound on plugs, unplugs, port changes and failures

Ports == 1 .. NPorts
Slots == 1 .. NSlots
Attempts == 3
None == "none"

VARIABLES
    usbPort,      \* hardware: the device at a port, enabled, change bits
    hwslot,    \* hardware: state and port of each slot
    late,      \* hardware: commands the driver no longer waits for
    evq,       \* the event ring
    faults,    \* disturbances so far
    m,         \* driver: slots, armed transfers, pending_port_rescan; orphans are
               \* the slots the controller keeps after the driver let them go
    ports,     \* driver: the port statuses
    scan,      \* driver: the scan in progress
    registry,  \* the active USB children in DEVICES
    nic        \* the slot the network stack sends through

hw == <<usbPort, hwslot, late, faults>>
xhcivars == <<usbPort, hwslot, late, evq, faults, m, ports, scan, registry, nic>>

Free == [port |-> 0, addressed |-> FALSE, cls |-> "none", flight |-> FALSE]
Absent == [slot |-> 0, configured |-> FALSE, driver |-> "absent",
           attach |-> "NotApplicable", n |-> 0]
Visible(driver) == [Absent EXCEPT !.driver = driver]
NoPorts == [p \in Ports |-> Absent]
UsbIdle == [stage |-> "idle", at |-> 0, slot |-> 0, try |-> 0, todo |-> {},
            prev |-> NoPorts, kept |-> {}, dev |-> None, conf |-> FALSE,
            budget |-> FALSE, aborted |-> FALSE]

DeviceAt(p) == usbPort[p].dev
Connected(p) == usbPort[p].dev # None
UsbLive(s) == m.slots[s] # Free
\* The device addressed through the slot is still at its port.
Here(s) == hwslot[s].st = "addressed" /\ hwslot[s].here

-----------------------------------------------------------------------------
(***************************************************************************)
(* Transfers.  m.armed counts the TRBs the hardware owns on the input      *)
(* endpoint of a slot; flight is in_flight_trb (HID) or rx_armed (network).*)
(***************************************************************************)
Arm(x, s) == [x EXCEPT !.slots[s].flight = TRUE, !.armed[s] = @ + 1]

\* arm_network_rx does nothing when a buffer is already armed.
ArmNetworkRx(x, s) ==
    IF x.slots[s].cls = "net" /\ ~x.slots[s].flight THEN Arm(x, s) ELSE x

\* process_network_rx_event: whatever the frame, the buffer is ours again.
ProcessNetworkRx(x, s) == [x EXCEPT !.slots[s].flight = FALSE]

\* handle_transfer_event: take the report or frame and arm the endpoint again.
HandleTransferEvent(x, s) ==
    CASE x.slots[s].cls = "net" /\ x.slots[s].flight ->
             ArmNetworkRx(ProcessNetworkRx(x, s), s)
      [] x.slots[s].cls = "hid" -> Arm(x, s)
      [] OTHER -> x

\* What a wait does with an event that is not its answer: poll_inner
\* ("poll"), submit_command and the network waits ("handle"), and
\* wait_transfer_event ("drop").
Deliver(rule, x, e) ==
    CASE e.t = "xfer" /\ rule # "drop" -> HandleTransferEvent(x, e.slot)
      [] e.t = "port" /\ rule = "poll" -> [x EXCEPT !.pending = TRUE]
      [] OTHER -> x

Drain(rule, x, q) == FoldLeft(LAMBDA y, e : Deliver(rule, y, e), x, q)

\* rearm_stalled_hid_endpoints.
BugStalled(x) == {s \in Slots : x.slots[s].cls = "hid"}
Stalled(x) == {s \in Slots : x.slots[s].cls = "hid" /\ ~x.slots[s].flight}
RearmStalled(x) ==
    [x EXCEPT !.slots = [s \in Slots |-> IF s \in Stalled(x)
                            THEN [@[s] EXCEPT !.flight = TRUE] ELSE @[s]],
              !.armed = [s \in Slots |-> IF s \in Stalled(x)
                            THEN @[s] + 1 ELSE @[s]]]

Taken == Min({EventsPerPoll, Len(evq)})
PollInner == RearmStalled(Drain("poll", m, SubSeq(evq, 1, Taken)))

-----------------------------------------------------------------------------
(***************************************************************************)
(* The hardware.  A port status change event is queued when the change     *)
(* bits of the port go from clear to set.                                  *)
(***************************************************************************)
HwFree == [st |-> "disabled", port |-> 0, here |-> FALSE]
Empty == [dev |-> None, ped |-> FALSE, chg |-> FALSE]
AtReset(devs) == [p \in Ports |-> [dev |-> devs[p], ped |-> FALSE, chg |-> devs[p] # None]]

PortEvent(p) == IF usbPort[p].chg THEN <<>> ELSE <<[t |-> "port"]>>
Fault == faults < MaxFaults /\ faults' = faults + 1

Plug(p, dev) ==
    /\ ~Connected(p) /\ Len(evq) < MaxEvents /\ Fault
    /\ usbPort' = [usbPort EXCEPT ![p] = [dev |-> dev, ped |-> FALSE, chg |-> TRUE]]
    /\ evq' = evq \o PortEvent(p)
    /\ UNCHANGED <<hwslot, late, m, ports, scan, registry, nic>>

\* Transfers of the departed device end with an error event.
Unplug(p) ==
    LET gone == {s \in Slots : Here(s) /\ hwslot[s].port = p}
        cut == {s \in gone : m.armed[s] > 0}
    IN  /\ Connected(p) /\ Len(evq) + Cardinality(cut) < MaxEvents /\ Fault
        /\ usbPort' = [usbPort EXCEPT ![p] = [dev |-> None, ped |-> FALSE, chg |-> TRUE]]
        /\ hwslot' = [s \in Slots |-> IF s \in gone THEN [hwslot[s] EXCEPT !.here = FALSE]
                                                     ELSE hwslot[s]]
        /\ m' = [m EXCEPT !.armed = [s \in Slots |-> IF s \in cut THEN @[s] - 1 ELSE @[s]]]
        /\ evq' = evq \o PortEvent(p) \o SetToSeq({[t |-> "xfer", slot |-> s] : s \in cut})
        /\ UNCHANGED <<late, ports, scan, registry, nic>>

\* Any other port change: link state, over-current, a port that drops its
\* enable bit.
PortChange(p, ped) ==
    /\ Connected(p) /\ Len(evq) < MaxEvents /\ Fault
    /\ usbPort' = [usbPort EXCEPT ![p].chg = TRUE, ![p].ped = ped /\ @]
    /\ evq' = evq \o PortEvent(p)
    /\ UNCHANGED <<hwslot, late, m, ports, scan, registry, nic>>

\* A key, a movement or a frame: the armed transfer completes.
InputArrives(s) ==
    /\ Here(s) /\ m.armed[s] > 0 /\ Len(evq) < MaxEvents
    /\ m' = [m EXCEPT !.armed[s] = @ - 1]
    /\ evq' = Append(evq, [t |-> "xfer", slot |-> s])
    /\ UNCHANGED <<usbPort, hwslot, late, faults, ports, scan, registry, nic>>

\* The slots a command may be about when it succeeds.
Grants(c) ==
    CASE c.kind = "enable" -> {s \in Slots : hwslot[s].st = "disabled"}
      [] c.kind = "address" ->
             IF hwslot[c.slot].st = "enabled" /\ Connected(c.port) /\ usbPort[c.port].ped
             THEN {c.slot} ELSE {}
      [] OTHER -> IF hwslot[c.slot].st # "disabled" THEN {c.slot} ELSE {}

Executed(c, s) ==
    CASE c.kind = "enable" ->
             [hwslot EXCEPT ![s] = [HwFree EXCEPT !.st = "enabled"]]
      [] c.kind = "address" ->
             [hwslot EXCEPT ![s] = [st |-> "addressed", port |-> c.port, here |-> TRUE]]
      [] c.kind = "disable" -> [hwslot EXCEPT ![s] = HwFree]
      [] OTHER -> hwslot

Disarmed(x, c) ==
    IF c.kind = "disable" THEN [x EXCEPT !.armed[c.slot] = 0, !.orphans = @ \ {c.slot}] ELSE x

Orphaned(x, s) == [x EXCEPT !.orphans = @ \cup {s}]

Completion(id, ok, s) == [t |-> "cmd", id |-> id, ok |-> ok, slot |-> s]

\* The controller answers a command the driver has given up on.
LateCommand ==
    LET c == Head(late)
    IN  /\ late # <<>>
        /\ late' = Tail(late)
        /\ \/ \E s \in Grants(c) :
                 /\ hwslot' = Executed(c, s)
                 /\ m' = IF c.kind = "enable" THEN Orphaned(m, s) ELSE Disarmed(m, c)
                 /\ evq' = Append(evq, Completion(c.id, TRUE, s))
           \/ /\ Grants(c) = {}
              /\ evq' = Append(evq, Completion(c.id, FALSE, c.slot))
              /\ UNCHANGED <<hwslot, m>>
        /\ UNCHANGED <<usbPort, faults, ports, scan, registry, nic>>

-----------------------------------------------------------------------------
(***************************************************************************)
(* submit_command.  The TRB address (id) tells the completion waited for   *)
(* from the completion of an earlier command that came too late.           *)
(***************************************************************************)
TrbIds == 0 .. MaxLate + MaxEvents
Fresh == CHOOSE i \in TrbIds :
            /\ \A k \in DOMAIN late : late[k].id # i
            /\ \A k \in DOMAIN evq : evq[k].t = "cmd" => evq[k].id # i

BugIsCompletion(e, id) == e.t = "cmd"
IsCompletion(e, id) == e.t = "cmd" /\ e.id = id
NoCompletion == Completion(0, FALSE, 0)

\* The wait: what it takes from the queue q, what it leaves, its answer.
AwaitCommand(q, id) ==
    LET i == SelectInSeq(q, LAMBDA e : IsCompletion(e, id))
    IN  IF i = 0
        THEN [answer |-> NoCompletion, m |-> Drain("handle", m, q), rest |-> <<>>]
        ELSE [answer |-> q[i], m |-> Drain("handle", m, SubSeq(q, 1, i - 1)),
              rest |-> SubSeq(q, i + 1, Len(q))]

\* The budget of a catch-up may run out in any wait and stays spent.
OutOfBudget == /\ scan.budget
               /\ IF scan.aborted THEN UNCHANGED faults ELSE Fault

\* The command, as it is put on the command ring.
Enqueued(c) == [id |-> Fresh] @@ c

(***************************************************************************)
(* Submit(c, A): the command c ends and A(answer, x, aborted) is what the  *)
(* caller does next, x being the driver's state after the events taken in  *)
(* the wait.  An unanswered command stays on the command ring.             *)
(***************************************************************************)
Submit(c, A(_, _, _)) ==
    LET Answered(ok, s) ==
            LET w == AwaitCommand(Append(evq, Completion(Fresh, ok, s)), Fresh)
            IN  evq' = w.rest /\ A(w.answer, IF ok THEN Disarmed(w.m, c) ELSE w.m, FALSE)
    IN  \/ \E s \in Grants(c) :
              /\ late = <<>> /\ hwslot' = Executed(c, s)
              /\ Answered(TRUE, s) /\ UNCHANGED <<late, faults>>
        \/ /\ late = <<>> /\ (IF Grants(c) = {} THEN UNCHANGED faults ELSE Fault)
           /\ Answered(FALSE, c.slot) /\ UNCHANGED <<late, hwslot>>
        \/ \E spent \in BOOLEAN :
              LET w == AwaitCommand(evq, Fresh)
              IN  /\ Len(late) < MaxLate
                  /\ IF spent THEN OutOfBudget ELSE Fault
                  /\ late' = Append(late, Enqueued(c))
                  /\ evq' = w.rest
                  /\ A(w.answer, w.m, spent)
                  /\ UNCHANGED hwslot

\* A control or bulk transfer ends well, or not, or the budget is spent.
WaitTransferEvent(ok, spent) ==
    \/ ok /\ ~spent /\ Here(scan.slot) /\ UNCHANGED faults
    \/ ~ok /\ ~spent /\ IF Here(scan.slot) THEN Fault ELSE UNCHANGED faults
    \/ ~ok /\ spent /\ OutOfBudget

Transfer(A(_, _, _)) ==
    /\ evq' = <<>>
    /\ \E ok, spent \in BOOLEAN :
         WaitTransferEvent(ok, spent) /\ A(ok, Drain("drop", m, evq), spent)
    /\ UNCHANGED <<hwslot, late>>

-----------------------------------------------------------------------------
(***************************************************************************)
(* scan_ports.                                                             *)
(***************************************************************************)
StartScan(budget) ==
    [UsbIdle EXCEPT !.stage = "port", !.at = 1, !.prev = ports, !.budget = budget]

Unretained(sc) == {sc.prev[p].slot : p \in Ports} \ (sc.kept \cup {0})

NextPort(sc) ==
    LET on == [sc EXCEPT !.slot = 0, !.try = 0, !.dev = None, !.conf = FALSE]
    IN  IF sc.aborted \/ sc.at = NPorts
        THEN [on EXCEPT !.stage = "sweep", !.todo = Unretained(sc)]
        ELSE [on EXCEPT !.stage = "port", !.at = @ + 1]

Abort(sc, yes) == [sc EXCEPT !.aborted = @ \/ yes]
Stage(sc, st) == [sc EXCEPT !.stage = st, !.try = 0]

\* Push a status without a slot and go on with the next port.
GiveUpPort(sc, driver) ==
    ports' = [ports EXCEPT ![sc.at] = Visible(driver)] /\ scan' = NextPort(sc)

CanPreserve(p) == /\ usbPort[p].ped /\ ~usbPort[p].chg
                  /\ scan.prev[p].slot # 0 /\ UsbLive(scan.prev[p].slot)

LookAtPort ==
    LET p == scan.at
        s == scan.prev[p].slot
    IN  /\ scan.stage = "port"
        /\ UNCHANGED <<usbPort, hwslot, late, evq, m, registry, nic>>
        /\ \/ /\ ~Connected(p)
              /\ scan' = NextPort(scan) /\ UNCHANGED <<ports, faults>>
           \/ /\ Connected(p) /\ OutOfBudget
              /\ GiveUpPort(Abort(scan, TRUE), "runtime-budget")
           \/ /\ Connected(p) /\ CanPreserve(p)
              /\ ports' = [ports EXCEPT ![p] = scan.prev[p]]
              /\ scan' = NextPort([scan EXCEPT !.kept = @ \cup {s}])
              /\ UNCHANGED faults
           \/ /\ Connected(p) /\ ~CanPreserve(p)
              /\ scan' = IF s = 0 THEN Stage(scan, "reset")
                                  ELSE [Stage(scan, "teardown") EXCEPT !.slot = s]
              /\ UNCHANGED <<ports, faults>>

\* teardown_slot: Disable Slot if the device was addressed; the driver's
\* slot is dropped whatever the answer, and its rings and buffers are freed.
DropSlot(x, s) == [x EXCEPT !.slots[s] = Free]

DisableSlot(s) == [kind |-> "disable", slot |-> s, port |-> 0]

TeardownSlot(s, A(_)) ==
    \/ /\ ~m.slots[s].addressed
       /\ m' = IF UsbLive(s) THEN Orphaned(DropSlot(m, s), s) ELSE m
       /\ A(FALSE) /\ UNCHANGED <<hwslot, late, evq, faults>>
    \/ /\ m.slots[s].addressed
       /\ Submit(DisableSlot(s), LAMBDA e, x, spent :
              /\ m' = IF e.ok THEN DropSlot(x, s) ELSE Orphaned(DropSlot(x, s), s)
              /\ A(spent))

TeardownOld ==
    /\ scan.stage = "teardown"
    /\ TeardownSlot(scan.slot, LAMBDA spent :
          scan' = [Stage(Abort(scan, spent), "reset") EXCEPT !.slot = 0])
    /\ UNCHANGED <<usbPort, ports, registry, nic>>

\* do_port_reset: it acknowledges the change bits when it starts, waits for
\* the port to come up enabled, and acknowledges again; a reset that fails
\* may leave the change it caused.
DoPortReset(p, ok) ==
    IF ok THEN usbPort' = [usbPort EXCEPT ![p].ped = TRUE, ![p].chg = FALSE]
    ELSE \E chg \in BOOLEAN : usbPort' = [usbPort EXCEPT ![p].ped = FALSE, ![p].chg = chg]

(***************************************************************************)
(* reset_port: a USB2 port that is enabled already is taken as it is; the  *)
(* completion of a reset may itself be reported as a port change.          *)
(***************************************************************************)
ResetPort ==
    LET p == scan.at
    IN  /\ scan.stage = "reset"
        /\ \/ /\ OutOfBudget /\ UNCHANGED evq
              /\ IF Connected(p) /\ ~usbPort[p].ped THEN DoPortReset(p, FALSE) ELSE UNCHANGED usbPort
              /\ GiveUpPort(Abort(scan, TRUE), "port-not-enabled")
           \/ /\ ~Connected(p) /\ UNCHANGED <<usbPort, evq, faults>>
              /\ GiveUpPort(scan, "port-not-enabled")
           \/ /\ Connected(p) /\ usbPort[p].ped /\ UNCHANGED <<usbPort, evq, faults>>
              /\ scan' = Stage(scan, "enable") /\ UNCHANGED ports
           \/ /\ Connected(p) /\ DoPortReset(p, TRUE)
              /\ evq' \in {evq} \cup (IF Len(evq) < MaxEvents
                                      THEN {Append(evq, [t |-> "port"])} ELSE {})
              /\ scan' = Stage(scan, "enable") /\ UNCHANGED <<ports, faults>>
           \/ /\ Connected(p) /\ Fault /\ DoPortReset(p, FALSE)
              /\ GiveUpPort(scan, "port-not-enabled") /\ UNCHANGED evq
        /\ UNCHANGED <<hwslot, late, m, registry, nic>>

AllocateSlot(x, s) == [x EXCEPT !.slots[s] = [Free EXCEPT !.port = scan.at]]

\* enable_slot, up to three times, then allocate_slot.
EnableSlot ==
    /\ scan.stage = "enable"
    /\ UNCHANGED <<usbPort, registry, nic>>
    /\ \/ /\ scan.try = 0 /\ OutOfBudget
          /\ GiveUpPort(Abort(scan, TRUE), "runtime-budget")
          /\ UNCHANGED <<hwslot, late, evq, m>>
       \/ Submit([kind |-> "enable", slot |-> 0, port |-> 0],
            LAMBDA e, x, spent :
              LET sc == Abort(scan, spent)
              IN  \/ /\ e.ok
                     /\ m' = AllocateSlot(x, e.slot)
                     /\ scan' = [Stage(sc, "address") EXCEPT !.slot = e.slot]
                     /\ UNCHANGED ports
                  \/ /\ ~e.ok /\ sc.try < Attempts - 1
                     /\ scan' = [sc EXCEPT !.try = @ + 1]
                     /\ m' = x /\ UNCHANGED ports
                  \/ /\ ~e.ok /\ sc.try = Attempts - 1
                     /\ GiveUpPort(sc, "enable-slot-failed") /\ m' = x)

\* address_device: an unanswered command is always tried again, an error
\* only when its code is one of three.
AddressDevice ==
    /\ scan.stage = "address"
    /\ Submit([kind |-> "address", slot |-> scan.slot, port |-> scan.at],
         LAMBDA e, x, spent :
           LET sc == Abort(scan, spent)
           IN  \/ /\ e.ok
                  /\ m' = [x EXCEPT !.slots[scan.slot].addressed = TRUE]
                  /\ scan' = Stage(sc, "header")
               \/ /\ ~e.ok /\ sc.try < Attempts - 1
                  /\ m' = x /\ scan' = [sc EXCEPT !.try = @ + 1]
               \/ /\ ~e.ok /\ (sc.try = Attempts - 1 \/ e # NoCompletion)
                  /\ m' = x /\ scan' = Stage(sc, "abandon"))
    /\ UNCHANGED <<usbPort, ports, registry, nic>>

-----------------------------------------------------------------------------
(***************************************************************************)
(* enumerate_device after the address: read the descriptors, set the       *)
(* configuration, and bring up a class driver.  TransferStages wait for a  *)
(* transfer, CommandStages for a command.                                  *)
(***************************************************************************)
Ifs == Interfaces[scan.dev]
Category == ClassifyDevice(DeviceClass[scan.dev], Ifs)
Pair == FindNetworkInterfaces(Ifs)

\* The class driver tried when there is no HID interface or it failed.
ByCategory ==
    CASE Category = "Storage" /\ StorageInterface(Ifs) # 0 -> "bulk"
      [] Category = "Network" /\ Pair # NoPair ->
             IF Ifs[Pair.data].alt # 0 THEN "altset" ELSE "netep"
      [] OTHER -> "done"

\* The stage after the stage st has succeeded or failed.
After(st, ok) ==
    CASE st \in {"header", "evaluate", "describe"} /\ ~ok -> "abandon"
      [] st = "header" /\ ok ->
             IF DeviceAt(scan.at) \in EvaluatesEp0 THEN "evaluate" ELSE "describe"
      [] st = "evaluate" /\ ok -> "describe"
      [] st = "describe" /\ ok -> "config"
      [] st = "config" -> IF ~ok THEN "done"
                          ELSE IF HidInterface(Ifs) # 0 THEN "boot" ELSE ByCategory
      [] st = "boot" -> "hid"
      [] st = "hid" -> IF ok THEN "done" ELSE ByCategory
      [] st = "bulk" -> IF ok THEN "scsi" ELSE "done"
      [] st = "altset" -> IF ok THEN "netep" ELSE "done"
      [] st = "netep" -> IF ok THEN "netinit" ELSE "done"
      [] st \in {"scsi", "netinit"} -> "done"

\* The packet filter of a CDC device may be refused; RNDIS must answer.
Tolerates(st) == st = "netinit" /\ Pair.proto \in {"ecm", "ncm"}

ClassOf(st) == CASE st = "hid" -> "hid" [] st = "bulk" -> "storage" [] OTHER -> "net"

\* What a stage that went well does to the slot.
Configured(st, x) ==
    LET s == scan.slot
    IN  CASE st = "hid" -> Arm([x EXCEPT !.slots[s].cls = "hid"], s)
          [] st \in {"bulk", "netep"} -> [x EXCEPT !.slots[s].cls = ClassOf(st)]
          [] st = "netinit" -> ArmNetworkRx(x, s)
          [] OTHER -> x

UsbStatus(st, ok) ==
    LET works == ok /\ st \in {"hid", "scsi", "netinit"}
    IN  [slot |-> scan.slot,
         configured |-> scan.conf \/ (st = "config" /\ ok),
         driver |-> IF ~works THEN "generic"
                    ELSE IF st = "scsi" THEN "storage" ELSE ClassOf(st),
         attach |-> AttachState(Ifs, works /\ st = "netinit"), n |-> Len(Ifs)]

EndStage(ok, x, spent) ==
    LET st == scan.stage
        good == ok \/ Tolerates(st)
        sc == [Abort(scan, spent) EXCEPT
                  !.dev = IF st = "describe" /\ ok THEN DeviceAt(scan.at) ELSE @,
                  !.conf = @ \/ (st = "config" /\ ok)]
    IN  /\ m' = IF good THEN Configured(st, x) ELSE x
        /\ IF After(st, good) = "done"
           THEN /\ ports' = [ports EXCEPT ![scan.at] = UsbStatus(st, good)]
                /\ scan' = NextPort([sc EXCEPT !.kept = @ \cup {scan.slot}])
           ELSE scan' = Stage(sc, After(st, good)) /\ UNCHANGED ports

TransferStage(st) ==
    /\ scan.stage = st /\ Transfer(EndStage)
    /\ UNCHANGED <<usbPort, registry, nic>>

CommandStage(st) ==
    /\ scan.stage = st
    /\ Submit([kind |-> "configure", slot |-> scan.slot, port |-> 0],
              LAMBDA e, x, spent : EndStage(e.ok, x, spent))
    /\ UNCHANGED <<usbPort, registry, nic>>

ReadDeviceHeader == TransferStage("header")
EvaluateEp0 == CommandStage("evaluate")
ReadDescriptors == TransferStage("describe")
SetConfiguration == TransferStage("config")
SetBootProtocol == TransferStage("boot")
ConfigureInterruptIn == CommandStage("hid")
ConfigureMassStorage == CommandStage("bulk")
ProbeStorage == TransferStage("scsi")
SetInterface == TransferStage("altset")
ConfigureNetwork == CommandStage("netep")
InitNetwork == TransferStage("netinit")

Enumerate ==
    \/ ReadDeviceHeader \/ EvaluateEp0 \/ ReadDescriptors \/ SetConfiguration
    \/ SetBootProtocol \/ ConfigureInterruptIn \/ ConfigureMassStorage \/ ProbeStorage
    \/ SetInterface \/ ConfigureNetwork \/ InitNetwork

AbandonDevice ==
    /\ scan.stage = "abandon"
    /\ TeardownSlot(scan.slot, LAMBDA spent : GiveUpPort(Abort(scan, spent), "enum-failed"))
    /\ UNCHANGED <<usbPort, registry, nic>>

Sweep ==
    /\ scan.stage = "sweep" /\ scan.todo # {}
    /\ TeardownSlot(Min(scan.todo), LAMBDA spent :
          scan' = [Abort(scan, spent) EXCEPT !.todo = @ \ {Min(scan.todo)}])
    /\ UNCHANGED <<usbPort, ports, registry, nic>>

\* sync_controller_inventory: the old children are removed, the listed
\* ports registered.
SyncInventory ==
    registry' = {<<p, ports[p].slot, ports[p].driver>> :
                    p \in {q \in Ports : ports[q] # Absent}}

\* The end of rescan_if_pending_with_mode.
FinishScan ==
    /\ scan.stage = "sweep" /\ scan.todo = {}
    /\ m' = [m EXCEPT !.pending = scan.aborted]
    /\ SyncInventory
    /\ scan' = UsbIdle
    /\ UNCHANGED <<usbPort, hwslot, late, evq, faults, ports, nic>>

-----------------------------------------------------------------------------
(***************************************************************************)
(* The entry points, called with no scan in progress.                      *)
(***************************************************************************)
\* poll_runtime.
PollRuntime ==
    /\ scan = UsbIdle
    /\ m' = PollInner
    /\ evq' = SubSeq(evq, Taken + 1, Len(evq))
    /\ UNCHANGED <<hw, ports, scan, registry, nic>>

\* service_pending_topology, runtime_catch_up: poll, then scan if a change
\* is pending.  A scan that is not forced may have to wait for the cooldown,
\* which leaves what PollRuntime leaves.
ServiceTopology ==
    /\ scan = UsbIdle /\ PollInner.pending
    /\ m' = PollInner
    /\ evq' = SubSeq(evq, Taken + 1, Len(evq))
    /\ scan' = StartScan(TRUE) /\ ports' = NoPorts
    /\ UNCHANGED <<hw, registry, nic>>

\* find_usb_nic: the ready device with most interfaces, then on the highest
\* port.
ReadyPorts == {p \in Ports : ports[p].configured /\ ports[p].attach = "Ready"}
AttachNic ==
    /\ scan = UsbIdle
    /\ \E p \in ReadyPorts :
          /\ \A q \in ReadyPorts \ {p} : \/ ports[q].n < ports[p].n
                                         \/ ports[q].n = ports[p].n /\ q < p
          /\ nic' = ports[p].slot
    /\ UNCHANGED <<hw, evq, m, ports, scan, registry>>

\* network_send_frame waits like a command; the frame's own completion is
\* the answer, so no failure of it changes the driver.
NetworkSend ==
    /\ scan = UsbIdle /\ nic # 0 /\ m.slots[nic].cls = "net"
    /\ m' = Drain("handle", m, evq) /\ evq' = <<>>
    /\ UNCHANGED <<hw, ports, scan, registry, nic>>

\* network_recv_frame drains the ring and arms the receive buffer.
NetworkRecv ==
    /\ scan = UsbIdle /\ nic # 0
    /\ m' = ArmNetworkRx(Drain("handle", m, evq), nic) /\ evq' = <<>>
    /\ UNCHANGED <<hw, ports, scan, registry, nic>>

FreshDriver == [slots |-> [s \in Slots |-> Free], armed |-> [s \in Slots |-> 0],
                pending |-> FALSE, orphans |-> {}]

\* probe_controllers first drops the controller and frees its rings and buffers;
\* the hardware runs on until init resets it.
ProbeControllers ==
    /\ scan = UsbIdle
    /\ m' = [FreshDriver EXCEPT !.armed = m.armed] /\ ports' = NoPorts
    /\ scan' = [UsbIdle EXCEPT !.stage = "dropped"]
    /\ UNCHANGED <<hw, evq, registry, nic>>

\* reset and configure_runtime.
ResetController ==
    /\ usbPort' = AtReset([p \in Ports |-> DeviceAt(p)])
    /\ hwslot' = [s \in Slots |-> HwFree]
    /\ late' = <<>> /\ evq' = <<>> /\ m' = FreshDriver

\* init, up to its scan; one that fails, before the reset or after it, leaves no
\* controller and no children until the next probe.
InitController ==
    /\ scan.stage = "dropped"
    /\ \/ /\ ResetController
          /\ scan' = [StartScan(FALSE) EXCEPT !.prev = NoPorts]
          /\ UNCHANGED <<faults, registry>>
       \/ /\ Fault
          /\ ResetController \/ UNCHANGED <<usbPort, hwslot, late, evq, m>>
          /\ registry' = {} /\ UNCHANGED scan
    /\ UNCHANGED <<ports, nic>>

XhciInit ==
    /\ \E devs \in [Ports -> Devices \cup {None}] : usbPort = AtReset(devs)
    /\ hwslot = [s \in Slots |-> HwFree]
    /\ late = <<>> /\ evq = <<>> /\ faults = 0
    /\ m = FreshDriver /\ ports = NoPorts
    /\ scan = [UsbIdle EXCEPT !.stage = "port", !.at = 1, !.prev = NoPorts]
    /\ registry = {} /\ nic = 0

Hardware == \/ \E p \in Ports : \/ \E dev \in Devices : Plug(p, dev)
                                \/ Unplug(p)
                                \/ \E ped \in BOOLEAN : PortChange(p, ped)
            \/ \E s \in Slots : InputArrives(s)

ScanStep == \/ LookAtPort \/ TeardownOld \/ ResetPort \/ EnableSlot \/ AddressDevice
            \/ Enumerate \/ AbandonDevice \/ Sweep \/ FinishScan

Calls == \/ PollRuntime \/ ServiceTopology \/ AttachNic \/ NetworkSend
         \/ NetworkRecv \/ ProbeControllers \/ InitController

XhciNext == Hardware \/ LateCommand \/ ScanStep \/ Calls

XhciSpec == XhciInit /\ [][XhciNext]_xhcivars

-----------------------------------------------------------------------------
(***************************************************************************)
(* Properties.                                                             *)
(***************************************************************************)
(***************************************************************************)
(* Between two scans the port list, the driver's slots and the device      *)
(* inventory agree: a listed slot is alive, addressed and belongs to the   *)
(* port it is listed under, carries the class driver that is shown, and    *)
(* every live slot is listed; the inventory shows the listed ports.  No    *)
(* failed, timed out or aborted enumeration, at power-on or in a rescan,   *)
(* leaves a slot behind in the driver (scan_ports, teardown_slot,          *)
(* sync_controller_inventory).  A slot the driver works with is at any     *)
(* time one the controller has enabled, and an addressed one is addressed  *)
(* at the same root port: a completion that arrives after its command was  *)
(* given up is never taken for the answer to the next command              *)
(* (submit_command compares the TRB address).  The controller may keep a   *)
(* slot that the driver let go, but only the ones in orphans: those        *)
(* teardown_slot dropped without Disable Slot, because no address was      *)
(* given, or after a Disable Slot that was not answered well, and those of *)
(* an Enable Slot answered too late.                                       *)
(***************************************************************************)
SlotsFollowPorts ==
    /\ scan = UsbIdle =>
        /\ \A p \in Ports :
              ports[p].slot # 0 =>
                  /\ m.slots[ports[p].slot].port = p
                  /\ m.slots[ports[p].slot].addressed
                  /\ ports[p].driver # "generic" =>
                         m.slots[ports[p].slot].cls = ports[p].driver
        /\ \A s \in Slots : UsbLive(s) => \E p \in Ports : ports[p].slot = s
        /\ {e[1] : e \in registry} = {p \in Ports : ports[p] # Absent}
    /\ scan.stage # "dropped" =>
        \A s \in Slots : hwslot[s].st # "disabled" => UsbLive(s) \/ s \in m.orphans
    /\ \A s \in Slots :
        UsbLive(s) => /\ hwslot[s].st # "disabled" /\ s \notin m.orphans
                      /\ m.slots[s].addressed =>
                             /\ hwslot[s].st = "addressed"
                             /\ hwslot[s].port = m.slots[s].port

(***************************************************************************)
(* The report buffer of a HID endpoint and the receive buffer of a network *)
(* function are given to the hardware at most once at a time, and a slot   *)
(* the driver has remembers that it gave it: arming twice would let two    *)
(* completions overwrite one buffer (arm_hid_endpoint, arm_network_rx,     *)
(* handle_transfer_event, rearm_stalled_hid_endpoints).  The hardware owns *)
(* a buffer of a slot the driver dropped, and freed, in two cases only: a  *)
(* Disable Slot that was not answered well, and a controller that          *)
(* probe_controllers has dropped and not reset yet.                        *)
(***************************************************************************)
Queued(s) == {k \in DOMAIN evq : evq[k].t = "xfer" /\ evq[k].slot = s}
OneTransferInFlight ==
    \A s \in Slots :
        /\ UsbLive(s) => m.armed[s] + Cardinality(Queued(s)) <= 1
        /\ m.armed[s] > 0 =>
              \/ UsbLive(s) /\ m.slots[s].flight
              \/ hwslot[s].st = "addressed" /\ (s \in m.orphans \/ scan.stage = "dropped")

=============================================================================
