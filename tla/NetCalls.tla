------------------------------ MODULE NetCalls ------------------------------
(***************************************************************************)
(* The calls into the network stack, one at a time under the NET lock:     *)
(* DHCP by hand, the automatic DHCP pump of a USB adapter, the maintenance *)
(* a status query does, DNS, ping, and HTTP with and without TLS.  A call  *)
(* that waits polls the stack in a loop; each turn of the loop is a step,  *)
(* and between two turns the link can change and frames arrive.  The USB   *)
(* side finds and loses adapters between calls.                            *)
(*                                                                         *)
(* A panic halts the kernel: the call record stays at "panicked".          *)
(***************************************************************************)
EXTENDS NetStack, Firewall

CONSTANTS Leases,         \* leases a server can hand out
          LocalPorts,     \* the ephemeral ports, allocated in turn
          RedirectLimit,  \* HTTP_GET_REDIRECT_LIMIT
          RuleChanges,    \* rules `firewall add` is given
          Removable,      \* ids `firewall remove` is given
          MaxGen,         \* bound on DHCP generations
          MaxRules        \* bound on the rule ids handed out

VARIABLES net, usb, link, fw, port, call, ret

vars == <<net, usb, link, fw, port, call, ret>>

Peer == Max(Leases) + 1        \* the host a call talks to
DnsServer == Max(Leases) + 2
NoPacket == Packet("out", "none", 0, 0, 0, 0)

\* The call in progress.  op: what was asked for; stage: the loop it is in;
\* nic, cfg, kept: the card, lease and sockets it started with; by: the rule
\* that let it out (0: the default policy).  ret: how the last call ended.
NoCall == [op |-> "idle", stage |-> "none", gen |-> 0, sock |-> 0, nic |-> NoNic, cfg |-> 0,
           kept |-> {}, saved |-> {}, scheme |-> "http", hops |-> 0, packet |-> NoPacket,
           by |-> 0, checked |-> FALSE, result |-> "ok"]

Idle == call.op = "idle"
Up(n) == LinkUp(n, link)

Return(n, r) == net' = n /\ call' = NoCall /\ ret' = r
Continue(n, c) == net' = n /\ call' = c /\ ret' = "ok"
Panic(n) == net' = n /\ call' = [call EXCEPT !.op = "panicked"] /\ ret' = "ok"

\* One poll_network from state n, then A of what it leaves.
Polling(n, A(_)) ==
    LET s == SyncUsbNic(n, usb)
    IN \E x \in Traffic(s, Up(s)), l \in Leases :
         (x # "ack" => l = Min(Leases)) /\ A(PollNetwork(n, usb, link, x, l))

-----------------------------------------------------------------------------
(* Boot, and a lease by hand.                                              *)

AcquireDhcp(n, op) ==
    LET c == ClaimManualOwner(n)
        End(state) == ClearDhcpOwner([c EXCEPT !.last = state], "manual", c.gen)
    IN IF ~Up(n) THEN Return(End("link-down"), "err")
       ELSE IF ~n.ready THEN Return(End("iface-not-ready"), "err")
       ELSE IF n.cfg # 0 THEN Return(SyncUsbNic(End("lease-present"), usb), "ok")
       ELSE Continue([ResetDhcpSocket(c) EXCEPT !.last = "in-progress"],
                     [NoCall EXCEPT !.op = op, !.stage = "acquire", !.gen = c.gen])

AcquireStep ==
    LET mine == net.owner = "manual" /\ net.gen = call.gen
        End(n, state) == ClearDhcpOwner([n EXCEPT !.last = state], "manual", call.gen)
    IN /\ call.stage = "acquire"
       /\ \/ Return(End(net, TimeoutState(net.wire)), "ok")
          \/ ~mine /\ Return([net EXCEPT !.last = "stale-owner"], "ok")
          \/ mine /\ Polling(net, LAMBDA n : IF n.cfg # 0 THEN Return(End(n, "lease-acquired"), "ok")
                                                          ELSE Continue(n, call))
       /\ UNCHANGED <<usb, link, fw, port>>

\* The first supported PCI card, if there is one, is brought up at boot.
NetInit ==
    /\ call.op = "boot"
    /\ \/ Return(net, "ok")
       \/ AcquireDhcp(PrepareStack(ResetRuntime([net EXCEPT !.hw = PciNic])), "init")
    /\ UNCHANGED <<usb, link, fw, port>>

WaitForDhcp ==
    /\ Idle /\ net.gen < MaxGen
    /\ AcquireDhcp(net, "dhcp")
    /\ UNCHANGED <<usb, link, fw, port>>

\* `net retry` restarts a PCI card's link, then asks for a lease.
RetryNic ==
    /\ Idle /\ net.hw = PciNic /\ net.gen < MaxGen
    /\ link' \in BOOLEAN
    /\ call' = IF link' THEN [NoCall EXCEPT !.op = "retry", !.stage = "relock"] ELSE call
    /\ UNCHANGED <<net, usb, fw, port, ret>>

RetryAcquire ==
    /\ call.stage = "relock"
    /\ AcquireDhcp(net, "retry")
    /\ UNCHANGED <<usb, link, fw, port>>

-----------------------------------------------------------------------------
(* The automatic pump, and what status queries do.                         *)

\* The pump is done; maintenance then records the state of the lease.
Finish(n, op) ==
    Return(IF op = "maint" THEN [n EXCEPT !.maint = CanonicalState(n, Up(n))] ELSE n, "ok")

DriveAutoPump(n, op) ==
    \E late \in BOOLEAN :
      LET state == DriveEntry(n, Up(n), late)
      IN IF state = "drive" THEN Continue(n, [NoCall EXCEPT !.op = op, !.stage = "drive"])
                            ELSE Finish(EndDrive(n, state), op)

\* A pump that a lost adapter reset to idle has no deadline left: it counts
\* as timed out.
DriveStep ==
    /\ call.stage = "drive"
    /\ Polling(net, LAMBDA n :
         IF n.cfg # 0 THEN Finish(RetireAutoPump(n, "lease-acquired", TRUE), call.op)
         ELSE \/ Finish(RetireAutoPump(n, TimeoutState(n.wire), TRUE), call.op)
              \/ n.pump.started /\ Finish(UpdateSnapshot(n), call.op)
              \/ n.pump.started /\ Continue(n, call))
    /\ UNCHANGED <<usb, link, fw, port>>

Maintenance(n, trigger) ==
    \E cool \in BOOLEAN :
      LET entry == MaintenanceEntry(n, Up(n), trigger, cool)
      IN CASE entry = "pump" -> /\ n.pump.active \/ n.gen < MaxGen
                                /\ DriveAutoPump(IF n.pump.active THEN n
                                                 ELSE BeginAutoPump(n, Up(n), FALSE), "maint")
           [] entry = "poll" -> Continue(n, [NoCall EXCEPT !.op = "maint", !.stage = "maint"])
           [] OTHER -> Return([n EXCEPT !.maint = entry], "ok")

MaintenanceStep ==
    /\ call.stage = "maint"
    /\ Polling(net, LAMBDA n :
         IF n.cfg # 0 THEN Return([n EXCEPT !.maint = "lease-acquired", !.last = "lease-acquired"], "ok")
         ELSE \/ LET state == CanonicalState(n, Up(n))
                 IN Return([n EXCEPT !.maint = state, !.last = state], "ok")
              \/ Continue(n, call))
    /\ UNCHANGED <<usb, link, fw, port>>

\* The shell's idle loop polls.
RuntimePoll ==
    /\ Idle
    /\ IF net.cfg = 0 /\ net.pump.active THEN DriveAutoPump(net, "poll")
       ELSE Polling(net, LAMBDA n :
              Return(IF n.cfg # 0 /\ n.pump.active THEN RetireAutoPump(n, "lease-acquired", TRUE)
                                                   ELSE n, "ok"))
    /\ UNCHANGED <<usb, link, fw, port>>

NetworkConfig ==
    /\ Idle
    /\ IF net.cfg # 0 THEN Polling(net, LAMBDA n : Return(n, "ok"))
                      ELSE Maintenance(net, "network-config")
    /\ UNCHANGED <<usb, link, fw, port>>

Status ==
    /\ Idle
    /\ LET s == SyncUsbNic(net, usb)
       IN IF s.cfg # 0 THEN Polling(s, LAMBDA n : Return(n, "ok")) ELSE Maintenance(s, "status")
    /\ UNCHANGED <<usb, link, fw, port>>

\* dhcp_attempt and maintenance_report; the queries that only look at the
\* card stop after the USB check.
Report ==
    /\ Idle
    /\ LET s == SyncUsbNic(net, usb)
       IN \/ Return(s, "ok")
          \/ s.cfg = 0 /\ s.pump.active /\ DriveAutoPump(s, "poll")
    /\ UNCHANGED <<usb, link, fw, port>>

\* `net usb`: the adapter found, after one more look at the bus when there is
\* none, becomes the active card.
AttachUsbNic ==
    /\ Idle /\ net.gen < MaxGen
    /\ usb' \in (IF usb # NoNic THEN {usb} ELSE {NoNic} \cup UsbSlots)
    /\ IF usb' = NoNic THEN Return(net, "err")
       ELSE LET fresh == PrepareStack(ResetRuntime([net EXCEPT !.hw = usb']))
                n == IF net.hw = usb' /\ net.ready THEN net ELSE fresh
            IN \E late \in BOOLEAN : Maintenance(BeginAutoPump(n, Up(n), late), "usb-attach")
    /\ UNCHANGED <<link, fw, port>>

-----------------------------------------------------------------------------
(* Names, echoes and connections.  f is the firewall so far in the call.   *)

Fail(n, f) == Return(n, "err") /\ fw' = f /\ port' = port
Go(n, c, f) == Continue(n, c) /\ fw' = f /\ port' = port

\* A socket of its own for stage s, let out as packet p by decision d.
Opened(n, c, s, p, d) ==
    [c EXCEPT !.stage = s, !.sock = NewHandle(n), !.packet = p, !.by = d.by, !.checked = FALSE]

Echo(n, c, f) ==
    LET p == Packet("out", "icmp", n.cfg, Peer, 0, 0)
        d == ProcessPacket(f, p)
    IN \/ Fail(n, d.g)
       \/ d.action = "allow" /\ Go(AddSocket(n), Opened(n, c, "echo", p, d), d.g)

Ping(n, c, f) ==
    IF ~RouteTo(n, link) THEN Fail(n, f)
    ELSE \/ Fail(n, f)
         \/ Echo(n, c, f)
         \/ n.arp = {} /\ Go(n, [c EXCEPT !.stage = "arp"], f)

\* A socket whose connect() fails stays in the set.
Connect(n, c, f) ==
    LET p == Packet("out", "tcp", n.cfg, Peer, port, IF c.scheme = "https" THEN 443 ELSE 80)
        d == ProcessPacket(f, p)
    IN IF ~RouteTo(n, link) THEN Fail(n, f)
       ELSE /\ \/ d.action = "deny" /\ Return(n, "err")
               \/ d.action = "allow" /\ Return(AddSocket(n), "err")
               \/ d.action = "allow" /\ Continue(AddSocket(n), Opened(n, c, "connect", p, d))
            /\ fw' = d.g
            /\ port' = IF port = Max(LocalPorts) THEN Min(LocalPorts) ELSE port + 1

Resolved(n, c, f) ==
    CASE c.op = "lookup" -> Return(n, "ok") /\ fw' = f /\ port' = port
      [] c.op = "ping" -> Ping(n, c, f)
      [] c.op = "get" -> Connect(n, c, f)

\* The resolver is taken out of the stack while a name is looked up, and put
\* back when the lookup is over.  A query that cannot be started leaves its
\* socket behind.
ResolveHost(n, c, f) ==
    LET p == Packet("out", "udp", n.cfg, DnsServer, 0, 53)
        d == ProcessPacket(f, p)
    IN \/ Resolved(n, c, f)      \* an address, or
       \/ \E keep \in SUBSET n.dns :
            LET m == [n EXCEPT !.dns = keep]
            IN \/ keep # {} /\ Resolved(m, c, f)
               \/ IF ~RouteTo(m, link) THEN Fail(m, f)
                  ELSE \/ d.action = "deny" /\ Fail(m, d.g)
                       \/ d.action = "allow" /\ Fail(AddSocket(m), d.g)
                       \/ /\ d.action = "allow"
                          /\ Go(AddSocket([m EXCEPT !.dns = {}]),
                                [Opened(m, c, "dns", p, d) EXCEPT !.saved = keep, !.cfg = m.cfg], d.g)

\* https_request refuses a host it has no trust anchor for before it does
\* anything on the network.
Request(n, c, f) ==
    \/ c.op = "get" /\ c.scheme = "https" /\ Fail(n, f)
    \/ ResolveHost(n, c, f)

Start(op, scheme) ==
    /\ Idle /\ Cardinality(net.socks) < MaxSockets
    /\ Request(net, [NoCall EXCEPT !.op = op, !.scheme = scheme, !.nic = net.hw, !.cfg = net.cfg,
                                   !.kept = net.socks], fw)
    /\ UNCHANGED <<usb, link>>

LookupHost == Start("lookup", "http")
PingHost == Start("ping", "http")
HttpRequest == \E scheme \in {"http", "https"} : Start("get", scheme)

-----------------------------------------------------------------------------
(* The loops.  A handle that is no longer in the set panics.               *)

\* A turn of stage s: a poll, then A of what it leaves.
Turn(s, A(_)) ==
    /\ call.stage = s /\ call.op # "panicked"
    /\ Polling(net, LAMBDA n : IF call.sock # 0 /\ call.sock \notin n.socks
                               THEN Panic(n) /\ fw' = fw /\ port' = port
                               ELSE A(n) \/ Go(n, call, fw))
    /\ UNCHANGED <<usb, link>>

BugDone(n) == IF call.stage = "echo" THEN n ELSE RemoveSocket(n, call.sock)
Done(n) == RemoveSocket(n, call.sock)

DnsStep ==
    Turn("dns", LAMBDA n :
      \/ Fail([Done(n) EXCEPT !.dns = call.saved], fw)
      \/ Resolved([Done(n) EXCEPT !.dns = call.saved \cup {n.cfg}], [call EXCEPT !.sock = 0], fw))

ArpStep ==
    Turn("arp", LAMBDA n :
      \/ Fail(n, fw)
      \/ n.arp # {} /\ Echo(n, call, fw))

\* The packet that answers the call, at the address the stack has now.
Answer(n) == [Reply(call.packet) EXCEPT !.dst = n.cfg]
Refused(n) == ~call.checked /\ ProcessPacket(fw, Answer(n)).action = "deny"

EchoStep ==
    Turn("echo", LAMBDA n :
      \/ Fail(Done(n), fw)
      \/ Return(Done(n), IF Refused(n) THEN "denied" ELSE "ok") /\ UNCHANGED <<fw, port>>)

ConnectStep ==
    Turn("connect", LAMBDA n :
      \/ Fail(Done(n), fw)
      \/ Go(n, [call EXCEPT !.stage = IF call.scheme = "https" THEN "hello" ELSE "send"], fw))

\* A plain request that fails drops its connection with the socket still in
\* the set; a TLS stream closes its own.
Abandon(n, r) ==
    IF call.scheme = "https" THEN Go(n, [call EXCEPT !.stage = "close", !.result = r], fw)
                             ELSE Return(n, r) /\ UNCHANGED <<fw, port>>

HelloStep ==
    Turn("hello", LAMBDA n :
      \/ Abandon(n, "err")
      \/ Refused(n) /\ Abandon(n, "denied")
      \/ ~Refused(n) /\ Go(n, [call EXCEPT !.stage = "send", !.checked = TRUE], fw))

SendStep ==
    Turn("send", LAMBDA n : Abandon(n, "err") \/ Go(n, [call EXCEPT !.stage = "recv"], fw))

\* A TLS read that fails below TLS ends the response: what arrived is parsed.
RecvStep ==
    Turn("recv", LAMBDA n :
      \/ Abandon(n, "err")
      \/ Refused(n) /\ Abandon(n, "denied")
      \/ ~Refused(n) /\ Go(n, [call EXCEPT !.checked = TRUE], fw)
      \/ Go(n, [call EXCEPT !.stage = "close"], fw))

\* A response that redirects is followed, up to the limit.
CloseStep ==
    Turn("close", LAMBDA n :
      \/ Return(Done(n), IF call.result = "ok" THEN "err" ELSE call.result) /\ UNCHANGED <<fw, port>>
      \/ call.result = "ok" /\ Return(Done(n), "ok") /\ UNCHANGED <<fw, port>>
      \/ /\ call.result = "ok" /\ call.hops < RedirectLimit
         /\ Go(Done(n), [call EXCEPT !.stage = "redirect", !.hops = @ + 1, !.sock = 0], fw))

Redirect ==
    /\ call.stage = "redirect"
    /\ \E scheme \in {"http", "https"} :
         Request(net, [call EXCEPT !.scheme = scheme, !.nic = net.hw, !.cfg = net.cfg], fw)
    /\ UNCHANGED <<usb, link>>

-----------------------------------------------------------------------------
(* The rules, time, and the world outside.                                 *)

ChangeRules ==
    /\ Idle
    /\ \/ fw.next <= MaxRules /\ \E r \in RuleChanges : fw' = AddRule(fw, r.dir, r.proto, r.port, r.action)
       \/ \E id \in Removable : fw' = RemoveRule(fw, id)
    /\ UNCHANGED <<net, usb, link, port, call, ret>>

\* The deadlines of one call add up to less than the time the tracker keeps a
\* connection, so an age ends between calls.
TimePasses == Idle /\ fw' = Tick(fw) /\ UNCHANGED <<net, usb, link, port, call, ret>>

UsbChanges ==
    /\ Idle
    /\ usb' \in ({NoNic} \cup UsbSlots) \ {usb}
    /\ UNCHANGED <<net, link, fw, port, call, ret>>

LinkChanges == call.op # "panicked" /\ link' = ~link /\ UNCHANGED <<net, usb, fw, port, call, ret>>

Init ==
    /\ net = NewNet /\ usb = NoNic /\ link \in BOOLEAN
    /\ fw = NewGuard /\ port = Min(LocalPorts)
    /\ call = [NoCall EXCEPT !.op = "boot"] /\ ret = "ok"

DhcpNext ==
    NetInit \/ WaitForDhcp \/ AcquireStep \/ RetryNic \/ RetryAcquire \/ AttachUsbNic
      \/ DriveStep \/ MaintenanceStep \/ RuntimePoll \/ NetworkConfig \/ Status \/ Report

SocketNext ==
    LookupHost \/ PingHost \/ HttpRequest \/ DnsStep \/ ArpStep \/ EchoStep \/ ConnectStep
      \/ HelloStep \/ SendStep \/ RecvStep \/ CloseStep \/ Redirect

GuardNext == ChangeRules \/ TimePasses

WorldNext == UsbChanges \/ LinkChanges

Next == DhcpNext \/ SocketNext \/ GuardNext \/ WorldNext

Spec == Init /\ [][Next]_vars

-----------------------------------------------------------------------------
(* Properties.                                                             *)

\* DHCP has one owner at a time and the records agree on who it is: a lease
\* by hand owns it exactly while its loop runs with its generation, and the
\* pump is active exactly while it owns it, with the current generation, on a
\* USB adapter that has no lease yet (set_dhcp_owner, clear_dhcp_owner,
\* retire_dhcp_auto_pump).  While there is an owner, on a link that is up, the
\* attempt is reported as pending and not as the time-out of an earlier one
\* (canonical_ipv4_lease_state looks at the last attempt and at the pump before
\* it looks at the owner).  And what ARP learned belongs to the lease in use:
\* every change of lease empties the cache (apply_dhcp_event,
\* reset_runtime_state).
LeaseRecordsAgree ==
    /\ net.owner = "manual" => call.stage = "acquire" /\ call.gen = net.gen
    /\ net.owner = "auto" <=> net.pump.active
    /\ net.pump.active => net.pump.gen = net.gen /\ IsUsb(net) /\ net.ready /\ net.cfg = 0
    /\ net.owner # "none" /\ net.cfg = 0 /\ Up(net) => CanonicalState(net, Up(net)) = "lease-pending"
    /\ net.arp \subseteq {net.cfg}

\* A call that succeeds leaves no socket behind that was not there before it;
\* nor does a TLS request, however it ends once it is connected.
SocketsGivenBack ==
    [][/\ call.op \in {"lookup", "ping", "get"} /\ call'.op = "idle"
       /\ ret' = "ok" \/ call.stage \in {"hello", "close", "echo"}
       => net'.socks \subseteq call.kept]_vars

\* The firewall refuses the answer to a call it let out only when the address
\* changed in between, or when no rule but the default policy let it out,
\* which is not tracked.
AnswersLetIn ==
    [][\/ ret' = "denied" /\ call.stage \in {"echo", "recv"}
       \/ call'.result = "denied" /\ call.result = "ok"
         => call.by = 0 \/ net'.cfg # call.packet.src]_vars

=============================================================================
