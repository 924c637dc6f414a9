------------------------------ MODULE Firewall ------------------------------
(***************************************************************************)
(* WarGuard, the packet filter of kernel/src/security/firewall.            *)
(*                                                                         *)
(* The guard is a record g: its ordered rules, the next rule id, the       *)
(* connections that were let out, oldest first, and whether it is on.  A   *)
(* packet is a record with a direction, a protocol, two addresses and two  *)
(* ports.  A connection carries its age instead of its last tick, capped   *)
(* at the age from which it is dead.  The hit counts and totals of         *)
(* `firewall status` and the audit entries are left out.                   *)
(***************************************************************************)
EXTENDS Naturals, Sequences, SequencesExt

CONSTANTS MaxConnections,     \* MAX_CONNECTIONS of the connection tracker
          ConnectionTimeout   \* CONNECTION_TIMEOUT_TICKS

ASSUME FirewallAssumption ==
    MaxConnections \in Nat \ {0} /\ ConnectionTimeout \in Nat \ {0}

AnyPort == 65536      \* port: None

Rule(id, dir, proto, port, action) ==
    [id |-> id, dir |-> dir, proto |-> proto, port |-> port, action |-> action]

DefaultRules ==
    << Rule(1, "out", "tcp", 443, "allow"), Rule(2, "out", "tcp", 80, "allow"),
       Rule(3, "out", "udp", 53, "allow"), Rule(4, "out", "icmp", AnyPort, "allow"),
       Rule(5, "out", "any", AnyPort, "allow"), Rule(6, "in", "any", AnyPort, "deny") >>

NewGuard == [rules |-> DefaultRules, next |-> 7, conns |-> <<>>, enabled |-> TRUE]

Packet(dir, proto, src, dst, sport, dport) ==
    [dir |-> dir, proto |-> proto, src |-> src, dst |-> dst, sport |-> sport, dport |-> dport]

\* The packet that answers p.
Reply(p) == Packet("in", p.proto, p.dst, p.src, p.dport, p.sport)

Matches(r, p) ==
    r.dir = p.dir /\ r.proto \in {"any", p.proto} /\ r.port \in {AnyPort, p.dport}

Live(c) == c.age < ConnectionTimeout

\* Time passes.
Tick(g) == [g EXCEPT !.conns = [i \in DOMAIN @ |->
                                  [@[i] EXCEPT !.age = IF Live(g.conns[i]) THEN @ + 1 ELSE @]]]

BugIsEstablishedResponse(g, p) ==
    \E i \in DOMAIN g.conns : g.conns[i].packet = [p EXCEPT !.dir = "out"] /\ Live(g.conns[i])

IsEstablishedResponse(g, p) ==
    \E i \in DOMAIN g.conns : Reply(g.conns[i].packet) = p /\ Live(g.conns[i])

\* A known connection is refreshed in place; a new one goes to the end, after
\* the dead ones and, when the table is full, the oldest one have made room.
TrackOutbound(g, p) ==
    LET known == SelectInSeq(g.conns, LAMBDA c : c.packet = p)
        live  == SelectSeq(g.conns, LAMBDA c : Live(c))
        room  == IF Len(live) >= MaxConnections THEN Tail(live) ELSE live
    IN [g EXCEPT !.conns = IF known # 0 THEN [@ EXCEPT ![known].age = 0]
                                        ELSE Append(room, [packet |-> p, age |-> 0])]

Decision(g, action, by) == [g |-> g, action |-> action, by |-> by]

\* What is done with packet p, by which rule (0: none of them), and the guard
\* after it.  Only what a rule lets out is tracked.
ProcessPacket(g, p) ==
    LET first == SelectInSeq(g.rules, LAMBDA r : Matches(r, p))
        rule  == g.rules[first]
    IN CASE ~g.enabled -> Decision(g, "allow", 0)
         [] g.enabled /\ p.dir = "in" /\ IsEstablishedResponse(g, p) -> Decision(g, "allow", 0)
         [] OTHER ->
              IF first = 0 THEN Decision(g, IF p.dir = "in" THEN "deny" ELSE "allow", 0)
              ELSE Decision(IF rule.action = "allow" /\ p.dir = "out"
                            THEN TrackOutbound(g, p) ELSE g, rule.action, rule.id)

\* A new rule goes in before the last one.
AddRule(g, dir, proto, port, action) ==
    LET n == Len(g.rules)
        new == Rule(g.next, dir, proto, port, action)
    IN [g EXCEPT !.next = @ + 1,
                 !.rules = InsertAt(@, IF n > 1 THEN n ELSE n + 1, new)]

RemoveRule(g, id) == [g EXCEPT !.rules = SelectSeq(@, LAMBDA r : r.id # id)]
=============================================================================
