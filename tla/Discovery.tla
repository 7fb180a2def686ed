------------------------------ MODULE Discovery ------------------------------
(* What a LAN scan finds (src-tauri/src/scan/discovery.rs, ports.rs, rdns.rs, *)
(* arp.rs): the sweep over the addresses of a range, and the port probes of   *)
(* one host.  ScanRun has the scan they are a part of.                        *)
(*                                                                            *)
(* A sweep is four stages, each over before the next begins.  Its probes run  *)
(* as tasks of their own, as many at once as there are permits, and end in    *)
(* any order.  What a host answers to is fixed for the sweep.  The stop flag  *)
(* of the scan is not read by a sweep; the port probes read it.               *)
EXTENDS Integers, FiniteSets, SequencesExt

CONSTANTS
    Range4,    \* the addresses of the range, numbers
    Neighbour, \* an address of another network, in the ARP table
    PingSlots, \* PING_CONCURRENCY, 128
    PortSlots, \* DEFAULT_PORT_CONCURRENCY, 32
    PortCount  \* ports of COMMON_PORTS, 25

VARIABLES
    net,   \* what the hosts answer to, and the choice of the user
    sweep, \* discover_with: stage, todo, running, hits, found
    ports  \* probe_ports_with_connector for one host

vars == <<net, sweep, ports>>

Addresses == Range4 \cup {Neighbour}
Ports == 1..PortCount

\* An address of another network is in the ARP table at most.  What a host
\* answers to tells nothing of its ports: they are probed (portsEnabled) where
\* every address answers the ping.
Nets ==
    {n \in [ping : SUBSET Range4, tcp : SUBSET Range4, arp : SUBSET Addresses,
            named : {Range4}, fallback : BOOLEAN, portsEnabled : BOOLEAN, open : SUBSET Ports] :
        IF n.portsEnabled THEN n.ping = Range4 /\ n.tcp = {} /\ n.arp = {} /\ ~n.fallback
        ELSE n.open = {}}

AtRest == [stage |-> "ping", todo |-> Range4, running |-> {}, ping |-> {}, tcp |-> {},
           names |-> {}, found |-> <<>>]

\* next: the port to start; waiting: started, without a permit; late: started
\* after the stop.
NoPorts == [pc |-> "idle", next |-> 1, waiting |-> {}, running |-> {}, open |-> {},
            result |-> <<>>, stop |-> FALSE, late |-> 0]

Init == net \in Nets /\ sweep = AtRest /\ ports = NoPorts

-----------------------------------------------------------------------------
(* The sweep *)

Probing == sweep.stage \in {"ping", "tcp"}

\* probe_hosts: every address has its task; one with a permit probes.
ProbeStart ==
    /\ Probing /\ Cardinality(sweep.running) < PingSlots
    /\ \E a \in sweep.todo :
         sweep' = [sweep EXCEPT !.todo = @ \ {a}, !.running = @ \cup {a}]
    /\ UNCHANGED <<net, ports>>

\* ping_once, or tcp_once, which tries four ports: an answer in time is a hit.
Alive(a) == IF sweep.stage = "ping" THEN a \in net.ping ELSE a \in net.tcp
ProbeEnd ==
    /\ Probing
    /\ \E a \in sweep.running :
         sweep' = [sweep EXCEPT !.running = @ \ {a},
                                !.ping = IF sweep.stage = "ping" /\ Alive(a)
                                         THEN @ \cup {a} ELSE @,
                                !.tcp = IF sweep.stage = "tcp" /\ Alive(a)
                                        THEN @ \cup {a} ELSE @]
    /\ UNCHANGED <<net, ports>>

StageOver == sweep.todo = {} /\ sweep.running = {}

\* The misses are asked by TCP if the user said so.
TcpTodo == Range4 \ sweep.ping

PingOver ==
    /\ sweep.stage = "ping" /\ StageOver
    /\ sweep' = IF net.fallback THEN [sweep EXCEPT !.stage = "tcp", !.todo = TcpTodo]
                ELSE [sweep EXCEPT !.stage = "arp"]
    /\ UNCHANGED <<net, ports>>

TcpOver ==
    /\ sweep.stage = "tcp" /\ StageOver
    /\ sweep' = [sweep EXCEPT !.stage = "arp"]
    /\ UNCHANGED <<net, ports>>

\* merge_hosts: the hits and what else the ARP table has, whatever its
\* network, by address; a host is found by the first probe it answered.
FoundBy(a) ==
    IF a \in sweep.ping THEN "ping" ELSE IF a \in sweep.tcp THEN "tcp" ELSE "arp"
Merged ==
    LET ips == SetToSortSeq(sweep.ping \cup sweep.tcp \cup net.arp, <) IN
    [i \in DOMAIN ips |-> [ip |-> ips[i], mac |-> ips[i] \in net.arp,
                           by |-> FoundBy(ips[i]), named |-> FALSE]]

\* A table that cannot be read costs the whole sweep.
ReadArp ==
    /\ sweep.stage = "arp"
    /\ \/ sweep' = [sweep EXCEPT !.stage = "failed"]
       \/ sweep' = [sweep EXCEPT !.stage = "names", !.found = Merged,
                                 !.todo = {Merged[i].ip : i \in DOMAIN Merged}]
    /\ UNCHANGED <<net, ports>>

\* add_hostnames: one task per host.  Each makes a resolve_many of its own, and
\* its own sixty-four permits: nothing bounds the lookups.
NameStart ==
    /\ sweep.stage = "names" /\ sweep.todo # {}
    /\ sweep' = [sweep EXCEPT !.running = @ \cup sweep.todo, !.todo = {}]
    /\ UNCHANGED <<net, ports>>

NameEnd ==
    /\ sweep.stage = "names"
    /\ \E a \in sweep.running :
         sweep' = [sweep EXCEPT !.running = @ \ {a},
                                !.names = IF a \in net.named THEN @ \cup {a} ELSE @]
    /\ UNCHANGED <<net, ports>>

NamesOver ==
    /\ sweep.stage = "names" /\ StageOver
    /\ sweep' = [sweep EXCEPT !.stage = "done",
                              !.found = [i \in DOMAIN @ |->
                                [@[i] EXCEPT !.named = sweep.found[i].ip \in sweep.names]]]
    /\ UNCHANGED <<net, ports>>

-----------------------------------------------------------------------------
(* The ports of a host, once the sweep is done *)

Stop ==
    /\ ports.pc \in {"start", "pause"} /\ ~ports.stop
    /\ ports' = [ports EXCEPT !.stop = TRUE]
    /\ UNCHANGED <<net, sweep>>

PortsBegin ==
    /\ sweep.stage = "done" /\ net.portsEnabled /\ ports.pc = "idle"
    /\ \E stopped \in BOOLEAN :
         ports' = [ports EXCEPT !.pc = IF stopped THEN "over" ELSE "start", !.stop = stopped]
    /\ UNCHANGED <<net, sweep>>

\* The task of the port is started; the loop comes back to the pause.
PortStart ==
    /\ ports.pc = "start" /\ ports.next <= PortCount
    /\ ports' = [ports EXCEPT !.waiting = @ \cup {ports.next}, !.next = @ + 1,
                              !.late = IF ports.stop THEN @ + 1 ELSE @,
                              !.pc = IF ports.next = PortCount THEN "join" ELSE "pause"]
    /\ UNCHANGED <<net, sweep>>

\* The flag is read, then the interval passes or the flag is set.
PortPause ==
    /\ ports.pc = "pause"
    /\ ports' = [ports EXCEPT !.pc = IF ports.stop THEN "join" ELSE "start"]
    /\ UNCHANGED <<net, sweep>>

\* The tasks that were started go on after a stop, also those without a permit.
PortPermit ==
    /\ Cardinality(ports.running) < PortSlots
    /\ \E p \in ports.waiting :
         ports' = [ports EXCEPT !.waiting = @ \ {p}, !.running = @ \cup {p}]
    /\ UNCHANGED <<net, sweep>>

PortEnd ==
    /\ \E p \in ports.running :
         ports' = [ports EXCEPT !.running = @ \ {p},
                                !.open = IF p \in net.open THEN @ \cup {p} ELSE @]
    /\ UNCHANGED <<net, sweep>>

PortsOver ==
    /\ ports.pc = "join" /\ ports.waiting = {} /\ ports.running = {}
    /\ ports' = [ports EXCEPT !.pc = "over", !.result = SetToSortSeq(ports.open, <)]
    /\ UNCHANGED <<net, sweep>>

Next ==
    \/ ProbeStart \/ ProbeEnd \/ PingOver \/ TcpOver \/ ReadArp
    \/ NameStart \/ NameEnd \/ NamesOver
    \/ Stop \/ PortsBegin \/ PortStart \/ PortPause \/ PortPermit \/ PortEnd \/ PortsOver

Spec == Init /\ [][Next]_vars

-----------------------------------------------------------------------------
(* Properties *)

\* Type invariant.
TypeOK ==
    /\ sweep.stage \in {"ping", "tcp", "arp", "names", "done", "failed"}
    /\ sweep.todo \cup sweep.running \subseteq Addresses
    /\ ports.pc \in {"idle", "start", "pause", "join", "over"}
    /\ ports.waiting \cup ports.running \cup ports.open \subseteq Ports

\* Every host that answered to something it was asked, or that is in the ARP
\* table, is found, once, in order, by the strongest evidence there is; no
\* other is, and an address of another network only by ARP.  It has its own
\* name, if it has one.
FoundAsAnswered ==
    sweep.stage = "done" =>
        LET f == sweep.found
            answered == net.ping \cup net.arp \cup (IF net.fallback THEN net.tcp ELSE {})
        IN /\ {f[i].ip : i \in DOMAIN f} = answered
           /\ \A i, j \in DOMAIN f : i < j => f[i].ip < f[j].ip
           /\ \A i \in DOMAIN f :
                /\ f[i].by = IF f[i].ip \in net.ping THEN "ping"
                             ELSE IF net.fallback /\ f[i].ip \in net.tcp THEN "tcp" ELSE "arp"
                /\ f[i].mac = (f[i].ip \in net.arp) /\ f[i].named = (f[i].ip \in net.named)

\* Probes stay within their permits, and no host is asked by TCP that answered
\* a ping or whose ping is not over.
ProbesBounded ==
    /\ Probing => Cardinality(sweep.running) <= PingSlots
    /\ Cardinality(ports.running) <= PortSlots
    /\ sweep.stage = "tcp" => (sweep.todo \cup sweep.running) \cap net.ping = {}

\* After a stop at most one more port is started, and none that was started is
\* lost: the result has every open one of them, in order.
PortsWhole ==
    /\ ports.late <= 1
    /\ ports.pc = "over" /\ ports.next > 1 =>
         /\ Range(ports.result) = net.open \cap (1..(ports.next - 1))
         /\ \A i, j \in DOMAIN ports.result : i < j => ports.result[i] < ports.result[j]
=============================================================================
