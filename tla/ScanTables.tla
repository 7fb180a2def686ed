------------------------------ MODULE ScanTables ------------------------------
(* What a LAN scan looks things up in (src-tauri/src/scan): the addresses of  *)
(* a range (cidr.rs), the neighbour table (arp.rs), the vendor of a hardware  *)
(* address (oui.rs) and the interfaces to choose from (interfaces.rs).        *)
(*                                                                            *)
(* Numbers are scaled: addresses have five bits, of which two at least are    *)
(* network; a hardware address is six bits, in "bytes" of two.                *)
EXTENDS Integers, FiniteSets, SequencesExt

VARIABLES
    got,   \* what is looked up (of), and in what
    shown  \* what is found

vars == <<got, shown>>

None == "none"
Init == got = [of |-> None] /\ shown = [of |-> None]
Answer(a, s) == got' = a /\ shown' = s

-----------------------------------------------------------------------------
(* Ranges *)

AddressBits == 5   \* 32
MinPrefix == 2     \* MAX_PREFIX_LEN, 22
NoPrefix == -1     \* text that is no number

\* expand_ipv4_cidr: all addresses of the network but the first and the last.
Expand(base, prefix) ==
    LET size == 2 ^ (AddressBits - prefix)
        network == base - (base % size)
    IN IF size <= 2 THEN {} ELSE {network + i : i \in 1..size - 2}

Cidr ==
    \E base \in {NoPrefix} \cup 0..2 ^ AddressBits - 1, prefix \in NoPrefix..AddressBits + 1 :
        Answer([of |-> "cidr", base |-> base, prefix |-> prefix],
               IF base = NoPrefix \/ prefix \notin 0..AddressBits
               THEN [refused |-> "invalid"]
               ELSE IF prefix < MinPrefix THEN [refused |-> "too large"]
               ELSE [hosts |-> Expand(base, prefix)])

-----------------------------------------------------------------------------
(* Neighbours *)

\* normalize_mac: six bytes, neither all zero (nor all ones, treated alike); a
\* missing entry has another text.
Macs == {"mac", "zero", "text"}
Normal(mac) == mac = "mac"

\* /proc/net/arp has flags, and an entry of flags 0 is incomplete; arp -a has
\* none.  The file is read if the command gives no entry.
Entries == [ip : {1, 2, NoPrefix}, mac : Macs, complete : BOOLEAN]
Parsed(entries, flagged) ==
    {e.ip : e \in {x \in entries : x.ip # NoPrefix /\ Normal(x.mac) /\ (flagged => x.complete)}}

Neighbours ==
    \E command, file \in {{}} \cup {{e, f} : e \in Entries, f \in {x \in Entries : x.mac = "zero" /\ x.ip = 1}},
       readable \in BOOLEAN :
        LET first == Parsed(command, FALSE) IN
        Answer([of |-> "arp", command |-> command, file |-> file, readable |-> readable],
               IF first # {} THEN [table |-> first]
               ELSE IF ~readable THEN [refused |-> "arp"]
               ELSE [table |-> Parsed(file, TRUE)])

-----------------------------------------------------------------------------
(* Vendors *)

\* prefix_matches, by whole bytes and then by the bits that are left.  A prefix
\* that has fewer bytes than its bits say has none to compare.
ByteBits == 2
Matches(mac, entry) ==
    LET full == (entry.bits \div ByteBits) * ByteBits IN
    IF Len(entry.prefix) < full \/ (entry.bits > full /\ Len(entry.prefix) = full)
    THEN FALSE
    ELSE \A i \in 1..entry.bits : mac[i] = entry.prefix[i]

\* parse: longest prefix first; prefixes of one length stay in their order.
Sorted(entries) ==
    LET order == SortSeq([i \in DOMAIN entries |-> i],
                         LAMBDA i, j : \/ entries[i].bits > entries[j].bits
                                       \/ entries[i].bits = entries[j].bits /\ i < j)
    IN [k \in DOMAIN entries |-> entries[order[k]]]

\* lookup: an address that is administered locally (the last bit but one of its
\* first byte, here the last) has no vendor.
Lookup(entries, mac) ==
    LET s == Sorted(entries)
        hits == {i \in DOMAIN s : Matches(mac, s[i])}
    IN IF mac[2] = 1 THEN "randomized"
       ELSE IF hits = {} THEN None ELSE s[Min(hits)].vendor

Bits(n) == [1..n -> 0..1]
VendorPrefixes == [bits : 1..4, prefix : Bits(2) \cup {b \in Bits(4) : b[3] = 1 /\ b[4] = 1}]
Vendor ==
    \E mac \in {<<0, 0, 1, 1, 0, 0>>, <<0, 0, 1, 0, 0, 0>>, <<1, 0, 1, 1, 0, 0>>, <<0, 1, 1, 1, 0, 0>>} :
    \E n \in 0..2 : \E es \in [1..n -> VendorPrefixes] :
        LET entries == [i \in 1..n |-> [bits |-> es[i].bits, prefix |-> es[i].prefix,
                                        vendor |-> <<"v1", "v2">>[i]]]
        IN Answer([of |-> "vendor", mac |-> mac, entries |-> entries],
                  [vendor |-> Lookup(entries, mac)])

-----------------------------------------------------------------------------
(* Interfaces *)

\* filter_interface_candidates: those that are up and real, with a gateway
\* first; the sort keeps the order of equals.
Candidates == [up : BOOLEAN, loopback : BOOLEAN, virtual : BOOLEAN, gateway : BOOLEAN]
Usable(c) == c.up /\ ~c.loopback /\ ~c.virtual
Reasons(c) == Cardinality({f \in {"up", "loopback", "virtual"} : c[f] = (f # "up")})
Interfaces ==
    \E n \in 0..3 : \E cs \in [1..n -> {c \in Candidates : Reasons(c) <= 1}] :
        LET usable == SelectSeq([i \in 1..n |-> i], LAMBDA i : Usable(cs[i])) IN
        Answer([of |-> "interfaces", candidates |-> cs],
               [list |-> SelectSeq(usable, LAMBDA i : cs[i].gateway)
                           \o SelectSeq(usable, LAMBDA i : ~cs[i].gateway)])

\* One lookup per behaviour.
Next == got.of = None /\ (Cidr \/ Neighbours \/ Vendor \/ Interfaces)

Spec == Init /\ [][Next]_vars

-----------------------------------------------------------------------------
(* Properties *)

\* Type invariant.
TypeOK == got.of \in {None, "cidr", "arp", "vendor", "interfaces"}

\* A range is the addresses that share the network of the one that was given,
\* without the two that are no hosts; two ranges of one length are the same or
\* have no address in common.
RangesRight ==
    got.of = "cidr" /\ "hosts" \in DOMAIN shown =>
        LET size == 2 ^ (AddressBits - got.prefix)
            one == {a \in 0..2 ^ AddressBits - 1 : a \div size = got.base \div size}
        IN /\ shown.hosts \subseteq one
           /\ size > 2 => one \ shown.hosts = {Min(one), Max(one)}
           /\ \A b \in 0..2 ^ AddressBits - 1 :
                \/ Expand(b, got.prefix) = shown.hosts
                \/ Expand(b, got.prefix) \cap shown.hosts = {}

\* A vendor is that of the longest prefix the address begins with, the first
\* one of that length.
LongestPrefix ==
    got.of = "vendor" /\ shown.vendor \in {"v1", "v2"} =>
        LET begins(e) == e.bits <= Len(e.prefix) /\ \A i \in 1..e.bits : got.mac[i] = e.prefix[i]
            es == got.entries
        IN \E i \in DOMAIN es :
             /\ es[i].vendor = shown.vendor /\ begins(es[i])
             /\ \A j \in DOMAIN es : begins(es[j]) =>
                  es[j].bits < es[i].bits \/ (es[j].bits = es[i].bits /\ i <= j)

\* An interface that has a gateway is offered before one that has none, and
\* nothing usable is left out.
GatewayFirst ==
    got.of = "interfaces" =>
        /\ Range(shown.list) = {i \in DOMAIN got.candidates : Usable(got.candidates[i])}
        /\ \A i, j \in DOMAIN shown.list :
             got.candidates[shown.list[j]].gateway /\ ~got.candidates[shown.list[i]].gateway => j < i
=============================================================================
