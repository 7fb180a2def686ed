------------------------------ MODULE DnsAnswers ------------------------------
(* One DNS query (src-tauri/src/dns/query.rs, query/, client.rs, error.rs)    *)
(* and the transport checks made of them (transport.rs).                      *)
(*                                                                            *)
(* An address is its form; a port is the given one ("own") or the one of the  *)
(* protocol.  The exchange itself is the library's: it answers, fails with    *)
(* one of its errors, or lets the time pass.                                  *)
EXTENDS Integers, SequencesExt

VARIABLES
    got,   \* what is asked for (of), and what the resolver does
    shown  \* what the app makes of it

vars == <<got, shown>>

None == "none"
Init == got = [of |-> None] /\ shown = [of |-> None]
Answer(a, s) == got' = a /\ shown' = s

-----------------------------------------------------------------------------
(* Endpoints *)

Protocols == {"udp", "tcp", "tls", "https", "quic", "h3"}
DefaultPort(p) ==
    CASE p \in {"udp", "tcp"} -> 53 [] p \in {"tls", "quic"} -> 853 [] OTHER -> 443

Addresses == {"ip", "ip:port", "name", "https://ip", "https://ip:port", "https://name",
              "http://ip"}

\* parse_socket_endpoint and parse_url_endpoint.
Own == 1
NoPort == -1
SocketPort(a, default) ==
    CASE a = "ip:port" -> Own [] a = "ip" -> default [] OTHER -> NoPort
UrlPort(a, default) ==
    CASE a = "https://ip:port" -> Own [] a = "https://ip" -> default [] OTHER -> NoPort

\* resolver_config, of the resolver and of the one that validates.
ResolverPort(p, a) ==
    IF p \in {"https", "h3"} THEN UrlPort(a, DefaultPort(p)) ELSE SocketPort(a, DefaultPort(p))

Configure ==
    \E p \in Protocols, a \in Addresses :
        Answer([of |-> "resolver", protocol |-> p, address |-> a],
               [end |-> IF ResolverPort(p, a) = NoPort THEN "invalid-endpoint" ELSE "resolver"])

\* exchange speaks three of the protocols, each with its own default port.
QueryPort(p, a) == SocketPort(a, IF p = "tls" THEN 853 ELSE 53)

\* net_to_dns_error, behind the timeout of the query.
Ends == {"answer", "silence", "timeout", "io", "proto", "other"}
Ended(e) ==
    CASE e \in {"silence", "timeout"} -> "timeout" [] e = "io" -> "io"
      [] e = "proto" -> "resolution" [] e = "other" -> "transport" [] OTHER -> "answer"

\* query_once: the name is parsed first, then the protocol decides, then the
\* address; a stream is connected before anything is sent.
QueryOnce(a) ==
    IF ~a.name THEN "invalid-input"
    ELSE IF a.protocol \in {"https", "quic", "h3"} THEN "unsupported-transport"
    ELSE IF QueryPort(a.protocol, a.address) = NoPort THEN "invalid-endpoint"
    ELSE IF a.protocol # "udp" /\ a.connect # "answer" THEN Ended(a.connect)
    ELSE Ended(a.ends)

Query ==
    \E p \in Protocols, address \in {"ip", "ip:port", "name"}, name \in BOOLEAN,
       connect, ends \in Ends :
        LET a == [of |-> "query", protocol |-> p, address |-> address, name |-> name,
                  connect |-> connect, ends |-> ends]
        IN Answer(a, [end |-> QueryOnce(a)])

-----------------------------------------------------------------------------
(* Answers *)

\* build_result: the code of the header has four bits, the OPT record adds
\* eight above them.
FullRcode(r) == (IF r.opt THEN r.high ELSE 0) * 16 + (r.low % 16)
Rcode(r) ==
    CASE FullRcode(r) = 0 -> "noerror" [] FullRcode(r) = 3 -> "nxdomain"
      [] FullRcode(r) = 16 -> "badvers" [] OTHER -> "other"

\* is_nodata and is_nxdomain.
NoData(r) == r.low = 0 /\ r.answers = 0 /\ r.soa
NxDomain(r) == Rcode(r) = "nxdomain"

\* An answer without an OPT record, and one of a code above fifteen, comes
\* without an SOA record.
Result ==
    \E r \in [low : {0, 3, 5}, high : 0..1, opt : BOOLEAN, answers : 0..2, soa : BOOLEAN] :
        /\ r.high > 0 => r.opt /\ ~r.soa
        /\ Answer([of |-> "result", r |-> r],
                  [full |-> FullRcode(r), rcode |-> Rcode(r), nodata |-> NoData(r),
                   nxdomain |-> NxDomain(r)])

\* RecordTypeSpec: a name, or the number of a type as text.
RecordTypes == {"A", "AAAA", "MX", "TXT", "NS", "SOA", "CNAME", "SRV", "CAA", "PTR", "AXFR"}
TypeOf(text) ==
    IF text.name \in RecordTypes THEN text.name
    ELSE IF text.number \in 0..65535 THEN "by number" ELSE "invalid-input"
RecordType ==
    \E text \in [name : RecordTypes \cup {None}, number : {-1, 0, 48, 65535, 65536}] :
        /\ text.name # None => text.number = -1
        /\ Answer([of |-> "type", text |-> text], [type |-> TypeOf(text)])

-----------------------------------------------------------------------------
(* Transports *)

\* tcp_fallback_check: TCP is asked when UDP says it was cut.
Fallback ==
    \E udp \in {"failed", "cut", "whole"}, tcp \in {"failed", "answer"} :
        Answer([of |-> "fallback", udp |-> udp, tcp |-> tcp],
               [tcp |-> IF udp = "failed" THEN "failed"
                        ELSE IF udp = "whole" THEN "not needed"
                        ELSE IF tcp = "answer" THEN "works" ELSE "broken"])

\* edns_buffer_sweep: four sizes, ended by the first query that fails.
Sizes == <<512, 1232, 1400, 4096>>
Sweep ==
    \E answered \in 0..4 :
        Answer([of |-> "sweep", answered |-> answered],
               [sizes |-> IF answered < 4 THEN <<>> ELSE Sizes])

\* transport_equivalence: a row per endpoint, failed ones included; the hash is
\* that of the sorted answers.
Hash(answers) == [x \in {"x", "y"} |-> Cardinality({i \in DOMAIN answers : answers[i] = x})]
Row(e) ==
    IF e.end # "answer" THEN [protocol |-> e.protocol, error |-> e.end]
    ELSE [protocol |-> e.protocol, hash |-> Hash(e.answers)]
Endpoints ==
    [protocol : {"tcp"}, end : {"timeout", "io"}, answers : {<<>>}]
      \cup [protocol : {"udp", "tls"}, end : {"answer"},
            answers : {<<"x">>, <<"x", "y">>, <<"y", "x">>, <<"x", "x">>}]
Equivalence ==
    \E n \in 0..3 : \E es \in [1..n -> Endpoints] :
        Answer([of |-> "equivalence", endpoints |-> es],
               [rows |-> [i \in 1..n |-> Row(es[i])]])

\* One question per behaviour.
Next ==
    /\ got.of = None
    /\ \/ Configure \/ Query \/ Result \/ RecordType \/ Fallback \/ Sweep \/ Equivalence

Spec == Init /\ [][Next]_vars

-----------------------------------------------------------------------------
(* Properties *)

\* Type invariant.
TypeOK ==
    got.of \in {None, "resolver", "query", "result", "type", "fallback", "sweep", "equivalence"}

\* A protocol that the queries speak takes the same addresses, at the same
\* port, in a query as in the resolver.
SameEndpoint ==
    got.of = "query" /\ got.protocol \in {"udp", "tcp", "tls"} =>
        QueryPort(got.protocol, got.address) = ResolverPort(got.protocol, got.address)

\* A query is answered only over a protocol that was spoken to an address that
\* was one; what is said to be a timeout is one.
AnswersMeant ==
    got.of = "query" =>
        /\ shown.end = "answer" => got.name /\ got.protocol \in {"udp", "tcp", "tls"} /\ got.address # "name"
        /\ shown.end = "timeout" => {got.connect, got.ends} \cap {"silence", "timeout"} # {}

\* The two halves of a response code are put together without loss, and an
\* empty answer is either no data or no such name, never both.
CodesWhole ==
    got.of = "result" =>
        /\ shown.full % 16 = got.r.low /\ (got.r.opt => shown.full \div 16 = got.r.high)
        /\ ~(shown.nodata /\ shown.nxdomain)
        /\ shown.nodata => shown.rcode = "noerror"

\* Transports are compared whatever order their answers come in, and a
\* transport that failed is never equal to one that answered.
Comparable ==
    got.of = "equivalence" =>
        \A i, j \in DOMAIN shown.rows :
            LET e == got.endpoints[i]
                f == got.endpoints[j]
                same == "hash" \in DOMAIN shown.rows[i] /\ "hash" \in DOMAIN shown.rows[j]
                          /\ shown.rows[i].hash = shown.rows[j].hash
            IN same <=> e.end = "answer" /\ f.end = "answer"
                          /\ SortSeq(e.answers, LAMBDA x, y : x = "x" /\ y = "y")
                             = SortSeq(f.answers, LAMBDA x, y : x = "x" /\ y = "y")
=============================================================================
