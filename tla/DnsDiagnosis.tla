----------------------------- MODULE DnsDiagnosis -----------------------------
(* Findings about a domain (src-tauri/src/dns/diagnostics.rs and the reports  *)
(* it reads: delegation.rs, dnssec.rs, mx.rs, names.rs, integrity.rs).  Every *)
(* action is one report for every small set of answers, lost ones included;   *)
(* the report is judged by the diagnose_ function of its name.                *)
(*                                                                            *)
(* A list of nameservers is a set; texts, evidence and latencies are left     *)
(* out.  What the resolver library validates is external: any verdict.        *)
EXTENDS Integers, SequencesExt

CONSTANT MaxHops  \* MAX_CNAME_HOPS, 16

VARIABLES
    got,   \* the answers, with the report (of) they are for
    shown  \* the report and what is found

vars == <<got, shown>>

None == "none"
Init == got = [of |-> None] /\ shown = [of |-> None]
Answer(a, s) == got' = a /\ shown' = s

\* DiagnosticStatus::rank.
Ranks == <<"inconclusive", "pass", "info", "warning", "error">>
Statuses == {Ranks[i] : i \in 1..5}
Rank(s) == CHOOSE i \in 1..5 : Ranks[i] = s

\* ProbeResult: an answer is not an empty answer.
Failed == [ok |-> FALSE]
Got(data, aa) == [ok |-> TRUE, data |-> data, aa |-> aa]

-----------------------------------------------------------------------------
(* Delegation *)

Names == {"ns1", "ns2"}
NsAnswers == {Failed} \cup {Got(n, aa) : n \in {{"ns1"}, Names}, aa \in BOOLEAN}
SoaAnswers == {Failed, Got(1, FALSE)} \cup {Got(n, TRUE) : n \in 1..2}
ResolverAnswers == {Failed, Got({}, FALSE), Got({"ns1"}, FALSE), Got(Names, TRUE)}

\* derive_child_ns: what authoritative servers say, taken together.
ChildOf(servers) ==
    UNION {s.ns.data : s \in {t \in Range(servers) : t.ns.ok /\ t.ns.aa}}

\* Without an authoritative answer the resolver is asked, twice: once for the
\* records, once for the error.
DelegationReport(a) ==
    LET direct == ChildOf(a.servers)
        child == IF direct # {} THEN Got(direct, TRUE) ELSE a.first
    IN [parent |-> a.parent,
        child |-> IF child.ok THEN child.data ELSE {},
        childError |-> direct = {} /\ ~a.second.ok,
        servers |-> a.servers,
        authoritative |-> \/ child.ok /\ child.aa
                          \/ \E s \in Range(a.servers) : s.soa.ok /\ s.soa.aa]

ParentKnown(r) == r.parent.ok /\ r.parent.data # {}
ChildKnown(r) == ~r.childError /\ r.child # {}

DiagnoseDelegation(r) ==
    IF ~ParentKnown(r) \/ ~ChildKnown(r) THEN "inconclusive"
    ELSE IF r.parent.data = r.child THEN "pass" ELSE "warning"

\* collect_serials: only an authoritative serial is one.
Heard(servers) == {n \in DOMAIN servers : servers[n].soa.ok /\ servers[n].soa.aa}

DiagnoseSoa(servers) ==
    LET serials == {servers[n].soa.data : n \in Heard(servers)} IN
    IF Cardinality(Heard(servers)) < 2 THEN "inconclusive"
    ELSE IF Cardinality(serials) = 1 THEN "pass" ELSE "warning"

DiagnoseAuthoritative(r) ==
    LET answered == {s \in Range(r.servers) : s.ns.ok \/ s.soa.ok} IN
    IF r.servers = <<>> THEN "inconclusive"
    ELSE IF answered = {} THEN IF ChildKnown(r) THEN "inconclusive" ELSE "error"
    ELSE IF r.authoritative THEN "pass" ELSE "warning"

Delegation ==
    \E parent \in {Failed} \cup {Got(n, FALSE) : n \in SUBSET Names} :
    \E servers \in [IF parent.ok THEN parent.data ELSE {} -> [ns : NsAnswers, soa : SoaAnswers]] :
    \E first, second \in ResolverAnswers :
        LET a == [of |-> "delegation", parent |-> parent, servers |-> servers,
                  first |-> first, second |-> second]
            r == DelegationReport(a)
        IN Answer(a, [delegation |-> DiagnoseDelegation(r), soa |-> DiagnoseSoa(servers),
                      authoritative |-> DiagnoseAuthoritative(r)])

-----------------------------------------------------------------------------
(* DNSSEC, EDNS, wildcard *)

\* presence_query: a query that fails reads as an absent record, with a note.
Present(answer) == answer = "records"

\* validating_lookup: an address lookup that is answered is a validated one;
\* whether the resolver answers for an unsigned name is up to the library.
Validates(lookup) ==
    CASE lookup = "secure" -> {TRUE} [] lookup = "unsigned" -> BOOLEAN [] OTHER -> {FALSE}
DiagnoseDnssec(dnskey, ds, validates) ==
    CASE validates -> "pass"
      [] ~validates /\ Present(ds) -> "error"
      [] ~validates /\ ~Present(ds) /\ Present(dnskey) -> "warning"
      [] OTHER -> "info"

Dnssec ==
    \E dnskey, ds \in {"records", "empty", "failed"} :
    \E lookup \in {"secure", "unsigned", "bogus", "no address", "failed"} :
    \E validates \in Validates(lookup) :
        Answer([of |-> "dnssec", dnskey |-> dnskey, ds |-> ds, lookup |-> lookup],
               [status |-> DiagnoseDnssec(dnskey, ds, validates)])

\* edns_support_check: the first query of two that fails ends the check; code
\* 16 is BADVERS.
DiagnoseEdns(rcode) == IF rcode = 16 THEN "pass" ELSE "info"
Edns ==
    \E opt \in BOOLEAN, high \in 0..1, low \in 0..1 :
        LET rcode == IF opt THEN high * 16 + low ELSE low IN
        Answer([of |-> "edns", rcode |-> rcode], [status |-> DiagnoseEdns(rcode)])

\* wildcard_check: any address for a random label.
DiagnoseWildcard(found) == IF found THEN "info" ELSE "pass"
Wildcard ==
    \E rcode \in {"noerror", "nxdomain"}, answers \in 0..1 :
        Answer([of |-> "wildcard", rcode |-> rcode, answers |-> answers],
               [status |-> DiagnoseWildcard(rcode = "noerror" /\ answers > 0)])

-----------------------------------------------------------------------------
(* Mail exchangers *)

\* A target as parse_mx_rdata leaves it: the dot of a null MX is trimmed away.
Targets == {"host", "alias", "gone", "domain", "address", ""}
Resolves(t) == t \in {"host", "alias", "domain"}

\* mx_report: the issues of one record, given the records before it.
MxIssues(records, i) ==
    LET t == records[i] IN
    IF t = "garbled" THEN {"unparseable"}
    ELSE {x \in {"address", "self", "duplicate", "alias", "unresolved"} :
            CASE x = "address" -> t = "address"
              [] x = "self" -> t = "domain"
              [] x = "duplicate" -> \E j \in 1..(i - 1) : records[j] = t
              [] x = "alias" -> t = "alias"
              [] x = "unresolved" -> ~Resolves(t)}

DiagnoseMx(entries) ==
    IF entries = <<>> THEN "info"
    ELSE IF \A i \in DOMAIN entries : entries[i] = {} THEN "pass" ELSE "warning"

Mx ==
    \E n \in 0..3 : \E records \in [1..n -> Targets \cup {"garbled"}] :
        LET entries == [i \in 1..n |-> MxIssues(records, i)] IN
        Answer([of |-> "mx", records |-> records],
               [entries |-> entries, status |-> DiagnoseMx(entries)])

-----------------------------------------------------------------------------
(* Names *)

\* classify_name: the name exists unless every type is answered NXDOMAIN; one
\* query that fails ends it.  The inventory has what the name has, or nothing.
ExistenceTypes == {"A", "AAAA", "MX", "TXT", "CNAME"}
DiagnoseAddressing(failed) == IF failed THEN "error" ELSE "info"
Existence ==
    \E answers \in [ExistenceTypes -> {"records", "nodata", "nxdomain", "failed"}] :
        LET failed == "failed" \in Range(answers) IN
        Answer([of |-> "existence", answers |-> answers],
               [addressing |-> DiagnoseAddressing(failed),
                exists |-> ~failed /\ \E t \in ExistenceTypes : answers[t] # "nxdomain",
                has |-> IF failed THEN {} ELSE {t \in ExistenceTypes : answers[t] = "records"}])

\* cname_chain, with what the zone answers for each name: another name, or no
\* alias.
Aliases == {"n1", "n2", "n3", "n4"}
Chain(zone) ==
    LET walk[k \in 0..MaxHops] ==
            IF k = 0 THEN [chain |-> <<"n1">>, over |-> FALSE, loop |-> FALSE]
            ELSE LET w == walk[k - 1]
                     next == zone[Last(w.chain)]
                 IN IF w.over THEN w
                    ELSE IF next = None THEN [w EXCEPT !.over = TRUE]
                    ELSE IF next \in Range(w.chain)
                         THEN [w EXCEPT !.over = TRUE, !.loop = TRUE]
                    ELSE [w EXCEPT !.chain = Append(@, next)]
    IN walk[MaxHops]

Cname ==
    \E zone \in [Aliases -> Aliases \cup {None}] :
        Answer([of |-> "cname", zone |-> zone], Chain(zone))

\* reverse_lookup: every name the address has is looked up again, as A and as
\* AAAA; one query that fails ends the lookup.
ReverseLookup ==
    \E names \in SUBSET {"n1", "n2"} :
    \E forward \in [names -> {"failed", "nothing", "other", "same"}] :
        Answer([of |-> "reverse", forward |-> forward],
               [status |-> IF "failed" \in Range(forward) THEN "failed"
                           ELSE IF "same" \in Range(forward) THEN "confirmed"
                           ELSE "unconfirmed"])

-----------------------------------------------------------------------------
(* The resolver itself, and the whole *)

\* resolver_integrity_check: the answers are compared as lists without order.
\* A resolver that does not answer a stranger in time is not open.
Integrity ==
    \E primary, reference \in [rcode : {"noerror", "nxdomain"}, data : SUBSET {"x", "y"}] :
    \E stranger \in {"answer", "refused", "timeout", "failed"} :
        Answer([of |-> "integrity", primary |-> primary, reference |-> reference,
                stranger |-> stranger],
               [match |-> primary.data = reference.data,
                unfiltered |-> primary = reference, open |-> stranger = "answer"])

\* zone_transfer_check asks nothing without the token and TCP; any answer but
\* an error is a transfer, a refusal too.
Transfer ==
    \E token, tcp \in BOOLEAN, reply \in {"records", "refusal", "failed"} :
        Answer([of |-> "transfer", token |-> token, tcp |-> tcp, reply |-> reply],
               [status |-> IF ~token THEN "not asked" ELSE IF ~tcp THEN "unsupported"
                           ELSE IF reply = "failed" THEN "not allowed" ELSE "allowed"])

\* The overall status is the worst; build_summary counts every finding.
Overall(findings) == Ranks[Max({Rank(s) : s \in Range(findings)})]
Counts(findings) ==
    [s \in Statuses |-> Cardinality({i \in DOMAIN findings : findings[i] = s})]
Conclude ==
    \E n \in 1..4 : \E findings \in [1..n -> Statuses] :
        Answer([of |-> "overall", findings |-> findings],
               [status |-> Overall(findings), counts |-> Counts(findings)])

\* run_diagnostics: the address records may be missing, a report of the other
\* five that failed fails the whole.
Reports == {"existence", "delegation", "dnssec", "edns", "wildcard", "mx"}
RunDiagnostics ==
    \E failed \in SUBSET Reports :
        Answer([of |-> "run", failed |-> failed],
               [status |-> IF failed \subseteq {"existence"} THEN "report" ELSE "error"])

\* One report per behaviour.
Next ==
    /\ got.of = None
    /\ \/ Delegation \/ Dnssec \/ Edns \/ Wildcard \/ Mx \/ Existence \/ Cname
       \/ ReverseLookup \/ Integrity \/ Transfer \/ Conclude \/ RunDiagnostics

Spec == Init /\ [][Next]_vars

-----------------------------------------------------------------------------
(* Properties *)

\* Type invariant.
TypeOK ==
    /\ got.of \in Reports \cup {None, "cname", "reverse", "integrity", "transfer", "overall", "run"}
    /\ got.of = "delegation" =>
         shown \in [delegation : Statuses, soa : Statuses, authoritative : Statuses]

\* Names are called consistent or inconsistent only on answers: a name the
\* finding is about was given by the parent, by an authoritative server, or by
\* the resolver when no such server answered.  A zone is called authoritative
\* only on an authoritative answer, unreachable only if no server answered.
DelegationFounded ==
    got.of = "delegation" =>
        LET authorities == {s \in Range(got.servers) : s.ns.ok /\ s.ns.aa}
            said == IF authorities # {} THEN UNION {s.ns.data : s \in authorities}
                    ELSE IF got.first.ok THEN got.first.data ELSE {}
        IN /\ shown.delegation = "pass" => got.parent.ok /\ said = got.parent.data /\ said # {}
           /\ shown.delegation = "warning" => said # {} /\ said # got.parent.data
           /\ shown.authoritative = "pass" =>
                authorities # {} \/ Heard(got.servers) # {} \/ (got.first.ok /\ got.first.aa)
           /\ shown.authoritative = "error" =>
                \A s \in Range(got.servers) : ~s.ns.ok /\ ~s.soa.ok

\* Serials: an answer that is lost never turns agreement into disagreement,
\* and disagreement is between two servers that were heard.
LostIsNotWrong ==
    got.of = "delegation" =>
        /\ shown.soa = "warning" =>
             \E m, n \in Heard(got.servers) : got.servers[m].soa.data # got.servers[n].soa.data
        /\ \A lost \in SUBSET (DOMAIN got.servers) :
             LET rest == [n \in DOMAIN got.servers |->
                            IF n \in lost THEN [got.servers[n] EXCEPT !.soa = Failed]
                            ELSE got.servers[n]]
             IN shown.soa = "pass" => DiagnoseSoa(rest) \in {"pass", "inconclusive"}

\* A broken chain of trust is reported only for a zone whose parent has a DS
\* record, and for no name that validated; a sound one only for a name that
\* did, or is unsigned.
DnssecFounded ==
    got.of = "dnssec" =>
        /\ shown.status = "error" => got.ds = "records" /\ got.lookup # "secure"
        /\ shown.status = "pass" => got.lookup \in {"secure", "unsigned"}

\* The mail finding passes only if every record is of a name of its own that
\* resolves and is no alias; of equal records one is not called a duplicate.
MxUsable ==
    got.of = "mx" =>
        /\ shown.status = "pass" =>
             /\ got.records # <<>>
             /\ Range(got.records) \subseteq {"host"}
             /\ Cardinality(Range(got.records)) = Len(got.records)
        /\ \A t \in Range(got.records) \ {"garbled"} :
             Cardinality({i \in DOMAIN got.records :
                            got.records[i] = t /\ "duplicate" \notin shown.entries[i]}) = 1

\* The chain of aliases is followed without a gap or a repetition, ends where
\* the aliases end, and a loop is reported exactly when they lead back.
ChainFollowed ==
    got.of = "cname" =>
        LET c == shown.chain
            next == got.zone[Last(c)]
        IN /\ \A i \in 1..(Len(c) - 1) : got.zone[c[i]] = c[i + 1]
           /\ Cardinality(Range(c)) = Len(c) /\ Len(c) <= MaxHops + 1
           /\ shown.loop => next \in Range(c)
           /\ ~shown.loop => next = None \/ Len(c) = MaxHops + 1

\* No finding is lost in the summary, and the overall status is one of them
\* that no other outranks.
NoneLost ==
    got.of = "overall" =>
        /\ MapThenSumSet(LAMBDA s : shown.counts[s], Statuses) = Len(got.findings)
        /\ shown.status \in Range(got.findings)
        /\ \A s \in Range(got.findings) : Rank(s) <= Rank(shown.status)
=============================================================================
