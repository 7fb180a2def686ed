------------------------------- MODULE DnsMail -------------------------------
(* Email security of a domain (src-tauri/src/dns/email.rs): the SPF record    *)
(* and the DNS lookups it costs, the DKIM keys, the DMARC policy.             *)
(*                                                                            *)
(* A record is what its terms amount to.  A TXT answer is a list of strings,  *)
(* of which some are SPF records.  The walk over included records is a stack  *)
(* of frames, as the calls of count_spf_lookups nest; the zones are fixed     *)
(* while it runs.  The verdict is judged for every outcome a walk can have.   *)
EXTENDS Integers, SequencesExt

CONSTANTS
    Domains,     \* domains that include each other; Root is asked about
    Root,
    LookupLimit, \* SPF_LOOKUP_LIMIT, 10
    MaxDepth,    \* SPF_MAX_DEPTH, 5
    MaxTerms     \* bound on the terms of a record; the root's has one more

VARIABLES
    got,   \* what was asked (of), and the answer
    shown, \* the verdict
    zone,  \* domain -> the terms of its record, Missing or Lost, once walked
    walk   \* count_spf_lookups: frames, visited, count, done

vars == <<got, shown, zone, walk>>

None == "none"
\* Terms that cost a lookup, one that costs none, and the domains included
\* (include: and redirect= are treated alike).
Terms == {"a", "ip4"} \cup Domains
Records == UNION {[1..n -> Terms] : n \in 0..MaxTerms}
Missing == <<None>>
Lost == <<"failed">>

Idle == [frames |-> <<>>, visited |-> {}, count |-> 0, done |-> FALSE, failed |-> FALSE]
Init ==
    /\ got = [of |-> None] /\ shown = [of |-> None]
    /\ zone = [d \in Domains |-> Missing]
    /\ walk = Idle

Answer(a, s) == got' = a /\ shown' = s /\ UNCHANGED <<zone, walk>>

\* EmailSecurityVerdict is ordered.
Verdicts == <<"pass", "warn", "fail">>
Worst(vs) == Verdicts[Max({1} \cup {i \in 1..3 : Verdicts[i] \in vs})]

-----------------------------------------------------------------------------
(* SPF *)

\* Mutant: only the depth is looked at.
CallAgain(w, d) ==
    IF Len(w.frames) > MaxDepth THEN w
    ELSE [w EXCEPT !.visited = @ \cup {d},
                   !.frames = Append(@, [domain |-> d, next |-> 1])]

\* A call of count_spf_lookups for a record: nothing below the depth limit,
\* nothing for a domain that was visited.
Call(w, d) ==
    IF Len(w.frames) > MaxDepth \/ d \in w.visited THEN w
    ELSE [w EXCEPT !.visited = @ \cup {d},
                   !.frames = Append(@, [domain |-> d, next |-> 1])]

SpfStart ==
    /\ \E root \in UNION {[1..n -> Terms] : n \in 0..MaxTerms + 1} :
       \E others \in [Domains \ {Root} -> Records \cup {Missing, Lost}] :
           zone' = [d \in Domains |-> IF d = Root THEN root ELSE others[d]]
    /\ walk' = Call(Idle, Root)
    /\ UNCHANGED <<got, shown>>

\* One term.  A query that fails ends the whole walk, and its count.
SpfTerm ==
    LET f == Last(walk.frames)
        t == zone[f.domain][f.next]
        moved == [walk EXCEPT !.frames[Len(walk.frames)].next = @ + 1]
        counted == [moved EXCEPT !.count = @ + 1]
    IN /\ walk.frames # <<>> /\ f.next <= Len(zone[f.domain])
       /\ walk' = CASE t = "ip4" -> moved
                    [] t = "a" -> counted
                    [] t \in Domains /\ zone[t] = Lost ->
                         [counted EXCEPT !.frames = <<>>, !.done = TRUE, !.failed = TRUE, !.count = 0]
                    [] t \in Domains /\ zone[t] = Missing -> counted
                    [] OTHER -> Call(counted, t)
       /\ UNCHANGED <<got, shown, zone>>

SpfReturn ==
    /\ walk.frames # <<>>
    /\ Last(walk.frames).next > Len(zone[Last(walk.frames).domain])
    /\ walk' = [walk EXCEPT !.frames = Front(@), !.done = Len(walk.frames) = 1]
    /\ UNCHANGED <<got, shown, zone>>

\* find_all_mechanism, and the terms evaluate_spf looks for.
Policies == {None, "+all", "?all", "~all", "-all"}
SpfVerdict(r) ==
    IF r.records = 0 THEN "fail"
    ELSE Worst({IF r.records > 1 \/ r.all = "+all" \/ r.anyone \/ r.count > LookupLimit
                THEN "fail" ELSE "pass",
                IF r.all \in {None, "?all"} \/ r.ptr \/ r.failed THEN "warn" ELSE "pass"})

\* A walk that failed counts nothing.
Spf ==
    \E r \in [records : 0..2, all : Policies, anyone : BOOLEAN, ptr : BOOLEAN,
              count : 0..LookupLimit + 1, failed : BOOLEAN] :
        /\ r.failed => r.count = 0
        /\ Answer([of |-> "spf", r |-> r], [verdict |-> SpfVerdict(r)])

-----------------------------------------------------------------------------
(* DKIM *)

\* rsa_key_bits_from_spki_der: zero where the key is none that it reads.
Bits == {0, 512, 1024, 2048}

\* evaluate_dkim_selector for the first TXT string of the selector's name.
DkimVerdict(r) ==
    CASE r.txt # "record" -> "fail"
      [] r.txt = "record" /\ (~r.versioned \/ r.key # "present") -> "fail"
      [] OTHER -> CASE r.bits \in 1..1023 -> "fail"
                    [] r.bits \in 1024..2047 -> "warn"
                    [] OTHER -> "pass"

Dkim ==
    \E r \in [txt : {"failed", "empty", "record"}, versioned : BOOLEAN,
              key : {"present", "missing", "revoked"}, bits : Bits] :
        Answer([of |-> "dkim", r |-> r],
               [verdict |-> DkimVerdict(r), revoked |-> r.txt = "record" /\ r.key = "revoked",
                bits |-> IF r.txt = "record" /\ r.key = "present" THEN r.bits ELSE 0])

\* evaluate_dkim: without selectors of the user's the usual ones are asked.
Usual == <<"default", "google", "selector1", "selector2", "k1", "mail", "dkim">>
Selectors ==
    \E asked \in {<<>>, <<"s">>, <<"s", "t">>} :
        Answer([of |-> "selectors", asked |-> asked],
               [selectors |-> IF asked = <<>> THEN Usual ELSE asked])

-----------------------------------------------------------------------------
(* DER *)

\* read_der_length: one byte, or a count of one to four bytes that follow.
\* Bytes are scaled to sixteen values, of which the upper eight are counts.
DerLength(bytes) ==
    LET n == bytes[1] - 8
        value[k \in 0..4] == IF k = 0 THEN 0 ELSE value[k - 1] * 16 + bytes[k + 1]
    IN IF bytes[1] < 8 THEN bytes[1]
       ELSE IF n \notin 1..4 \/ Len(bytes) <= n THEN -1 ELSE value[n]

Der ==
    \E n \in 1..3 : \E bytes \in [1..n -> {0, 1, 7, 8, 9, 10, 13, 15}] :
        Answer([of |-> "der", bytes |-> bytes], [length |-> DerLength(bytes)])

-----------------------------------------------------------------------------
(* DMARC *)

\* evaluate_dmarc, assignment by assignment: "none" sets the verdict, also one
\* that was worse.
DmarcVerdict(r) ==
    LET start == IF r.versioned THEN "pass" ELSE "fail"
        policy == CASE r.policy = "reject" -> start
                    [] r.policy = "quarantine" -> Worst({start, "warn"})
                    [] r.policy = "monitor" -> "warn"
                    [] OTHER -> "fail"
    IN IF r.txt # "record" THEN "fail"
       ELSE Worst({policy, IF ~r.rua \/ r.pct < 100 THEN "warn" ELSE "pass"})

\* pct is 100 where the tag is missing or no number below 256.
Dmarc ==
    \E r \in [txt : {"failed", "empty", "record"}, versioned : BOOLEAN, rua : BOOLEAN,
              policy : {"reject", "quarantine", "monitor", "other", "missing"},
              pct : {0, 50, 100, 200}] :
        Answer([of |-> "dmarc", r |-> r], [verdict |-> DmarcVerdict(r)])

\* One walk or one verdict per behaviour.
Next ==
    \/ SpfTerm \/ SpfReturn
    \/ /\ walk = Idle /\ got.of = None
       /\ SpfStart \/ Spf \/ Dkim \/ Selectors \/ Der \/ Dmarc

Spec == Init /\ [][Next]_vars

-----------------------------------------------------------------------------
(* Properties *)

\* Type invariant.
TypeOK ==
    /\ got.of \in {None, "spf", "dkim", "selectors", "der", "dmarc"}
    /\ walk.visited \subseteq Domains /\ walk.count \in Nat /\ walk.failed \in BOOLEAN
    /\ got.of \in {"spf", "dmarc"} => shown.verdict \in Range(Verdicts)

\* The walk over included records is finite whatever includes what: a domain
\* is walked once, so the frames are of different domains, no more of them
\* than the depth allows.
WalkBounded ==
    /\ Len(walk.frames) <= MaxDepth + 1
    /\ \A i, j \in DOMAIN walk.frames :
         i # j => walk.frames[i].domain # walk.frames[j].domain
    /\ {walk.frames[i].domain : i \in DOMAIN walk.frames} \subseteq walk.visited

\* The count at the end is that of the records that were walked, each once,
\* and everything the root includes within the depth was walked.
CountExact ==
    walk.done /\ ~walk.failed =>
        /\ walk.count =
             MapThenSumSet(LAMBDA d : Cardinality({i \in DOMAIN zone[d] : zone[d][i] # "ip4"}),
                           walk.visited)
        /\ \A i \in DOMAIN zone[Root] :
             LET d == zone[Root][i] IN
             (MaxDepth > 0 /\ d \in Domains /\ zone[d] \notin {Missing, Lost}) => d \in walk.visited

\* A sender policy passes only as one record that names senders, within the
\* lookup limit, and whose lookups were counted.
SpfPassFounded ==
    got.of = "spf" /\ shown.verdict = "pass" =>
        /\ got.r.records = 1 /\ got.r.all \in {"~all", "-all"} /\ ~got.r.anyone
        /\ ~got.r.failed /\ got.r.count <= LookupLimit

\* A key passes only with a version and a key in force that is not known to be
\* short; a revoked key shows no size.
DkimPassFounded ==
    got.of = "dkim" =>
        /\ shown.verdict = "pass" =>
             got.r.txt = "record" /\ got.r.versioned /\ got.r.key = "present"
               /\ shown.bits \notin 1..2047
        /\ shown.revoked => shown.bits = 0 /\ shown.verdict = "fail"

\* A mail policy passes only if it rejects, for all messages, with reports.
DmarcPassFounded ==
    got.of = "dmarc" /\ shown.verdict = "pass" =>
        got.r.txt = "record" /\ got.r.versioned /\ got.r.policy = "reject"
            /\ got.r.rua /\ got.r.pct >= 100

\* A length is read from the bytes that hold it, or refused.
LengthRead ==
    got.of = "der" =>
        /\ shown.length = -1 <=> (got.bytes[1] > 7 /\ (got.bytes[1] - 8) \notin 1..(Len(got.bytes) - 1))
        /\ got.bytes[1] < 8 => shown.length = got.bytes[1]
=============================================================================
