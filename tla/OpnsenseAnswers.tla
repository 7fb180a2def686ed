--------------------------- MODULE OpnsenseAnswers ---------------------------
(* What the app makes of the answers of a firewall                            *)
(* (src-tauri/src/opnsense/client.rs, firmware.rs, backup.rs): counters are   *)
(* joined to rules, statistics to devices and peers to tunnels, a version is  *)
(* compared with the cached releases, and the newest revision is chosen.      *)
(* The spellings of a key that the parsers accept are one key here; a key     *)
(* that is absent or unintelligible is None, a figure that is absent NoFigure.     *)
(* When and how often the answers are asked for is OpnsensePolling.           *)
EXTENDS Integers, FiniteSetsExt, SequencesExt

VARIABLES
    got,   \* an answer of the firewall, with the endpoint (of) it is from
    shown  \* what the app makes of it

vars == <<got, shown>>

None == "none"
NoFigure == -1
Init == got = [of |-> None] /\ shown = None

UpTo(S, n) == UNION {[1..k -> S] : k \in 0..n}

\* opt_bool behind a field that may be missing.
Flag(v, otherwise) == IF v = None THEN otherwise ELSE v = "yes"

FirstOf(s, P, otherwise) == IF P = {} THEN otherwise ELSE s[Min(P)]

-----------------------------------------------------------------------------
(* Failures *)

\* check_status of a complete answer, classify_transport of the others.
Refusals == {"401", "403", "404", "500", "timeout", "tls", "connect"}

Kind(failure) ==
    CASE failure = "401" -> "unauthorized"
      [] failure = "403" -> "forbidden"
      [] failure = "404" -> "not-found"
      [] failure = "500" -> "http"
      [] OTHER -> failure

-----------------------------------------------------------------------------
(* Rules and their counters *)

Uuids == {"", "u1", "u2"}

\* Counters without a figure are dropped; the others are of one rule each.
Counted(stats) == {id \in DOMAIN stats : stats[id] # NoFigure}

\* The first rule with the id gets the counters; what is of no rule, and what
\* only pf knows, is listed apart.
Join(rules, stats, ids) ==
    LET at(id) == {i \in DOMAIN rules : rules[i] = id} IN
    [rules |-> [i \in DOMAIN rules |->
                  IF rules[i] \in Counted(stats) /\ i = Min(at(rules[i]))
                  THEN stats[rules[i]] ELSE NoFigure],
     unmapped |-> {[id |-> id, packets |-> stats[id]] :
                     id \in {x \in Counted(stats) : at(x) = {}}}
                  \cup {[id |-> id, packets |-> NoFigure] :
                     id \in {x \in ids \ Counted(stats) : at(x) = {}}}]

-----------------------------------------------------------------------------
(* Interfaces *)

\* An entry of the statistics names its device, or its label does.
DeviceOf(entry) == IF entry.name # None THEN entry.name ELSE entry.label

\* A device has an entry per address and one of the link layer that holds the
\* totals: each figure is the largest.
Totals(entries) ==
    [d \in {DeviceOf(e) : e \in entries} |->
        Max({e.bytes : e \in {x \in entries : DeviceOf(x) = d}})]

\* A member of a lagg is described by the row of its own port.
Members(row, rows) ==
    [m \in row.members |->
        FirstOf([i \in DOMAIN rows |-> rows[i].link], {i \in DOMAIN rows : rows[i].name = m}, None)]

\* current or count, else total, else the states that are listed.
PfStates(a) ==
    IF a.current # NoFigure THEN a.current
    ELSE IF a.total # NoFigure THEN a.total ELSE a.listed

-----------------------------------------------------------------------------
(* Tunnels *)

Tunnel(row) == [name |-> row.name, device |-> row.device, peers |-> <<>>]

\* The first interface with the name or the device of the peer, or with the
\* name of its server; without one it gets an interface of its own.
Attach(tunnels, peer) ==
    LET fits == {i \in DOMAIN tunnels :
                   \/ peer.device \in {tunnels[i].name, tunnels[i].device}
                   \/ peer.server = tunnels[i].name} IN
    IF fits # {} THEN [tunnels EXCEPT ![Min(fits)].peers = Append(@, peer)]
    ELSE Append(tunnels, [name |-> peer.device, device |-> peer.device, peers |-> <<peer>>])

Wireguard(interfaces, peers) ==
    FoldLeft(Attach, [i \in DOMAIN interfaces |-> Tunnel(interfaces[i])], peers)

PeerStatus(said, age) ==
    IF said # None THEN (IF said = "online" THEN "active" ELSE said)
    ELSE IF age = NoFigure THEN "never"
    ELSE IF age <= 300 THEN "active" ELSE "stale"

\* OpenVPN: the flag, else the status.
Connected(row) == Flag(row.connected, row.status \in {"connected", "ok", "up"})
IpsecConnected(row) == Flag(row.connected, FALSE)

\* Tailscale: an answer that is not an object fails the section.
NoObject == {[name |-> "not an object"]}

Tailscale(answer) ==
    IF answer = NoObject THEN "parse error"
    ELSE "peers"

-----------------------------------------------------------------------------
(* Firmware *)

\* A rebuild counts as its release, a candidate as none.
NoVersion == [of |-> 0, series |-> 0, patch |-> 0, suffix |-> None]
NoRelease == [series |-> 0, patch |-> 0]
Release(v) == IF v.suffix = "rc" THEN NoRelease ELSE [series |-> v.series, patch |-> v.patch]
SeriesOf(v) == v.series
Newer(v, w) == v.series > w.series \/ (v.series = w.series /\ v.patch > w.patch)

\* The production releases among the entries, newest first.
Ranked(entries) ==
    SortSeq(SelectSeq(entries, LAMBDA e : Release(e) # NoRelease),
            LAMBDA e, f : Newer(Release(e), Release(f)))

Evaluate(entries, installed) ==
    [latest |-> Release(FirstOf(Ranked(entries), {1} \cap DOMAIN Ranked(entries), NoVersion)),
     newer |-> SelectSeq(Ranked(entries), LAMBDA e : Newer(Release(e), installed))]

Unknown == [state |-> "unknown", latest |-> NoRelease, newer |-> <<>>]

Check(installed, changelog) ==
    IF Release(installed) = NoRelease THEN Unknown
    ELSE LET found == Evaluate(SelectSeq(changelog, LAMBDA e : e.of = SeriesOf(installed)),
                               Release(installed)) IN
         IF found.latest = NoRelease THEN Unknown
         ELSE found @@ [state |-> IF Newer(found.latest, Release(installed))
                                  THEN "update-available" ELSE "up-to-date"]

\* The upgrade that the cache has for a plugin.
Plugin(name, upgrades) ==
    FirstOf([i \in DOMAIN upgrades |-> upgrades[i].version],
            {i \in DOMAIN upgrades : upgrades[i].name = name}, NoFigure)

-----------------------------------------------------------------------------
(* Revisions of the configuration *)

\* Newest first; without a time last, in the firewall's order.
Sorted(revisions) ==
    SortSeq([i \in DOMAIN revisions |-> [at |-> i] @@ revisions[i]],
            LAMBDA r, s : r.time > s.time \/ (r.time = s.time /\ r.at < s.at))

NoSource == [id |-> None, time |-> -2, at |-> 0]

Source(revisions, id) ==
    IF revisions = <<>> THEN NoSource
    ELSE IF id = None THEN Sorted(revisions)[1]
    ELSE FirstOf(Sorted(revisions),
                 {i \in DOMAIN revisions : Sorted(revisions)[i].id = id}, NoSource)

-----------------------------------------------------------------------------
(* Answers *)

Answer(a, s) == got' = a /\ shown' = s

Fails == \E f \in Refusals : Answer([of |-> "failure", with |-> f], Kind(f))

Rules ==
    \E rules \in UpTo(Uuids, 3), ids \in SUBSET {"u1", "u2", "u3"} :
    \E stats \in UNION {[S -> {NoFigure, 0, 5}] : S \in SUBSET {"u1", "u3"}} :
        Answer([of |-> "rules", rules |-> rules, stats |-> stats, ids |-> ids],
               Join(rules, stats, ids))

Statistics ==
    \E total \in 0..3 : \E a, b \in 0..total, name \in {"igc0", None}, other \in 0..1 :
        LET entry(n, l, bytes, at) == [name |-> n, label |-> l, bytes |-> bytes, at |-> at] IN
        Answer([of |-> "statistics", total |-> total, other |-> other],
               Totals({entry(name, "igc0", total, "link"), entry("igc0", "igc0", a, "v4"),
                       entry(name, "igc0", b, "v6"), entry(None, "igc1", other, "link")}))

Interfaces ==
    \E rows \in UpTo([name : {"igc0", "igc1", "lagg0"}, link : {"up", None},
                      members : {{}, {"igc0", "igc1"}}], 2) :
        Answer([of |-> "interfaces", rows |-> rows],
               [i \in DOMAIN rows |-> Members(rows[i], rows)])

States ==
    \E a \in [current : {NoFigure, 1}, total : {NoFigure, 2}, listed : {NoFigure, 3}] :
        Answer([of |-> "states", a |-> a], PfStates(a))

Tunnels ==
    \E interfaces \in UpTo([name : {"office", "wg0"}, device : {"wg0", "wg1", ""}], 2) :
    \E peers \in UpTo([device : {"wg0", "wg1"}, server : {None, "office"}], 2) :
        Answer([of |-> "tunnels", interfaces |-> interfaces, peers |-> peers],
               Wireguard(interfaces, peers))

VpnSessions ==
    \E said \in {None, "online", "offline"}, age \in {NoFigure, 0, 300, 301} :
    \E flag \in {"yes", "no", None}, status \in {None, "ok", "failed"} :
        LET row == [connected |-> flag, status |-> status] IN
        Answer([of |-> "sessions", said |-> said, age |-> age, row |-> row],
               [peer |-> PeerStatus(said, age), openvpn |-> Connected(row),
                ipsec |-> IpsecConnected(row)])

Peers ==
    \E answer \in {NoObject} \cup SUBSET [name : {"n1", "n2"}, online : {"yes", None}] :
        Answer([of |-> "peers", answer |-> answer], Tailscale(answer))

Versions == [series : {1, 7}, patch : 0..1, suffix : {None, "rebuild", "rc"}]

Firmware ==
    \E installed \in Versions \cup {NoVersion} :
    \E log \in UpTo({[of |-> s] @@ v : s \in {1, 7, 0}, v \in {w \in Versions : w.suffix # "rebuild"}}, 2) :
        Answer([of |-> "firmware", installed |-> installed, log |-> log], Check(installed, log))

Plugins ==
    \E upgrades \in UpTo([name : {"os-a", "os-b"}, version : {1, 2}], 2) :
        Answer([of |-> "plugins", upgrades |-> upgrades],
               [name \in {"os-a", "os-b"} |-> Plugin(name, upgrades)])

\* A revision without a time has time -1, below every time.
Revisions ==
    \E revisions \in UpTo([id : {"c1", "c2"}, time : {-1, 1, 2}], 3), id \in {None, "c1"} :
        Answer([of |-> "revisions", list |-> revisions, id |-> id], Source(revisions, id))

\* One answer per behaviour.
Next ==
    /\ got.of = None
    /\ \/ Fails \/ Rules \/ Statistics \/ Interfaces \/ States \/ Tunnels \/ VpnSessions
       \/ Peers \/ Firmware \/ Plugins \/ Revisions

Spec == Init /\ [][Next]_vars

-----------------------------------------------------------------------------
(* Properties *)

\* Whatever pf and the counters name is shown once: at a rule of that id or in
\* the list of the others, and traffic is never shown at two rules.
RulesJoined ==
    got.of = "rules" =>
        \A id \in DOMAIN got.stats \cup got.ids :
            LET rules == {i \in DOMAIN got.rules : got.rules[i] = id}
                others == {u \in shown.unmapped : u.id = id} IN
            /\ id \in Counted(got.stats) \cup got.ids =>
                   (IF rules = {} THEN Cardinality(others) = 1 ELSE others = {})
            /\ id \in Counted(got.stats) /\ rules # {} =>
                   Cardinality({i \in rules : shown.rules[i] # NoFigure}) = 1

\* "merging takes the MAX of each counter - never the sum, which would double
\* count traffic" (client.rs:853): a device shows the total of its link layer,
\* also when an entry has no name.
TrafficOnce ==
    got.of = "statistics" => shown["igc0"] = got.total /\ shown["igc1"] = got.other

\* No peer is lost or shown twice, and one whose device is listed is with an
\* interface that has a name or a device in common with it.
PeersOnce ==
    got.of = "tunnels" =>
        /\ Range(got.peers) = UNION {Range(shown[i].peers) : i \in DOMAIN shown}
        /\ FoldLeft(LAMBDA n, t : n + Len(t.peers), 0, shown) = Len(got.peers)
        /\ \A i \in DOMAIN shown, p \in Range(got.peers) :
              p \in Range(shown[i].peers) =>
                  {p.device, p.server} \cap {shown[i].name, shown[i].device} # {}

\* "An empty or stale cache cannot prove that the firewall is current"
\* (firmware.rs:6): up-to-date is said of a release when the cache has one of
\* its series and none is newer; and what is newer is listed newest first.
VerdictProven ==
    got.of = "firmware" =>
        LET releases == {Release(e) : e \in {f \in Range(got.log) :
                           Release(f) # NoRelease /\ f.of = got.installed.series}} IN
        /\ (shown.state = "unknown") =
               (Release(got.installed) = NoRelease \/ releases = {})
        /\ shown.state = "up-to-date" =>
               \A r \in releases : ~Newer(r, Release(got.installed))
        /\ shown.state # "unknown" =>
               /\ shown.latest \in releases /\ \A r \in releases : ~Newer(r, shown.latest)
               /\ (shown.newer # <<>>) = (shown.state = "update-available")
               /\ \A i, j \in DOMAIN shown.newer :
                      i < j => ~Newer(Release(shown.newer[j]), Release(shown.newer[i]))

\* A backup without a chosen revision is of the newest, the first that the
\* firewall listed among those of one time; a chosen one is the chosen one.
NewestTaken ==
    got.of = "revisions" /\ got.list # <<>> =>
        IF got.id = None
        THEN /\ \A i \in DOMAIN got.list : got.list[i].time <= shown.time
             /\ \A i \in 1..(shown.at - 1) : got.list[i].time < shown.time
        ELSE IF got.id \in {r.id : r \in Range(got.list)} THEN shown.id = got.id
        ELSE shown = NoSource

TypeOK ==
    /\ got.of = "states" => shown \in {1, 2, 3, NoFigure}
    /\ got.of = "sessions" => shown.openvpn \in BOOLEAN /\ shown.ipsec \in BOOLEAN
    /\ got.of = "failure" => shown \in {"unauthorized", "forbidden", "not-found", "http",
                                        "timeout", "tls", "connect"}
=============================================================================
