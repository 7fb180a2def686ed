---------------------------- MODULE RouterAnswers ----------------------------
(* What the app makes of the answers of a MikroTik router                     *)
(* (src-tauri/src/mikrotik/client.rs, parse.rs, error.rs, version.rs and      *)
(* changelog.rs): status codes and bodies, sensors in either unit, the rate   *)
(* of a bonding, the update probe that polls until RouterOS has looked, files *)
(* that are deleted by record id, and changelogs that are fetched once.  When *)
(* the answers are asked for is MikrotikTick and MikrotikSessions.            *)
(*                                                                            *)
(* Abstractions: a record is the keys it has, a number is read from its text  *)
(* or absent (No), a changelog is the version it is of.                       *)
EXTENDS Integers, FiniteSetsExt, SequencesExt

CONSTANTS
    PollLimit,  \* UPDATE_POLL_LIMIT, 15
    MaxAsks     \* bound on the changelogs asked for in a behaviour

VARIABLES
    got,    \* an answer of the router, with the endpoint (of) it is from
    shown,  \* what the app makes of it
    probe,  \* the update probe: pc, calls made, last status and latest version
    cache,  \* versions whose changelog is kept
    asks    \* changelogs asked for

vars == <<got, shown, probe, cache, asks>>

None == "none"
No == -1

Init ==
    /\ got = [of |-> None] /\ shown = None
    /\ probe = [pc |-> "idle", polls |-> 0, status |-> None, latest |-> None]
    /\ cache = {} /\ asks = 0

Answer(a, s) ==
    /\ got.of = None /\ probe.pc = "idle" /\ asks = 0
    /\ got' = a /\ shown' = s
    /\ UNCHANGED <<probe, cache, asks>>

-----------------------------------------------------------------------------
(* Status codes and bodies *)

Statuses == {"2xx", "401", "403", "404", "no such command", "500"}
Transports == {"timeout", "tls", "connect"}
Bodies == {"empty", "html", "text", "object", "array"}

\* handle_response: probe is that of the resource endpoint, by which an old
\* RouterOS is told.
Handle(status, body, resource) ==
    CASE status = "2xx" -> IF body = "empty" THEN "null"
                           ELSE IF body = "html" THEN "parse error" ELSE body
      [] status = "401" -> "unauthorized"
      [] status = "403" -> "forbidden"
      [] status = "404" /\ resource -> "unsupported version"
      [] status \in Transports -> status
      [] OTHER -> "api error"

\* Optional endpoints that a board does not have.
Unsupported(status) == status \in {"404", "no such command"}

\* The record of a singleton, that of a command, and those of a list.
FirstObject(records) == IF records = <<>> THEN None ELSE Head(records)
LastObject(records) == IF records = <<>> THEN None ELSE Last(records)

\* What has no name is left out of a list of interfaces and the like; a log
\* entry without an id makes the answer useless.
Named(records) == SelectSeq(records, LAMBDA r : r # "anonymous")
LogEntries(records) == IF "anonymous" \in Range(records) THEN <<"parse error">> ELSE records

Parsed(endpoint, records) ==
    CASE endpoint = "singleton" -> FirstObject(records)
      [] endpoint = "command" -> LastObject(records)
      [] endpoint = "interfaces" -> Named(records)
      [] endpoint = "log" -> LogEntries(records)
      [] endpoint = "files" -> records

Responses ==
    \E status \in Statuses \cup Transports, body \in Bodies, resource \in BOOLEAN :
        Answer([of |-> "response", status |-> status, body |-> body],
               [answer |-> Handle(status, body, resource), list |-> body = "array" \/ body = "object",
                supported |-> ~Unsupported(status)])

Records ==
    \E endpoint \in {"singleton", "command", "interfaces", "log", "files"} :
    \E records \in UNION {[1..n -> {"r1", "r2", "anonymous"}] : n \in 0..3} :
        Answer([of |-> endpoint, records |-> records], Parsed(endpoint, records))

\* Memory in use is derived from the other two.
Used(total, free) ==
    IF No \in {total, free} THEN No ELSE IF free > total THEN 0 ELSE total - free

Memory ==
    \E total, free \in No..4 :
        Answer([of |-> "memory", total |-> total, free |-> free], Used(total, free))

\* classify_log_severity.
Severities == <<"critical", "error", "warning", "debug">>
Severity(topics) ==
    LET named == {i \in DOMAIN Severities : Severities[i] \in topics} IN
    IF named = {} THEN "info" ELSE Severities[Min(named)]

Topics ==
    \E topics \in SUBSET {"critical", "error", "warning", "debug", "info", "dhcp"} :
        Answer([of |-> "topics", topics |-> topics], Severity(topics))

-----------------------------------------------------------------------------
(* Readings *)

\* Readings are in tenths of the unit shown.  The router sends the plain unit
\* or, as its documentation warns, the tenths as if they were units.
Sent(reading, deci) == IF deci THEN reading * 10 ELSE reading

\* normalize_sensor_value: implausible values are tenths.
Normal(kind, sent) ==
    IF \/ kind = "temperature" /\ sent > 1500
       \/ kind = "voltage" /\ sent > 1000
    THEN sent \div 10 ELSE sent

Sensors ==
    \E kind \in {"temperature", "voltage", "fan"}, deci \in BOOLEAN :
    \E reading \in CASE kind = "temperature" -> {0, 150, 151, 430, 905, 1500}
                     [] kind = "voltage" -> {33, 100, 101, 240, 480}
                     [] kind = "fan" -> {0, 42000} :
        /\ kind = "fan" => ~deci
        /\ Answer([of |-> "sensor", kind |-> kind, reading |-> reading],
                  Normal(kind, Sent(reading, deci)))

\* format_link_rate of parse_link_rate_mbps: Mbps, or Gbps to one decimal.
Rate(mbps) == IF mbps >= 1000 THEN ((mbps + 50) \div 100) * 100 ELSE mbps

Bonding ==
    \E slaves \in [1..2 -> {No, 10, 100, 1000, 2500}] :
        LET known == {i \in 1..2 : slaves[i] # No} IN
        Answer([of |-> "bonding", slaves |-> slaves],
               IF known = {} THEN No
               ELSE Rate(MapThenSumSet(LAMBDA i : slaves[i], known)))

-----------------------------------------------------------------------------
(* The update probe *)

\* is_terminal: RouterOS is not looking any more, or says nothing.
Terminal(status) == status # "checking"

UpdateState(latest, status) ==
    IF status = None \/ latest = None THEN "unknown"
    ELSE IF status \in {"update-available", "up-to-date"} THEN status ELSE "unknown"

FirmwareStates == {"available", "up-to-date", "not-applicable", "unknown"}

\* firmware_from_routerboard; what is no routerboard, or has no such endpoint,
\* has no firmware of its own.
FirmwareState(board) ==
    CASE board.answer = "unsupported" -> "not-applicable"
      [] board.answer = "failed" -> "unknown"
      [] board.answer = "ok" /\ ~board.is -> "not-applicable"
      [] OTHER -> IF None \in {board.current, board.upgrade} THEN "unknown"
                  ELSE IF board.current = board.upgrade THEN "up-to-date" ELSE "available"

Boards == [answer : {"unsupported", "failed", "ok"}, is : BOOLEAN,
           current : {None, "7.1"}, upgrade : {None, "7.1", "7.2"}]

\* should_deliver_spawned_probe: a probe that learned nothing stays silent.
Delivered(update, firmware) ==
    ~(/\ update = [state |-> "unknown", status |-> None, latest |-> None]
      /\ firmware \in {"not-applicable", "unknown"})

\* check_for_updates answers, with a status or without, or fails.
Looks == [status : {None, "checking", "update-available", "up-to-date", "error"},
          latest : {None, "7.2"}]
Failed == [status |-> "failed", latest |-> None]

Judged(look) ==
    IF look = Failed THEN [state |-> "unknown", status |-> None, latest |-> None]
    ELSE [state |-> UpdateState(look.latest, look.status),
          status |-> look.status, latest |-> look.latest]

\* A call of the router's update check; the first one begins the probe.
Look(look) ==
    /\ got.of = None /\ asks = 0
    /\ probe.pc \in {"idle", "polling"} /\ probe.polls <= PollLimit
    /\ probe' = [pc |-> IF look # Failed /\ ~Terminal(look.status) /\ probe.polls < PollLimit
                        THEN "polling" ELSE "judged",
                 polls |-> probe.polls + 1, status |-> look.status, latest |-> look.latest]
    /\ UNCHANGED <<got, shown, cache, asks>>

\* probe_once: both halves are there.
Conclude(board) ==
    LET look == [status |-> probe.status, latest |-> probe.latest] IN
    /\ probe.pc = "judged"
    /\ probe' = [probe EXCEPT !.pc = "over"]
    /\ got' = [of |-> "update", look |-> look, board |-> board]
    /\ shown' = [update |-> Judged(look), firmware |-> FirmwareState(board),
                 delivered |-> Delivered(Judged(look), FirmwareState(board))]
    /\ UNCHANGED <<cache, asks>>

-----------------------------------------------------------------------------
(* Files and changelogs *)

\* delete_file: the record is looked up by name; a 404 is tried again with the
\* record id encoded.  understands: the spellings of the id the router takes.
DeleteFile(files, name, understands) ==
    LET at == {i \in DOMAIN files : files[i] = name} IN
    IF at = {} THEN [answer |-> "file not found", files |-> files]
    ELSE IF understands = {} THEN [answer |-> "api error", files |-> files]
    ELSE [answer |-> "ok", files |-> RemoveAt(files, Min(at))]

Deletions ==
    \E files \in {f \in UNION {[1..n -> {"f1", "f2", "f3"}] : n \in 0..3} : IsInjective(f)} :
    \E understands \in SUBSET {"raw", "encoded"} :
        Answer([of |-> "delete", files |-> files], DeleteFile(files, "f1", understands))

\* fetch_changelog: only what was fetched is kept.
Changelog(version, outcome) ==
    /\ got.of \in {None, "changelog"} /\ probe.pc = "idle" /\ asks < MaxAsks
    /\ asks' = asks + 1
    /\ got' = [of |-> "changelog", version |-> version, asked |-> version \notin cache]
    /\ shown' = IF version \in cache \/ outcome = "ok" THEN version ELSE outcome
    /\ cache' = IF outcome = "ok" THEN cache \cup {version} ELSE cache
    /\ UNCHANGED probe

Next ==
    \/ Responses \/ Records \/ Memory \/ Topics \/ Sensors \/ Bonding \/ Deletions
    \/ \E look \in Looks \cup {Failed} : Look(look)
    \/ \E board \in Boards : Conclude(board)
    \/ \E version \in {"7.1", "7.2"}, outcome \in {"ok", "not found", "timeout", "fetch"} :
          Changelog(version, outcome)

Spec == Init /\ [][Next]_vars

-----------------------------------------------------------------------------
(* Properties *)

TypeOK ==
    /\ probe.pc \in {"idle", "polling", "judged", "over"} /\ probe.polls \in 0..PollLimit + 1
    /\ cache \subseteq {"7.1", "7.2"} /\ asks \in 0..MaxAsks
    /\ got.of = "update" => shown.firmware \in FirmwareStates
    /\ got.of = "memory" => shown \in No..4

\* A temperature above 15 degrees and a voltage above 10 volts read the same
\* whichever unit the router sends, and a fan as it is sent.
SensorsExact ==
    got.of = "sensor" =>
        \/ shown = got.reading
        \/ got.kind = "temperature" /\ got.reading <= 150
        \/ got.kind = "voltage" /\ got.reading <= 100

\* A bonding shows the sum of the rates that are known, to a tenth of a gigabit.
BondingSum ==
    got.of = "bonding" /\ shown # No =>
        LET sum == MapThenSumSet(LAMBDA i : Max({got.slaves[i], 0}), 1..2) IN
        shown - sum \in -50..50 /\ (sum < 1000 => shown = sum)

\* An answer that is no list or object is an error or empty, and so an error of
\* every endpoint that reads it: a page in place of an answer is not "no
\* interfaces".
PagesRefused ==
    got.of = "response" /\ got.body \in {"empty", "html"} =>
        shown.answer \notin {"object", "array", "text"} /\ ~shown.list

\* An absent latest version is 'rendered "unknown", never "up to date"'
\* (parse.rs:544): a verdict is RouterOS's own, of a check that is over and names a version; a probe that
\* learned anything is delivered, and the probe ends after PollLimit polls.
UpdateProven ==
    got.of = "update" =>
        /\ shown.update.state # "unknown" =>
               shown.update.state = got.look.status /\ got.look.latest # None
        /\ got.look.latest # None \/ shown.firmware \in {"available", "up-to-date"}
               => shown.delivered
        /\ got.look.status = "checking" =>
               probe.polls = PollLimit + 1 /\ shown.update.state = "unknown"

\* delete_file takes away the file of that name and no other, or says why not.
OnlyNamedDeleted ==
    got.of = "delete" =>
        IF shown.answer = "ok" THEN Range(shown.files) = Range(got.files) \ {"f1"}
        ELSE shown.files = got.files

\* A changelog is that of its version, and a failure is asked again.
ChangelogOwn ==
    got.of = "changelog" =>
        /\ shown \in {"7.1", "7.2"} => shown = got.version
        /\ shown \notin {"7.1", "7.2"} => got.asked /\ got.version \notin cache
=============================================================================
