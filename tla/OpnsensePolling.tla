--------------------------- MODULE OpnsensePolling ---------------------------
(* What a running OPNsense monitor does between start and stop              *)
(* (src-tauri/src/opnsense/monitor.rs): run_monitor reads the system, the    *)
(* VPN and, every few ticks, the rules section, sends a snapshot and waits   *)
(* for the next tick; the view (src/hooks/useOpnsense.ts) keeps the last     *)
(* good data of a section that failed or was left out.  Who starts and stops *)
(* a monitor is OpnsenseSessions; what the endpoints answer is               *)
(* OpnsenseAnswers.                                                          *)
(*                                                                           *)
(* Abstractions: a table is its number of rows; of the section read last,    *)
(* asked keeps what each endpoint did and section what was made of it, and   *)
(* of the sections of a snapshot only which of them failed (failed).         *)
EXTENDS Naturals, FiniteSetsExt

CONSTANTS
    Cap,         \* RULES_CAP and INTERFACES_CAP, 10000 in the program
    RulesEvery,  \* RULES_EVERY_TICKS, 3
    MaxTicks     \* bound on the ticks of a behaviour

VARIABLES
    poll,     \* the task: pc, tick, stop, what it told the view
    failed,   \* sections that failed in this tick
    asked,    \* outcome of every endpoint of the section read last
    section,  \* that section
    view      \* per section: tick of the data shown, or Never, and stale

vars == <<poll, failed, asked, section, view>>

Never == MaxTicks + 1
Sections == {"system", "vpn", "rules"}
Services == {"wireguard", "openvpn", "ipsec", "tailscale"}
Nothing == [failed |-> FALSE]

Init ==
    /\ poll = [pc |-> "system", tick |-> 0, stop |-> FALSE, told |-> "nothing",
               sent |-> 0]
    /\ failed = {} /\ asked = Nothing /\ section = Nothing
    /\ view = [s \in Sections |-> [at |-> Never, stale |-> FALSE]]

-----------------------------------------------------------------------------
(* Sections *)

\* The rows of a table with n rows of which the router reports total.
Cut(n, total) ==
    [shown |-> IF n >= Cap THEN Cap ELSE n,
     truncated |-> IF n >= Cap THEN total > Cap \/ n > Cap ELSE n < total]

\* Only a failing rule listing fails the section: without counters the rules
\* are shown beside an error, without active ids no rule is called unmapped.
RulesOf(a) ==
    IF ~a.rows.ok THEN [failed |-> TRUE]
    ELSE [failed |-> FALSE, table |-> Cut(a.rows.n, a.rows.total),
          counters |-> IF a.stats THEN "joined" ELSE "error",
          unmapped |-> a.stats /\ a.ids]

\* Only a failing interface listing fails the section.  Memory, time and CPU
\* are three sources of one field: it is an error when none of them answered.
SystemOf(a) ==
    IF ~a.rows.ok THEN [failed |-> TRUE]
    ELSE [failed |-> FALSE, table |-> Cut(a.rows.n, a.rows.total),
          traffic |-> a.stats, states |-> IF a.pf THEN "value" ELSE "error",
          resources |-> IF a.sources = {} THEN {"error"} ELSE a.sources]

\* A service that fails is an error of its own; the flag of the Tailscale
\* service is asked for only when the service answered.
VpnOf(a) ==
    [failed |-> FALSE,
     services |-> [s \in Services |-> IF s \in a.up THEN "data" ELSE "error"],
     running |-> IF "tailscale" \in a.up /\ a.flag THEN "known" ELSE "unknown"]

Tables == {[ok |-> FALSE]} \cup [ok : {TRUE}, n : 0..Cap + 1, total : 0..Cap + 1]

Outcomes(s) ==
    CASE s = "system" -> [rows : Tables, stats : BOOLEAN, pf : BOOLEAN,
                          sources : SUBSET {"memory", "time", "cpu"}]
      [] s = "vpn" -> [up : SUBSET Services, flag : BOOLEAN]
      [] s = "rules" -> [rows : Tables, stats : BOOLEAN, ids : BOOLEAN]

SectionOf(s, a) ==
    CASE s = "system" -> SystemOf(a) [] s = "vpn" -> VpnOf(a) [] s = "rules" -> RulesOf(a)

-----------------------------------------------------------------------------
(* The loop of run_monitor *)

RulesDue == poll.tick % RulesEvery = 0

NextPc ==
    CASE poll.pc = "system" -> "vpn"
      [] poll.pc = "vpn" -> IF RulesDue THEN "rules" ELSE "send"
      [] poll.pc = "rules" -> "send"

Fetch(a) ==
    /\ poll.pc \in Sections
    /\ asked' = a /\ section' = SectionOf(poll.pc, a)
    /\ failed' = IF section'.failed THEN failed \cup {poll.pc} ELSE failed
    /\ poll' = [poll EXCEPT !.pc = NextPc]
    /\ UNCHANGED view

Shown(s) ==
    IF s = "rules" /\ ~RulesDue THEN view[s]
    ELSE IF s \notin failed THEN [at |-> poll.tick, stale |-> FALSE]
    ELSE [at |-> view[s].at, stale |-> view[s].at # Never]

\* A warning per failed section, the snapshot, and Started after the first.
Send ==
    /\ poll.pc = "send"
    /\ poll' = [poll EXCEPT !.pc = "wait", !.sent = @ + 1,
                            !.told = IF poll.tick = 0 THEN "started" ELSE @]
    /\ view' = [s \in Sections |-> Shown(s)]
    /\ asked' = Nothing /\ section' = Nothing
    /\ UNCHANGED failed

NextTick ==
    /\ poll.pc = "wait" /\ poll.tick < MaxTicks
    /\ poll' = [poll EXCEPT !.pc = "system", !.tick = @ + 1]
    /\ failed' = {}
    /\ UNCHANGED <<asked, section, view>>

\* stop() of the manager; select! may still prefer what else is ready.
AskStop ==
    /\ poll.pc # "over" /\ ~poll.stop
    /\ poll' = [poll EXCEPT !.stop = TRUE]
    /\ UNCHANGED <<failed, asked, section, view>>

\* What was read for the next snapshot is dropped.
HearStop ==
    /\ poll.stop /\ poll.pc \in Sections \cup {"wait"}
    /\ poll' = [poll EXCEPT !.pc = "over", !.told = "stopped"]
    /\ asked' = Nothing /\ section' = Nothing
    /\ UNCHANGED <<failed, view>>

Next ==
    \/ poll.pc \in Sections /\ \E a \in Outcomes(poll.pc) : Fetch(a)
    \/ Send \/ NextTick \/ AskStop \/ HearStop

Spec == Init /\ [][Next]_vars

-----------------------------------------------------------------------------
(* Properties *)

TypeOK ==
    /\ poll.pc \in Sections \cup {"send", "wait", "over"}
    /\ poll.tick \in 0..MaxTicks /\ poll.sent \in 0..MaxTicks + 1
    /\ poll.told \in {"nothing", "started", "stopped"}
    /\ poll.stop \in BOOLEAN
    /\ failed \subseteq {"system", "rules"}
    /\ view \in [Sections -> [at : 0..MaxTicks \cup {Never}, stale : BOOLEAN]]

\* A section says all it does not know: a table shorter than the router's is
\* marked truncated and no other is, and what an endpoint failed to give is an
\* error or unknown beside what the others gave, never a zero.
SectionsHonest ==
    asked # Nothing /\ ~section.failed =>
        /\ "table" \in DOMAIN section =>
            section.table.truncated =
                (section.table.shown < Max({asked.rows.n, asked.rows.total}))
        /\ "counters" \in DOMAIN section =>
            (section.counters = "error" => ~section.unmapped)
        /\ "resources" \in DOMAIN section =>
            ("error" \in section.resources <=> asked.sources = {})
        /\ "services" \in DOMAIN section =>
            (section.running = "known" => section.services["tailscale"] = "data")

\* What is shown as fresh is fresh: a section that is not marked stale is of
\* this snapshot, and rules at most RulesEvery - 1 snapshots old.  With the
\* first snapshot every section was tried.
FreshIsFresh ==
    poll.sent > 0 /\ poll.pc = "wait" =>
        \A s \in Sections :
            LET age == poll.tick - view[s].at IN
            /\ ~view[s].stale /\ view[s].at # Never =>
                   age < (IF s = "rules" THEN RulesEvery ELSE 1)
            /\ poll.tick = 0 => (view[s].at = Never) = (s \in failed)

\* The view hears Started once there is something to show, and nothing after
\* Stopped.
Announced ==
    [][/\ poll.told = "stopped" => UNCHANGED <<poll, view>>
       /\ poll'.told = "started" => poll'.sent > 0
       /\ poll'.sent > poll.sent => poll'.told = "started"]_vars
=============================================================================
