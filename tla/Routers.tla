------------------------------- MODULE Routers -------------------------------
(* The parts of the app that talk to routers: the managers, the SSH terminals*)
(* of both kinds of router (each with a manager of its own, that share here  *)
(* the names of open() calls and the cap), and what is made of the answers   *)
(* that are read, tick by tick and answer by answer.  A behaviour exercises  *)
(* one part.                                                                 *)
EXTENDS RouterManagers

\* The constants of these parts; see their modules.
CONSTANTS
    Terms, MaxTerminals, Hosts, Keys, NoKey, MaxRekeys, EditBusy, Ports, Links,
    HealthEvery, StatsEvery, VlanEvery, TickBound, Cap, RulesEvery, PollBound,
    PollLimit, MaxAsks, MaxLines, MaxFrame, MaxBuffer, MaxBody

VARIABLES
    part, consoles, reserved, console, shells, starting, marks, term, profile, edit,
    serverKey, offered, trusted, changes, tickPhase, tickTick, tickCounters, tickKept,
    tickShown, tickSince, pollPoll, pollFailed, pollAsked, pollSection, pollView,
    fwGot, fwShown, rosGot, rosShown, rosProbe, rosCache, rosAsks, streamRest,
    streamSeen, streamParser, streamCpu, streamBody, streamClosed

termVars == <<consoles, reserved, console>>
Terminals == INSTANCE MikrotikTerminals WITH
    active <- consoles, starting <- reserved, term <- console

shellVars == <<shells, starting, marks, term, profile, edit, serverKey, offered,
    trusted, changes>>
Shells == INSTANCE OpnsenseTerminals WITH active <- shells

tickVars == <<tickPhase, tickTick, tickCounters, tickKept, tickShown, tickSince>>
Ticks == INSTANCE MikrotikTick WITH
    MaxTicks <- TickBound, phase <- tickPhase, tick <- tickTick, counters <-
    tickCounters, kept <- tickKept, shown <- tickShown, since <- tickSince

pollVars == <<pollPoll, pollFailed, pollAsked, pollSection, pollView>>
Monitor == INSTANCE OpnsensePolling WITH
    MaxTicks <- PollBound, poll <- pollPoll, failed <- pollFailed, asked <-
    pollAsked, section <- pollSection, view <- pollView

fwVars == <<fwGot, fwShown>>
Firewall == INSTANCE OpnsenseAnswers WITH
    got <- fwGot, shown <- fwShown

rosVars == <<rosGot, rosShown, rosProbe, rosCache, rosAsks>>
Router == INSTANCE RouterAnswers WITH
    got <- rosGot, shown <- rosShown, probe <- rosProbe, cache <- rosCache, asks <-
    rosAsks

streamVars == <<streamRest, streamSeen, streamParser, streamCpu, streamBody,
    streamClosed>>
Answers == INSTANCE OpnsenseStreams WITH
    rest <- streamRest, seen <- streamSeen, parser <- streamParser, cpu <-
    streamCpu, body <- streamBody, closed <- streamClosed

routersVars == <<part, vars, tickVars, logVars, termVars, shellVars, fileVars,
    pollVars, fwVars, rosVars, streamVars>>

RoutersInit ==
    /\ part \in {"sessions", "tick", "logs", "terminals", "shells", "backups",
                "polling", "firewall", "router", "streams"}
    /\ Init /\ Ticks!Init /\ Logs!Init /\ Terminals!Init
    /\ Shells!Init /\ Files!Init /\ Monitor!Init /\ Firewall!Init
    /\ Router!Init /\ Answers!Init
    /\ part # "streams" => streamRest = <<>>

\* Only the part the behaviour exercises moves.
RoutersNext ==
    /\ UNCHANGED part
    /\ \/ /\ part = "sessions" /\ Next
          /\ UNCHANGED <<tickVars, logVars, termVars, shellVars, fileVars, pollVars,
                       fwVars, rosVars, streamVars>>
       \/ /\ part = "tick" /\ Ticks!Next
          /\ UNCHANGED <<vars, logVars, termVars, shellVars, fileVars, pollVars,
                       fwVars, rosVars, streamVars>>
       \/ /\ part = "logs" /\ Logs!Next
          /\ UNCHANGED <<vars, tickVars, termVars, shellVars, fileVars, pollVars,
                       fwVars, rosVars, streamVars>>
       \/ /\ part = "terminals" /\ Terminals!Next
          /\ UNCHANGED <<vars, tickVars, logVars, shellVars, fileVars, pollVars,
                       fwVars, rosVars, streamVars>>
       \/ /\ part = "shells" /\ Shells!Next
          /\ UNCHANGED <<vars, tickVars, logVars, termVars, fileVars, pollVars,
                       fwVars, rosVars, streamVars>>
       \/ /\ part = "backups" /\ Files!Next
          /\ UNCHANGED <<vars, tickVars, logVars, termVars, shellVars, pollVars,
                       fwVars, rosVars, streamVars>>
       \/ /\ part = "polling" /\ Monitor!Next
          /\ UNCHANGED <<vars, tickVars, logVars, termVars, shellVars, fileVars,
                       fwVars, rosVars, streamVars>>
       \/ /\ part = "firewall" /\ Firewall!Next
          /\ UNCHANGED <<vars, tickVars, logVars, termVars, shellVars, fileVars,
                       pollVars, rosVars, streamVars>>
       \/ /\ part = "router" /\ Router!Next
          /\ UNCHANGED <<vars, tickVars, logVars, termVars, shellVars, fileVars,
                       pollVars, fwVars, streamVars>>
       \/ /\ part = "streams" /\ Answers!Next
          /\ UNCHANGED <<vars, tickVars, logVars, termVars, shellVars, fileVars,
                       pollVars, fwVars, rosVars>>

RoutersSpec == RoutersInit /\ [][RoutersNext]_routersVars

\* Type invariants; see the modules.
RoutersTypeOK ==
    /\ TypeOK /\ Ticks!TypeOK /\ Logs!TypeOK /\ Terminals!TypeOK
    /\ Shells!TypeOK /\ Files!TypeOK /\ Answers!TypeOK /\ Monitor!TypeOK
    /\ Firewall!TypeOK /\ Router!TypeOK

\* A router is polled by one task, and a task that polls is the one that
\* stop() reaches; see MikrotikSessions.
OneTaskEach == OnePollerPerRouter /\ Stoppable

\* The history of a polled router: its snapshots are those that were read, an
\* error ended it only after failures in a row, and what the identity and the
\* version probe wrote stays; see MikrotikSessions.
HistoryTrue ==
    /\ [](SnapshotsExact /\ ErrorMeansStreak)
    /\ ColumnsKept /\ NoLateVersion

\* What one poll shows from the polls before it: rates over the time between
\* two readings of one interface, links that are up, payloads that survive a
\* failure, and a warning with an old table; see MikrotikTick.  A section of a
\* firewall that turns stale is announced; see OpnsensePolling.
TickTrue ==
    /\ [](Ticks!RatesSpanPresence /\ Ticks!NoDeadLink /\ Ticks!LinkNotBlank)
    /\ Ticks!OldTableWarned /\ Ticks!PayloadsKept /\ Monitor!Announced

\* The entries of a router's log are shown once, in order and without a gap,
\* by a stream that only its own stop ends; see MikrotikLogs.
LinesWhole == Logs!OnceInOrder /\ Logs!NothingSkipped /\ Logs!OnlyOwnStop

\* Terminals: the cap counts every one of them once, no dead one keeps a
\* slot, and the marks of their profiles are exact; see MikrotikTerminals and
\* OpnsenseTerminals.
SlotsExact ==
    /\ Terminals!CapHolds /\ Terminals!ReservationsExact /\ Terminals!NoDeadSlot
    /\ Shells!MarksExact

\* A password goes only to a host whose key was trusted, and a pin is the key
\* of the address it was taken from; see OpnsenseTerminals.
TrustHolds == Shells!PasswordOnlyToTrusted /\ Shells!PinIsOfAddress

\* Backups: the router is left clean or the user told, a record names whole
\* files, no file is left without its record and none replaced unasked; see
\* Backups.
BackupsWhole ==
    /\ [](Files!RouterLeftClean /\ Files!RecordsWhole /\ Files!CiphersWhole)
    /\ Files!NoFileLost /\ Files!NotReplaced

\* What a router or a firewall says.  Streams: the events are the frames, the
\* CPU figure is the second sample, a body is whole or refused; see
\* OpnsenseStreams.  Sections: what failed reads as unknown and what is old as
\* old; see OpnsensePolling.  Tables that are joined, verdicts on updates and
\* keys that name a record: see OpnsenseAnswers and RouterAnswers.
AnswersWhole ==
    /\ Answers!EventsAreFrames /\ Answers!SecondSample /\ Answers!BodyWhole
    /\ Monitor!SectionsHonest /\ Monitor!FreshIsFresh
    /\ Firewall!RulesJoined /\ Firewall!TrafficOnce /\ Firewall!PeersOnce
    /\ Firewall!VerdictProven /\ Firewall!NewestTaken
    /\ Router!SensorsExact /\ Router!BondingSum /\ Router!PagesRefused
    /\ Router!UpdateProven /\ Router!OnlyNamedDeleted /\ Router!ChangelogOwn
==============================================================================
