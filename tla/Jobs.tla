-------------------------------- MODULE Jobs ---------------------------------
(* The tools of the desktop app that run one job at a time: the MTU search,  *)
(* MTU runs and LAN scans (JobManagers), the DNS tester and the speed tests; *)
(* what they are built of: DNS queries, diagnostics and mail checks, the     *)
(* sweep of a scan with its tables, probe engines and figures; and the stores*)
(* under them: the database file, saved profiles and their secrets.  The     *)
(* tools share nothing but the file, and no two of them a table: a behaviour *)
(* exercises one of them (part).                                             *)
EXTENDS JobManagers, JobStores

\* The constants of the other parts; see their modules.
CONSTANTS
    MaxHops, Domains, Root, LookupLimit, MaxDepth, MaxTerms

VARIABLES
    part, findGot, findShown, mailGot, mailShown, zone, walk, queryGot, queryShown,
    tableGot, tableShown, echoGot, echoShown, history, stats, bench

findVars == <<findGot, findShown>>
Findings == INSTANCE DnsDiagnosis WITH got <- findGot, shown <- findShown

mailVars == <<mailGot, mailShown, zone, walk>>
Mail == INSTANCE DnsMail WITH got <- mailGot, shown <- mailShown

queryVars == <<queryGot, queryShown>>
Queries == INSTANCE DnsAnswers WITH got <- queryGot, shown <- queryShown

tableVars == <<tableGot, tableShown>>
Tables == INSTANCE ScanTables WITH got <- tableGot, shown <- tableShown

echoVars == <<echoGot, echoShown>>
Echoes == INSTANCE ProbeAnswers WITH got <- echoGot, shown <- echoShown

figureVars == <<history, stats, bench>>
Figures == INSTANCE Calculations

\* A network nothing answers in, for the parts that scan none.
QuietNet == [ping |-> {}, tcp |-> {}, arp |-> {}, named |-> Range4, fallback |-> FALSE,
             portsEnabled |-> FALSE, open |-> {}]

jobsVars == <<part, vars, mtuVars, scanVars, dnsVars, storeVars, storedVars,
    speedVars, findVars, mailVars, queryVars, sweepVars, tableVars, echoVars, proberVars,
    outputVars, figureVars>>

JobsInit ==
    /\ part \in {"search", "mtu", "scan", "dns", "storage", "profiles", "speed",
                "findings", "mail", "queries", "discovery", "tables", "echoes",
                "prober", "output", "figures"}
    /\ Init /\ Mtu!Init /\ Scan!Init /\ Dns!Init
    /\ Store!Init /\ Stored!Init /\ Speed!Init /\ Findings!Init
    /\ Mail!Init /\ Queries!Init /\ Sweep!Init /\ Tables!Init
    /\ Echoes!Init /\ Prober!Init /\ Output!Init /\ Figures!Init
    /\ part # "search" => link = FirstMtu
    /\ part # "storage" => kind = "scan"
    /\ part # "discovery" => net = QuietNet

\* Only the part the behaviour exercises moves.
JobsNext ==
    /\ UNCHANGED part
    /\ \/ /\ part = "search" /\ Next
          /\ UNCHANGED <<mtuVars, scanVars, dnsVars, storeVars, storedVars, speedVars,
                       findVars, mailVars, queryVars, sweepVars, tableVars, echoVars,
                       proberVars, outputVars, figureVars>>
       \/ /\ part = "mtu" /\ Mtu!Next
          /\ UNCHANGED <<vars, scanVars, dnsVars, storeVars, storedVars, speedVars,
                       findVars, mailVars, queryVars, sweepVars, tableVars, echoVars,
                       proberVars, outputVars, figureVars>>
       \/ /\ part = "scan" /\ Scan!Next
          /\ UNCHANGED <<vars, mtuVars, dnsVars, storeVars, storedVars, speedVars,
                       findVars, mailVars, queryVars, sweepVars, tableVars, echoVars,
                       proberVars, outputVars, figureVars>>
       \/ /\ part = "dns" /\ Dns!Next
          /\ UNCHANGED <<vars, mtuVars, scanVars, storeVars, storedVars, speedVars,
                       findVars, mailVars, queryVars, sweepVars, tableVars, echoVars,
                       proberVars, outputVars, figureVars>>
       \/ /\ part = "storage" /\ Store!Next
          /\ UNCHANGED <<vars, mtuVars, scanVars, dnsVars, storedVars, speedVars, findVars,
                       mailVars, queryVars, sweepVars, tableVars, echoVars, proberVars,
                       outputVars, figureVars>>
       \/ /\ part = "profiles" /\ Stored!Next
          /\ UNCHANGED <<vars, mtuVars, scanVars, dnsVars, storeVars, speedVars, findVars,
                       mailVars, queryVars, sweepVars, tableVars, echoVars, proberVars,
                       outputVars, figureVars>>
       \/ /\ part = "speed" /\ Speed!Next
          /\ UNCHANGED <<vars, mtuVars, scanVars, dnsVars, storeVars, storedVars, findVars,
                       mailVars, queryVars, sweepVars, tableVars, echoVars, proberVars,
                       outputVars, figureVars>>
       \/ /\ part = "findings" /\ Findings!Next
          /\ UNCHANGED <<vars, mtuVars, scanVars, dnsVars, storeVars, storedVars,
                       speedVars, mailVars, queryVars, sweepVars, tableVars, echoVars,
                       proberVars, outputVars, figureVars>>
       \/ /\ part = "mail" /\ Mail!Next
          /\ UNCHANGED <<vars, mtuVars, scanVars, dnsVars, storeVars, storedVars,
                       speedVars, findVars, queryVars, sweepVars, tableVars, echoVars,
                       proberVars, outputVars, figureVars>>
       \/ /\ part = "queries" /\ Queries!Next
          /\ UNCHANGED <<vars, mtuVars, scanVars, dnsVars, storeVars, storedVars,
                       speedVars, findVars, mailVars, sweepVars, tableVars, echoVars,
                       proberVars, outputVars, figureVars>>
       \/ /\ part = "discovery" /\ Sweep!Next
          /\ UNCHANGED <<vars, mtuVars, scanVars, dnsVars, storeVars, storedVars,
                       speedVars, findVars, mailVars, queryVars, tableVars, echoVars,
                       proberVars, outputVars, figureVars>>
       \/ /\ part = "tables" /\ Tables!Next
          /\ UNCHANGED <<vars, mtuVars, scanVars, dnsVars, storeVars, storedVars,
                       speedVars, findVars, mailVars, queryVars, sweepVars, echoVars,
                       proberVars, outputVars, figureVars>>
       \/ /\ part = "echoes" /\ Echoes!Next
          /\ UNCHANGED <<vars, mtuVars, scanVars, dnsVars, storeVars, storedVars,
                       speedVars, findVars, mailVars, queryVars, sweepVars, tableVars,
                       proberVars, outputVars, figureVars>>
       \/ /\ part = "prober" /\ Prober!Next
          /\ UNCHANGED <<vars, mtuVars, scanVars, dnsVars, storeVars, storedVars,
                       speedVars, findVars, mailVars, queryVars, sweepVars, tableVars,
                       echoVars, outputVars, figureVars>>
       \/ /\ part = "output" /\ Output!Next
          /\ UNCHANGED <<vars, mtuVars, scanVars, dnsVars, storeVars, storedVars,
                       speedVars, findVars, mailVars, queryVars, sweepVars, tableVars,
                       echoVars, proberVars, figureVars>>
       \/ /\ part = "figures" /\ Figures!Next
          /\ UNCHANGED <<vars, mtuVars, scanVars, dnsVars, storeVars, storedVars,
                       speedVars, findVars, mailVars, queryVars, sweepVars, tableVars,
                       echoVars, proberVars, outputVars>>

JobsSpec ==
    /\ JobsInit /\ [][JobsNext]_jobsVars
    /\ WF_jobsVars(part = "search" /\ JobsNext)

\* Type invariants of the runs, the scans and the tests; see their modules.
JobsTypeOK ==
    /\ Mtu!TypeOK /\ Scan!TypeOK /\ Dns!TypeOK /\ Speed!TypeOK
    /\ Store!TypeOK /\ Stored!TypeOK
    /\ part \in {"findings", "mail", "queries"} =>
           Findings!TypeOK /\ Mail!TypeOK /\ Queries!TypeOK
    /\ part \in {"discovery", "tables"} => Sweep!TypeOK /\ Tables!TypeOK
    /\ part \in {"echoes", "prober", "output", "figures"} =>
           Echoes!TypeOK /\ Prober!TypeOK /\ Output!TypeOK /\ Figures!TypeOK

\* MTU search: the search ends when every probe has an outcome.
SearchEnds == part = "search" => SearchTerminates

\* A task that runs in the slot is the one its stop() reaches, and the slot
\* does not keep a task that is over; see MtuRun and ScanRun.
SlotStops ==
    /\ Mtu!Stoppable /\ Scan!Stoppable
    /\ Mtu!SlotNotEnded /\ Scan!SlotNotEnded

\* Runs and scans implement the append-only history; see SessionLog.
ImplementsLog == Mtu!ImplementsLog /\ Scan!ImplementsLog

\* The counters of an MTU run agree with its probes, the verdict of a scan
\* with what happened, and its hosts are all there; see MtuRun and ScanRun.
\* Under them: a sweep keeps to its permits and asks no host twice, a probe that
\* succeeds had an answer of the peer, and a trace is given up for the reason it
\* names, its program ended; see Discovery, TcpProber and TraceOutput.
RunsWhole ==
    /\ part = "mtu" => Mtu!CountsExact
    /\ part = "scan" => Scan!VerdictTrue /\ Scan!HostsComplete
    /\ part = "discovery" => Sweep!ProbesBounded
    /\ part = "prober" => Prober!ConfirmedByPeer
    /\ part = "output" => Output!WatchdogTrue

\* Lookups and benchmarks of the DNS tester: every query is answered, a result
\* is in the history whole or not at all, and a history that cannot be written
\* costs no lookup; see DnsTester.
BenchmarksWhole ==
    part = "dns" => Dns!EveryQueryAnswered /\ Dns!HistoryWhole /\ Dns!HistoryNeverCosts

\* Downloads, page tests and benchmarks: the counts add up, the last event is
\* the whole, the summary is over the requests that count, and what a test
\* reads back is its own row; see SpeedTests.
SpeedsTrue ==
    /\ [](part = "speed" => Speed!CountsAddUp /\ Speed!LastEventWhole /\ Speed!SummaryExact)
    /\ Speed!SavedIsOwn

\* The database file: a transaction is there whole or not at all, a closed
\* trace or run has its rows, a file of another version is moved and not lost,
\* and a run that is read is one run; see Storage.
StoresWhole ==
    part = "storage" =>
        /\ Store!WritesWhole /\ Store!ClosedWithRows /\ Store!NothingLost
        /\ Store!FitsWhenReady /\ Store!LoadsOneRun

\* Saved routers: a call uses the secret that was entered for its profile and
\* touches no other, what a profile owns goes with it, and backups on disk keep
\* their records; see Profiles.
ProfilesOwn ==
    /\ [](part = "profiles" =>
            Stored!OwnSecret /\ Stored!OwnRows /\ Stored!SessionsOwned /\ Stored!NoSecretLeft)
    /\ Stored!BackupsStay

\* What is made of the answers.  Of a domain: a lost answer is no evidence, and
\* walks over aliases and sender policies end, whatever the zones say; see
\* DnsAnswers, DnsDiagnosis and DnsMail.  Of a network: what answered is found,
\* by the strongest evidence, with its ports and what the tables say of it; see
\* Discovery and ScanTables.  Of a path: the engines report the same on every
\* platform, hop by hop; see ProbeAnswers and TraceOutput.  The figures of a
\* benchmark are those of its samples, and the figures of pings those of all
\* pings; see Calculations.
AnswersRight ==
    /\ part = "queries" =>
         /\ Queries!SameEndpoint /\ Queries!AnswersMeant /\ Queries!CodesWhole
         /\ Queries!Comparable
    /\ part = "findings" =>
         /\ Findings!DelegationFounded /\ Findings!LostIsNotWrong /\ Findings!DnssecFounded
         /\ Findings!MxUsable /\ Findings!ChainFollowed /\ Findings!NoneLost
    /\ part = "mail" =>
         /\ Mail!WalkBounded /\ Mail!CountExact /\ Mail!SpfPassFounded
         /\ Mail!DkimPassFounded /\ Mail!DmarcPassFounded /\ Mail!LengthRead
    /\ part = "discovery" => Sweep!FoundAsAnswered /\ Sweep!PortsWhole
    /\ part = "tables" => Tables!RangesRight /\ Tables!LongestPrefix /\ Tables!GatewayFirst
    /\ part = "echoes" => Echoes!EnginesAgree /\ Echoes!HopsRead
    /\ part = "output" => Output!HopsInOrder
    /\ part = "figures" => Figures!FiguresOrdered /\ Figures!KeptIsComputed
==============================================================================
