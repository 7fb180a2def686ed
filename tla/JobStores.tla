------------------------------- MODULE JobStores ------------------------------
(* The commands that keep their result without a slot, the stores under all  *)
(* tools, and what runs under a scan, an MTU run and a trace: the DNS tester *)
(* and the speed tests, the database file and the saved profiles with their  *)
(* secrets, the sweep, the TCP prober and the stream of hops.                *)
EXTENDS Integers

\* The constants of these parts; see their modules.
CONSTANTS
    DnsJobs, MaxTypes, LookupSlots, MaxQueries, SampleCap, MaxStored, MaxRows,
    MaxWrites, StoreFaults, DeleteRead, Calls, MaxProfiles, MaxOwned, KeyringFaults,
    EditBusy, Range4, Neighbour, PingSlots, PortSlots, PortCount, PeerProbes,
    AnswerSize, Inactivity, Ceiling, MaxClock, MaxLines, Tests, MaxItems, PageSlots,
    MaxRuns, LoadSlots, LoadFactor, DeleteMeasured, HistoryErrors,
    DeleteRunning

VARIABLES
    job, dnsRows, targets, dnsDbErrors, kind, file, conn, runs, storeRows, tx, load,
    kept, moved, made, writes, faults, profiles, keyring, sessions, backups, active,
    call, profilesMade, rowsMade, keyringFaults, net, sweep, ports, probe, peer, prog,
    clock, next, test, measured, speedRows, speedDbErrors

dnsVars == <<job, dnsRows, targets, dnsDbErrors>>
Dns == INSTANCE DnsTester WITH
    Jobs <- DnsJobs, MaxDbErrors <- HistoryErrors, DeleteBusy <- DeleteRunning,
    rows <- dnsRows, dbErrors <- dnsDbErrors

storeVars == <<kind, file, conn, runs, storeRows, tx, load, kept, moved, made,
    writes, faults>>
Store == INSTANCE Storage WITH
    MaxRuns <- MaxStored, MaxFaults <- StoreFaults, rows <- storeRows

storedVars == <<profiles, keyring, sessions, backups, active, call, profilesMade,
    rowsMade, keyringFaults>>
Stored == INSTANCE Profiles WITH
    MaxRows <- MaxOwned, MaxFaults <- KeyringFaults, made <- profilesMade, faults <-
    keyringFaults

speedVars == <<test, measured, speedRows, speedDbErrors>>
Speed == INSTANCE SpeedTests WITH
    MaxDbErrors <- HistoryErrors, DeleteBusy <- DeleteMeasured, runs <- measured,
    rows <- speedRows, dbErrors <- speedDbErrors

sweepVars == <<net, sweep, ports>>
Sweep == INSTANCE Discovery

proberVars == <<probe, peer>>
Prober == INSTANCE TcpProber WITH MaxProbes <- PeerProbes, conn <- peer

outputVars == <<prog, clock, next>>
Output == INSTANCE TraceOutput
===============================================================================
