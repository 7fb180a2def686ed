----------------------------- MODULE MC_Liveness -----------------------------
(* Liveness, on instances small enough for temporal properties.  The       *)
(* managers share nothing: a behaviour exercises one of them (part), and the*)
(* others stay in their initial states, where no fair action is enabled.   *)
EXTENDS Integers

VARIABLES
    part, pingStage, pingSid, pingActive, pingWatch, pingLoopPc, pingSeq, pingChan,
    pingConsPc, pingBatch, pingFed, pingRows, pingEnded, pingProbes, pingDropped,
    pingForgotten, pingDbErrors, pingCrashes, traceSlot, traceMutex, tracePc,
    traceTid, traceWatch, traceStopper, traceArrival, traceSeen, traceHops,
    traceOutcome, traceSnapshot, traceLookup, traceTodo, traceNamed, traceStatus,
    traceHopRows, traceForgotten, traceDbErrors, fwRows, fwDeleting, fwPc, fwPid,
    fwSlots, fwWatch, fwGo, fwStopper, fwMonitors, fwLogs, scanSlot, scanScan,
    scanRows, scanHosts, scanDbErrors, dnsJob, dnsRows, dnsTargets, dnsDbErrors,
    speedTest, speedRuns, speedRows, speedDbErrors, pollActive, pollSession, pollRows,
    pollSnapshots, pollProfiles, pollDoomed, pollDbErrors, logSlot, logStream,
    logWritten, logFailed, termActive, termStarting, termTerm

pingVars == <<pingStage, pingSid, pingActive, pingWatch, pingLoopPc, pingSeq,
    pingChan, pingConsPc, pingBatch, pingFed, pingRows, pingEnded, pingProbes,
    pingDropped, pingForgotten, pingDbErrors, pingCrashes>>
Ping == INSTANCE PingSession WITH
    Runs <- {"r1"}, ChannelCap <- 1, FlushBatch <- 2, MaxProbes <- 3, MaxDbErrors <-
    1, MaxCrashes <- 1, DeleteLive <- TRUE, stage <- pingStage, sid <- pingSid, active
    <- pingActive, watch <- pingWatch, loopPc <- pingLoopPc, seq <- pingSeq, chan <-
    pingChan, consPc <- pingConsPc, batch <- pingBatch, fed <- pingFed, rows <-
    pingRows, ended <- pingEnded, probes <- pingProbes, dropped <- pingDropped,
    forgotten <- pingForgotten, dbErrors <- pingDbErrors, crashes <- pingCrashes

traceVars == <<traceSlot, traceMutex, tracePc, traceTid, traceWatch, traceStopper,
    traceArrival, traceSeen, traceHops, traceOutcome, traceSnapshot, traceLookup,
    traceTodo, traceNamed, traceStatus, traceHopRows, traceForgotten, traceDbErrors>>
Trace == INSTANCE TraceRun WITH
    Runs <- {"r1"}, Addresses <- {"a1", "a2"}, NoAddr <- "none", NoRun <- "no run",
    Permits <- 1, MaxHops <- 2, MaxDbErrors <- 1, DeleteBusy <- TRUE, slot <-
    traceSlot, mutex <- traceMutex, pc <- tracePc, tid <- traceTid, watch <-
    traceWatch, stopper <- traceStopper, arrival <- traceArrival, seen <- traceSeen,
    hops <- traceHops, outcome <- traceOutcome, snapshot <- traceSnapshot, lookup <-
    traceLookup, todo <- traceTodo, named <- traceNamed, status <- traceStatus,
    hopRows <- traceHopRows, forgotten <- traceForgotten, dbErrors <- traceDbErrors

fwVars == <<fwRows, fwDeleting, fwPc, fwPid, fwSlots, fwWatch, fwGo, fwStopper,
    fwMonitors, fwLogs>>
Opnsense == INSTANCE OpnsenseSessions WITH
    Monitors <- {"m1"}, Logs <- {"l1", "l2"}, Ids <- {1}, MaxMonitors <- 2, rows <-
    fwRows, deleting <- fwDeleting, pc <- fwPc, pid <- fwPid, slots <- fwSlots, watch
    <- fwWatch, go <- fwGo, stopper <- fwStopper, monitors <- fwMonitors, logs <-
    fwLogs

scanVars == <<scanSlot, scanScan, scanRows, scanHosts, scanDbErrors>>
Scan == INSTANCE ScanRun WITH
    Scans <- {"s1"}, NoScan <- "none", Batch <- 2, Capacity <- 1, MaxFound <- 3,
    MaxDbErrors <- 1, DeleteBusy <- TRUE, slot <- scanSlot, scan <- scanScan, rows <-
    scanRows, hosts <- scanHosts, dbErrors <- scanDbErrors

dnsVars == <<dnsJob, dnsRows, dnsTargets, dnsDbErrors>>
Dns == INSTANCE DnsTester WITH
    Jobs <- {"j1"}, MaxTypes <- 2, LookupSlots <- 1, MaxQueries <- 3, SampleCap <- 1,
    MaxDbErrors <- 1, DeleteBusy <- TRUE, job <- dnsJob, rows <- dnsRows, targets <-
    dnsTargets, dbErrors <- dnsDbErrors

speedVars == <<speedTest, speedRuns, speedRows, speedDbErrors>>
Speed == INSTANCE SpeedTests WITH
    Tests <- {"t1"}, MaxItems <- 2, PageSlots <- 1, MaxRuns <- 1, LoadSlots <- 2,
    LoadFactor <- 1, MaxDbErrors <- 0, DeleteBusy <- TRUE, test <- speedTest, runs <-
    speedRuns, rows <- speedRows, dbErrors <- speedDbErrors

pollVars == <<pollActive, pollSession, pollRows, pollSnapshots, pollProfiles,
    pollDoomed, pollDbErrors>>
Polls == INSTANCE MikrotikSessions WITH
    Sessions <- {"s1"}, Profiles <- {"p1"}, Nobody <- "nobody", MaxActive <- 1,
    MaxCoreFailures <- 2, MaxTicks <- 2, MaxDbErrors <- 0, MaxDeletes <- 1, DeleteBusy
    <- FALSE, active <- pollActive, session <- pollSession, rows <- pollRows,
    snapshots <- pollSnapshots, profiles <- pollProfiles, doomed <- pollDoomed,
    dbErrors <- pollDbErrors

logVars == <<logSlot, logStream, logWritten, logFailed>>
LogStreams == INSTANCE MikrotikLogs WITH
    Streams <- {"s1", "s2"}, Nobody <- "nobody", Backlog <- 1, MaxLogFailures <- 2,
    BufferSize <- 1, MaxEntries <- 1, Odd <- {}, MaxFailures <- 2, Hasty <- FALSE,
    slot <- logSlot, stream <- logStream, written <- logWritten, failed <- logFailed

termVars == <<termActive, termStarting, termTerm>>
Terminals == INSTANCE MikrotikTerminals WITH
    Terms <- {"t1", "t2"}, MaxTerminals <- 1, active <- termActive, starting <-
    termStarting, term <- termTerm

vars == <<part, pingVars, traceVars, fwVars, scanVars, dnsVars, speedVars, pollVars,
    logVars, termVars>>

Init ==
    /\ part \in {"ping", "trace", "opnsense", "scan", "dns", "speed", "polls",
                "logs", "terminals"}
    /\ Ping!Init /\ Trace!Init /\ Opnsense!Init /\ Scan!Init
    /\ Dns!Init /\ Speed!Init /\ Polls!Init /\ LogStreams!Init
    /\ Terminals!Init

\* Only the part the behaviour exercises moves.
Next ==
    /\ UNCHANGED part
    /\ \/ /\ part = "ping" /\ Ping!Next
          /\ UNCHANGED <<traceVars, fwVars, scanVars, dnsVars, speedVars, pollVars,
                       logVars, termVars>>
       \/ /\ part = "trace" /\ Trace!Next
          /\ UNCHANGED <<pingVars, fwVars, scanVars, dnsVars, speedVars, pollVars, logVars,
                       termVars>>
       \/ /\ part = "opnsense" /\ Opnsense!Next
          /\ UNCHANGED <<pingVars, traceVars, scanVars, dnsVars, speedVars, pollVars,
                       logVars, termVars>>
       \/ /\ part = "scan" /\ Scan!Next
          /\ UNCHANGED <<pingVars, traceVars, fwVars, dnsVars, speedVars, pollVars,
                       logVars, termVars>>
       \/ /\ part = "dns" /\ Dns!Next
          /\ UNCHANGED <<pingVars, traceVars, fwVars, scanVars, speedVars, pollVars,
                       logVars, termVars>>
       \/ /\ part = "speed" /\ Speed!Next
          /\ UNCHANGED <<pingVars, traceVars, fwVars, scanVars, dnsVars, pollVars, logVars,
                       termVars>>
       \/ /\ part = "polls" /\ Polls!Next
          /\ UNCHANGED <<pingVars, traceVars, fwVars, scanVars, dnsVars, speedVars,
                       logVars, termVars>>
       \/ /\ part = "logs" /\ LogStreams!Next
          /\ UNCHANGED <<pingVars, traceVars, fwVars, scanVars, dnsVars, speedVars,
                       pollVars, termVars>>
       \/ /\ part = "terminals" /\ Terminals!Next
          /\ UNCHANGED <<pingVars, traceVars, fwVars, scanVars, dnsVars, speedVars,
                       pollVars, logVars>>

Spec ==
    /\ Init /\ [][Next]_vars
    /\ Ping!Fairness /\ Trace!Fairness /\ Opnsense!Fairness
    /\ Scan!Fairness /\ Dns!Fairness /\ Speed!Fairness
    /\ Polls!Fairness /\ LogStreams!Fairness /\ Terminals!Fairness

\* Every stop() of a session, a trace, a scan or a log stream returns.
StopReturns ==
    /\ Ping!StopReturns /\ Trace!StopReturns /\ Opnsense!StopReturns
    /\ Scan!StopReturns /\ Polls!StopReturns /\ LogStreams!StopReturns

\* What was begun comes to its end: a probe does not stay in the batch, a trace
\* ends though its loop waits for lookups, an OPNsense log stream that ended by
\* itself frees its profile, a MikroTik terminal whose channel or view is gone
\* its slot, and every lookup, report, benchmark and speed test gives an answer.
WorkEnds ==
    /\ Ping!BatchIsFlushed /\ Trace!TraceEnds
    /\ Opnsense!EndFrees /\ Terminals!DeadOnesLeave
    /\ Dns!CommandsEnd /\ Speed!TestsEnd
==============================================================================
