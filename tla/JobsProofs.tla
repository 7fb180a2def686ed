------------------------------ MODULE JobsProofs ------------------------------
(***************************************************************************)
(* Proofs about Jobs.  A step of Jobs is a step of one part or leaves it   *)
(* alone (PartSteps), so what is proved of a part holds here.              *)
(***************************************************************************)
EXTENDS Jobs, JobManagersProofs, JobStoresProofs

\* Every step is one of a part's own, or leaves the part as it is.
LEMMA PartSteps ==
    ASSUME [JobsNext]_jobsVars
    PROVE  /\ [Next]_vars /\ [Mtu!Next]_(Mtu!vars) /\ [Scan!Next]_(Scan!vars)
           /\ [Dns!Next]_(Dns!vars) /\ [Store!Next]_(Store!vars)
           /\ [Stored!Next]_(Stored!vars) /\ [Speed!Next]_(Speed!vars)
           /\ [Sweep!Next]_(Sweep!vars) /\ [Prober!Next]_(Prober!vars)
           /\ [Output!Next]_(Output!vars)
<1>1. [Next]_vars
  BY DEF JobsNext, jobsVars, vars
<1>2. [Mtu!Next]_(Mtu!vars)
  BY DEF JobsNext, jobsVars, mtuVars, Mtu!vars
<1>3. [Scan!Next]_(Scan!vars)
  BY DEF JobsNext, jobsVars, scanVars, Scan!vars
<1>4. [Dns!Next]_(Dns!vars)
  BY DEF JobsNext, jobsVars, dnsVars, Dns!vars
<1>5. [Store!Next]_(Store!vars)
  BY DEF JobsNext, jobsVars, storeVars, Store!vars
<1>6. [Stored!Next]_(Stored!vars)
  BY DEF JobsNext, jobsVars, storedVars, Stored!vars
<1>7. [Speed!Next]_(Speed!vars)
  BY DEF JobsNext, jobsVars, speedVars, Speed!vars
<1>8. [Sweep!Next]_(Sweep!vars)
  BY DEF JobsNext, jobsVars, sweepVars, Sweep!vars
<1>9. [Prober!Next]_(Prober!vars)
  BY DEF JobsNext, jobsVars, proberVars, Prober!vars
<1>10. [Output!Next]_(Output!vars)
  BY DEF JobsNext, jobsVars, outputVars, Output!vars
<1> QED
  BY <1>1, <1>2, <1>3, <1>4, <1>5, <1>6, <1>7, <1>8, <1>9, <1>10

LEMMA PartsRun ==
    JobsSpec =>
        /\ Init /\ [][Next]_vars
        /\ Mtu!Init /\ [][Mtu!Next]_(Mtu!vars)
        /\ Scan!Init /\ [][Scan!Next]_(Scan!vars)
        /\ Dns!Init /\ [][Dns!Next]_(Dns!vars)
        /\ Store!Init /\ [][Store!Next]_(Store!vars)
        /\ Stored!Init /\ [][Stored!Next]_(Stored!vars)
        /\ Speed!Init /\ [][Speed!Next]_(Speed!vars)
        /\ Sweep!Init /\ [][Sweep!Next]_(Sweep!vars)
        /\ Prober!Init /\ [][Prober!Next]_(Prober!vars)
        /\ Output!Init /\ [][Output!Next]_(Output!vars)
<1>1. JobsInit => /\ Init /\ Mtu!Init /\ Scan!Init /\ Dns!Init /\ Store!Init /\ Stored!Init
                  /\ Speed!Init /\ Sweep!Init /\ Prober!Init /\ Output!Init
  BY DEF JobsInit
<1>2. [JobsNext]_jobsVars =>
        /\ [Next]_vars /\ [Mtu!Next]_(Mtu!vars) /\ [Scan!Next]_(Scan!vars)
        /\ [Dns!Next]_(Dns!vars) /\ [Store!Next]_(Store!vars)
        /\ [Stored!Next]_(Stored!vars) /\ [Speed!Next]_(Speed!vars)
        /\ [Sweep!Next]_(Sweep!vars) /\ [Prober!Next]_(Prober!vars)
        /\ [Output!Next]_(Output!vars)
  BY PartSteps
<1> QED
  BY <1>1, <1>2, PTL DEF JobsSpec

\* Runs and scans are told from the value that stands for none, and the sizes
\* are numbers.
JobsAssumption ==
    NoRun \notin Runs /\ NoScan \notin Scans /\ Batch \in Nat /\ Capacity \in Nat

\* A task that runs in the slot of its manager is the one stop() reaches, and the
\* slot does not keep a task that is over.
THEOREM SlotStopsHolds ==
    ASSUME JobsAssumption, DeleteBusy = FALSE
    PROVE  JobsSpec => []SlotStops
<1>1. NoRun \notin Runs /\ NoScan \notin Scans /\ Batch \in Nat /\ Capacity \in Nat
  BY DEF JobsAssumption
<1>2. Mtu!Stoppable /\ Scan!Stoppable /\ Mtu!SlotNotEnded /\ Scan!SlotNotEnded
        => SlotStops
  BY DEF SlotStops
<1> QED
  BY <1>1, <1>2, PartsRun, MtuStoppableHolds, ScanStoppableHolds, MtuSlotNotEndedHolds,
     ScanSlotNotEndedHolds, PTL

\* MTU runs and scans keep the promises of SessionLog: what is produced is saved
\* once, in order, and a run that is closed never gains any.
THEOREM ImplementsLogHolds ==
    ASSUME JobsAssumption, DeleteBusy = FALSE
    PROVE  JobsSpec => ImplementsLog
<1>1. NoRun \notin Runs /\ NoScan \notin Scans /\ Batch \in Nat /\ Capacity \in Nat
  BY DEF JobsAssumption
<1> QED
  BY <1>1, PartsRun, MtuImplementsLogHolds, ScanImplementsLogHolds, PTL DEF ImplementsLog

\* The counts of an MTU run are those of its probes, the verdict of a scan is
\* what happened and its hosts are all there; the sweep keeps to its permits, a
\* success of the prober has an answer behind it, and a trace is given up for the
\* reason it names.
THEOREM RunsWholeHolds ==
    ASSUME JobsAssumption, DeleteBusy = FALSE, PingSlots \in Nat, PortSlots \in Nat,
           AnswerSize \in Nat, Inactivity \in Nat, Ceiling \in Nat
    PROVE  JobsSpec => []RunsWhole
<1>1. NoRun \notin Runs /\ NoScan \notin Scans /\ Batch \in Nat /\ Capacity \in Nat
  BY DEF JobsAssumption
<1>2. Mtu!CountsExact /\ Scan!VerdictTrue /\ Scan!HostsComplete /\ Sweep!ProbesBounded
        /\ Prober!ConfirmedByPeer /\ Output!WatchdogTrue
        => RunsWhole
  BY DEF RunsWhole
<1>3. JobsSpec => []Mtu!CountsExact
  BY <1>1, PartsRun, CountsExactHolds, PTL
<1>4. JobsSpec => []Scan!VerdictTrue /\ []Scan!HostsComplete
  BY <1>1, PartsRun, VerdictTrueHolds, HostsCompleteHolds, PTL
<1>5. JobsSpec => []Sweep!ProbesBounded
  BY PartsRun, ProbesBoundedHolds, PTL
<1>6. JobsSpec => []Prober!ConfirmedByPeer
  BY PartsRun, ConfirmedByPeerHolds, PTL
<1>7. JobsSpec => []Output!WatchdogTrue
  BY PartsRun, WatchdogTrueHolds, PTL
<1> QED
  BY <1>2, <1>3, <1>4, <1>5, <1>6, <1>7, PTL

\* Every query of a benchmark is answered, its result is in the history whole or
\* not at all, and a history that cannot be written costs no lookup.
THEOREM BenchmarksWholeHolds ==
    ASSUME DnsAssumption, DeleteRunning = FALSE
    PROVE  JobsSpec => []BenchmarksWhole
<1>1. Dns!EveryQueryAnswered /\ Dns!HistoryWhole /\ Dns!HistoryNeverCosts => BenchmarksWhole
  BY DEF BenchmarksWhole
<1> QED
  BY <1>1, PartsRun, BenchmarksHold, PTL

\* The counts of a speed test add up, its last event is the whole, its summary is
\* over the requests that count, and what it reads back is its own row.
THEOREM SpeedsTrueHolds ==
    ASSUME SpeedAssumption
    PROVE  JobsSpec => SpeedsTrue
<1>1. Speed!CountsAddUp /\ Speed!LastEventWhole /\ Speed!SummaryExact
        => (part = "speed" => Speed!CountsAddUp /\ Speed!LastEventWhole /\ Speed!SummaryExact)
  OBVIOUS
<1> QED
  BY <1>1, PartsRun, SpeedsHold, SavedIsOwnHolds, PTL DEF SpeedsTrue

\* The database file keeps transactions whole and loses nothing, and what is read
\* is one run.
THEOREM StoresWholeHolds ==
    ASSUME StoreAssumption, DeleteRead = FALSE
    PROVE  JobsSpec => []StoresWhole
<1>1. Store!WritesWhole /\ Store!ClosedWithRows /\ Store!NothingLost
        /\ Store!FitsWhenReady /\ Store!LoadsOneRun => StoresWhole
  BY DEF StoresWhole
<1> QED
  BY <1>1, PartsRun, StoresHold, PTL

\* A call uses the secret that was entered for its profile and touches no other,
\* what a profile owns goes with it, and backups keep their records.
THEOREM ProfilesOwnHolds ==
    ASSUME StoredAssumption, EditBusy = FALSE, IsFiniteSet(Calls)
    PROVE  JobsSpec => ProfilesOwn
<1>1. Stored!OwnSecret /\ Stored!OwnRows /\ Stored!SessionsOwned /\ Stored!NoSecretLeft
        => (part = "profiles" =>
              Stored!OwnSecret /\ Stored!OwnRows /\ Stored!SessionsOwned /\ Stored!NoSecretLeft)
  OBVIOUS
<1> QED
  BY <1>1, PartsRun, ProfilesHold, BackupsStayHolds, PTL DEF ProfilesOwn
===============================================================================
