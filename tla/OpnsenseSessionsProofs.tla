------------------------ MODULE OpnsenseSessionsProofs ------------------------
(***************************************************************************)
(* Proofs about OpnsenseSessions for any sessions, profiles and deletions: *)
(* type correctness with the cap, that a running session can be stopped,   *)
(* that only live sessions hold a slot, and that the registry counts       *)
(* exactly the live ones.                                                  *)
(*                                                                         *)
(* MarksExact is not inductive: a mark must be taken back once, by the     *)
(* release of the task or by the stop() that waits for it.  SlotInv and    *)
(* MonitorInv say who: what is in a map was never told to stop, and a      *)
(* monitor that closes is out of the map and has a stop() waiting.         *)
(***************************************************************************)
EXTENDS OpnsenseSessions, FiniteSetTheorems, TLAPS

\* Not yet published.
FreshInv ==
    \A s \in Sessions : pc[s] \in {"idle", "checked", "connecting"} =>
        watch[s] = "live" /\ stopper[s] = "none"

SlotInv ==
    \A s \in slots : /\ watch[s] = "live" /\ stopper[s] = "none"
                     /\ pc[s] \in {"gated", "running", "closing"}

MonitorInv ==
    \A m \in Monitors :
        /\ pc[m] = "running" => m \in slots \/ stopper[m] = "joining"
        /\ pc[m] = "closing" => m \notin slots /\ stopper[m] = "joining"
        /\ pc[m] \notin {"gated", "exiting"}

PidInv == \A s \in Sessions : pc[s] # "idle" => pid[s] \in Ids

IInv ==
    TypeOK /\ FreshInv /\ SlotInv /\ MonitorInv /\ PidInv /\ Stoppable /\ MarksExact

-----------------------------------------------------------------------------
(* Counting.                                                               *)

\* One element more or less in a finite set.
LEMMA CountAdd ==
    ASSUME NEW S, IsFiniteSet(S), NEW x, x \notin S
    PROVE  /\ Cardinality(S \cup {x}) = Cardinality(S) + 1
           /\ Cardinality(S) \in Nat
  BY FS_AddElement, FS_CardinalityType

LEMMA CountRemove ==
    ASSUME NEW S, IsFiniteSet(S), NEW x \in S
    PROVE  /\ Cardinality(S \ {x}) = Cardinality(S) - 1
           /\ Cardinality(S) \in Nat \ {0}
<1>1. Cardinality(S \ {x}) = Cardinality(S) - 1
  BY FS_RemoveElement
<1>2. Cardinality(S) \in Nat /\ Cardinality(S) # 0
  BY FS_CardinalityType, FS_EmptySet
<1> QED
  BY <1>1, <1>2

LEMMA MarkedFinite ==
    ASSUME NEW i
    PROVE  IsFiniteSet(MarkedMonitors(i)) /\ IsFiniteSet(MarkedLogs(i))
  BY SessionsAssumption, FS_Subset DEF MarkedMonitors, MarkedLogs

\* A subset of the map keeps within the cap.
LEMMA CapKept ==
    ASSUME TypeOK, slots' \cap Monitors \subseteq slots \cap Monitors
    PROVE  Cardinality(slots' \cap Monitors) <= MaxMonitors
<1>1. IsFiniteSet(slots \cap Monitors)
  BY SessionsAssumption, FS_Subset
<1>2. /\ Cardinality(slots' \cap Monitors) <= Cardinality(slots \cap Monitors)
      /\ Cardinality(slots' \cap Monitors) \in Nat /\ Cardinality(slots \cap Monitors) \in Nat
  BY <1>1, FS_Subset, FS_CardinalityType
<1> QED
  BY <1>2, SessionsAssumption DEF TypeOK

\* Marks and marked sessions unchanged.
LEMMA MarksKept ==
    ASSUME MarksExact, UNCHANGED activity,
           \A i \in Ids : /\ MarkedMonitors(i)' = MarkedMonitors(i)
                          /\ MarkedLogs(i)' = MarkedLogs(i)
    PROVE  MarksExact'
  BY DEF MarksExact, activity

LEMMA MarksTyped ==
    ASSUME NEW counts \in [Ids -> Nat], NEW k \in Ids
    PROVE  Enter(counts, k) \in [Ids -> Nat] /\ Exit(counts, k) \in [Ids -> Nat]
<1>1. \A n \in Nat : n + 1 \in Nat /\ (IF n = 0 THEN 0 ELSE n - 1) \in Nat
  OBVIOUS
<1> QED
  BY <1>1 DEF Enter, Exit

\* The marks of the monitors after one more or one less.
LEMMA MonitorEntered ==
    ASSUME TypeOK, MarksExact, NEW k \in Ids, NEW s, s \notin MarkedMonitors(k),
           MarkedMonitors(k)' = MarkedMonitors(k) \cup {s},
           \A i \in Ids \ {k} : MarkedMonitors(i)' = MarkedMonitors(i),
           monitors' = Enter(monitors, k)
    PROVE  \A i \in Ids : monitors'[i] = Cardinality(MarkedMonitors(i)')
<1>1. Cardinality(MarkedMonitors(k) \cup {s}) = Cardinality(MarkedMonitors(k)) + 1
  BY MarkedFinite, CountAdd
<1>2. \A i \in Ids : monitors[i] = Cardinality(MarkedMonitors(i))
  BY DEF MarksExact
<1>3. monitors'[k] = Cardinality(MarkedMonitors(k)')
  BY <1>1, <1>2 DEF TypeOK, Enter
<1>4. ASSUME NEW i \in Ids \ {k} PROVE monitors'[i] = Cardinality(MarkedMonitors(i)')
  BY <1>2 DEF TypeOK, Enter
<1> QED
  BY <1>3, <1>4

LEMMA MonitorExited ==
    ASSUME TypeOK, MarksExact, NEW k \in Ids, NEW s, s \in MarkedMonitors(k),
           MarkedMonitors(k)' = MarkedMonitors(k) \ {s},
           \A i \in Ids \ {k} : MarkedMonitors(i)' = MarkedMonitors(i),
           monitors' = Exit(monitors, k)
    PROVE  \A i \in Ids : monitors'[i] = Cardinality(MarkedMonitors(i)')
<1>1. /\ Cardinality(MarkedMonitors(k) \ {s}) = Cardinality(MarkedMonitors(k)) - 1
      /\ Cardinality(MarkedMonitors(k)) \in Nat \ {0}
  BY MarkedFinite, CountRemove
<1>2. \A i \in Ids : monitors[i] = Cardinality(MarkedMonitors(i))
  BY DEF MarksExact
<1>3. monitors'[k] = Cardinality(MarkedMonitors(k)')
  BY <1>1, <1>2 DEF TypeOK, Exit
<1>4. ASSUME NEW i \in Ids \ {k} PROVE monitors'[i] = Cardinality(MarkedMonitors(i)')
  BY <1>2 DEF TypeOK, Exit
<1> QED
  BY <1>3, <1>4

\* The same for the log streams.
LEMMA LogEntered ==
    ASSUME TypeOK, MarksExact, NEW k \in Ids, NEW s, s \notin MarkedLogs(k),
           MarkedLogs(k)' = MarkedLogs(k) \cup {s},
           \A i \in Ids \ {k} : MarkedLogs(i)' = MarkedLogs(i),
           logs' = Enter(logs, k)
    PROVE  \A i \in Ids : logs'[i] = Cardinality(MarkedLogs(i)')
<1>1. Cardinality(MarkedLogs(k) \cup {s}) = Cardinality(MarkedLogs(k)) + 1
  BY MarkedFinite, CountAdd
<1>2. \A i \in Ids : logs[i] = Cardinality(MarkedLogs(i))
  BY DEF MarksExact
<1>3. logs'[k] = Cardinality(MarkedLogs(k)')
  BY <1>1, <1>2 DEF TypeOK, Enter
<1>4. ASSUME NEW i \in Ids \ {k} PROVE logs'[i] = Cardinality(MarkedLogs(i)')
  BY <1>2 DEF TypeOK, Enter
<1> QED
  BY <1>3, <1>4

LEMMA LogExited ==
    ASSUME TypeOK, MarksExact, NEW k \in Ids, NEW s, s \in MarkedLogs(k),
           MarkedLogs(k)' = MarkedLogs(k) \ {s},
           \A i \in Ids \ {k} : MarkedLogs(i)' = MarkedLogs(i),
           logs' = Exit(logs, k)
    PROVE  \A i \in Ids : logs'[i] = Cardinality(MarkedLogs(i)')
<1>1. /\ Cardinality(MarkedLogs(k) \ {s}) = Cardinality(MarkedLogs(k)) - 1
      /\ Cardinality(MarkedLogs(k)) \in Nat \ {0}
  BY MarkedFinite, CountRemove
<1>2. \A i \in Ids : logs[i] = Cardinality(MarkedLogs(i))
  BY DEF MarksExact
<1>3. logs'[k] = Cardinality(MarkedLogs(k)')
  BY <1>1, <1>2 DEF TypeOK, Exit
<1>4. ASSUME NEW i \in Ids \ {k} PROVE logs'[i] = Cardinality(MarkedLogs(i)')
  BY <1>2 DEF TypeOK, Exit
<1> QED
  BY <1>3, <1>4

-----------------------------------------------------------------------------
(* One lemma per action.                                                   *)

LEMMA InitIInv == Init => IInv
<1> SUFFICES ASSUME Init PROVE IInv
  OBVIOUS
<1>1. Cardinality({}) = 0
  BY FS_EmptySet
<1>2. slots \cap Monitors = {}
  BY DEF Init
<1>3. TypeOK
  BY <1>1, <1>2, SessionsAssumption DEF Init, TypeOK, Sessions
<1>4. \A i \in Ids : MarkedMonitors(i) = {} /\ MarkedLogs(i) = {}
  BY DEF Init, MarkedMonitors, MarkedLogs, Sessions
<1>5. MarksExact
  BY <1>1, <1>4 DEF Init, MarksExact
<1>6. FreshInv /\ SlotInv /\ MonitorInv /\ PidInv /\ Stoppable
  BY DEF Init, FreshInv, SlotInv, MonitorInv, PidInv, Stoppable, Sessions
<1> QED
  BY <1>3, <1>5, <1>6 DEF IInv

LEMMA StartCheckInv ==
    ASSUME IInv, NEW s \in Sessions, StartCheck(s) PROVE IInv'
<1> USE SessionsAssumption DEF Sessions
<1>1. slots' \cap Monitors \subseteq slots \cap Monitors
  BY DEF StartCheck
<1>2. TypeOK'
  BY <1>1, CapKept DEF StartCheck, IInv, TypeOK, profiles, starting, activity, Goto
<1>3. FreshInv' /\ SlotInv' /\ MonitorInv' /\ PidInv' /\ Stoppable'
  BY DEF StartCheck, IInv, TypeOK, FreshInv, SlotInv, MonitorInv, PidInv, Stoppable, starting, Goto
<1>4. \A i \in Ids : /\ MarkedMonitors(i)' = MarkedMonitors(i)
                      /\ MarkedLogs(i)' = MarkedLogs(i)
  BY DEF StartCheck, IInv, TypeOK, FreshInv, SlotInv, MonitorInv, MarkedMonitors, MarkedLogs, starting, Goto
<1>5. MarksExact'
  BY <1>4, MarksKept DEF StartCheck, IInv
<1> QED
  BY <1>2, <1>3, <1>5 DEF IInv

LEMMA ReadProfileInv ==
    ASSUME IInv, NEW s \in Sessions, ReadProfile(s) PROVE IInv'
<1> USE SessionsAssumption DEF Sessions
<1>1. slots' \cap Monitors \subseteq slots \cap Monitors
  BY DEF ReadProfile
<1>2. TypeOK'
  BY <1>1, CapKept DEF ReadProfile, IInv, TypeOK, profiles, starting, activity, Goto
<1>3. FreshInv' /\ SlotInv' /\ MonitorInv' /\ PidInv' /\ Stoppable'
  BY DEF ReadProfile, IInv, TypeOK, FreshInv, SlotInv, MonitorInv, PidInv, Stoppable, starting, Goto
<1>4. \A i \in Ids : /\ MarkedMonitors(i)' = MarkedMonitors(i)
                      /\ MarkedLogs(i)' = MarkedLogs(i)
  BY DEF ReadProfile, IInv, TypeOK, FreshInv, SlotInv, MonitorInv, MarkedMonitors, MarkedLogs, starting, Goto
<1>5. MarksExact'
  BY <1>4, MarksKept DEF ReadProfile, IInv
<1> QED
  BY <1>2, <1>3, <1>5 DEF IInv

LEMMA ConnectFailsInv ==
    ASSUME IInv, NEW s \in Sessions, ConnectFails(s) PROVE IInv'
<1> USE SessionsAssumption DEF Sessions
<1>1. slots' \cap Monitors \subseteq slots \cap Monitors
  BY DEF ConnectFails
<1>2. TypeOK'
  BY <1>1, CapKept DEF ConnectFails, IInv, TypeOK, profiles, starting, activity, Goto
<1>3. FreshInv' /\ SlotInv' /\ MonitorInv' /\ PidInv' /\ Stoppable'
  BY DEF ConnectFails, IInv, TypeOK, FreshInv, SlotInv, MonitorInv, PidInv, Stoppable, starting, Goto
<1>4. \A i \in Ids : /\ MarkedMonitors(i)' = MarkedMonitors(i)
                      /\ MarkedLogs(i)' = MarkedLogs(i)
  BY DEF ConnectFails, IInv, TypeOK, FreshInv, SlotInv, MonitorInv, MarkedMonitors, MarkedLogs, starting, Goto
<1>5. MarksExact'
  BY <1>4, MarksKept DEF ConnectFails, IInv
<1> QED
  BY <1>2, <1>3, <1>5 DEF IInv

LEMMA PublishRefusedInv ==
    ASSUME IInv, NEW s \in Sessions, PublishRefused(s) PROVE IInv'
<1> USE SessionsAssumption DEF Sessions
<1>1. slots' \cap Monitors \subseteq slots \cap Monitors
  BY DEF PublishRefused
<1>2. TypeOK'
  BY <1>1, CapKept DEF PublishRefused, IInv, TypeOK, profiles, starting, activity, Goto
<1>3. FreshInv' /\ SlotInv' /\ MonitorInv' /\ PidInv' /\ Stoppable'
  BY DEF PublishRefused, IInv, TypeOK, FreshInv, SlotInv, MonitorInv, PidInv, Stoppable, starting, Goto
<1>4. \A i \in Ids : /\ MarkedMonitors(i)' = MarkedMonitors(i)
                      /\ MarkedLogs(i)' = MarkedLogs(i)
  BY DEF PublishRefused, IInv, TypeOK, FreshInv, SlotInv, MonitorInv, MarkedMonitors, MarkedLogs, starting, Goto
<1>5. MarksExact'
  BY <1>4, MarksKept DEF PublishRefused, IInv
<1> QED
  BY <1>2, <1>3, <1>5 DEF IInv

LEMMA PublishLogInv ==
    ASSUME IInv, NEW s \in Logs, PublishLog(s) PROVE IInv'
<1> USE SessionsAssumption DEF Sessions
<1>1. slots' \cap Monitors \subseteq slots \cap Monitors
  BY DEF PublishLog
<1>2. TypeOK'
  BY <1>1, CapKept DEF PublishLog, IInv, TypeOK, profiles, starting, activity, Goto
<1>3. FreshInv' /\ SlotInv' /\ MonitorInv' /\ PidInv' /\ Stoppable'
  BY DEF PublishLog, IInv, TypeOK, FreshInv, SlotInv, MonitorInv, PidInv, Stoppable, starting, Goto
<1>4. \A i \in Ids : /\ MarkedMonitors(i)' = MarkedMonitors(i)
                      /\ MarkedLogs(i)' = MarkedLogs(i)
  BY DEF PublishLog, IInv, TypeOK, FreshInv, SlotInv, MonitorInv, MarkedMonitors, MarkedLogs, starting, Goto
<1>5. MarksExact'
  BY <1>4, MarksKept DEF PublishLog, IInv
<1> QED
  BY <1>2, <1>3, <1>5 DEF IInv

LEMMA OpenGateInv ==
    ASSUME IInv, NEW s \in Logs, OpenGate(s) PROVE IInv'
<1> USE SessionsAssumption DEF Sessions
<1>1. slots' \cap Monitors \subseteq slots \cap Monitors
  BY DEF OpenGate
<1>2. TypeOK'
  BY <1>1, CapKept DEF OpenGate, IInv, TypeOK, profiles, starting, activity, Goto
<1>3. FreshInv' /\ SlotInv' /\ MonitorInv' /\ PidInv' /\ Stoppable'
  BY DEF OpenGate, IInv, TypeOK, FreshInv, SlotInv, MonitorInv, PidInv, Stoppable, starting, Goto
<1>4. \A i \in Ids : /\ MarkedMonitors(i)' = MarkedMonitors(i)
                      /\ MarkedLogs(i)' = MarkedLogs(i)
  BY DEF OpenGate, IInv, TypeOK, FreshInv, SlotInv, MonitorInv, MarkedMonitors, MarkedLogs, starting, Goto
<1>5. MarksExact'
  BY <1>4, MarksKept DEF OpenGate, IInv
<1> QED
  BY <1>2, <1>3, <1>5 DEF IInv

LEMMA MonitorStopsInv ==
    ASSUME IInv, NEW s \in Monitors, MonitorStops(s) PROVE IInv'
<1> USE SessionsAssumption DEF Sessions
<1>1. slots' \cap Monitors \subseteq slots \cap Monitors
  BY DEF MonitorStops
<1>2. TypeOK'
  BY <1>1, CapKept DEF MonitorStops, IInv, TypeOK, profiles, starting, activity, Goto
<1>3. FreshInv' /\ SlotInv' /\ MonitorInv' /\ PidInv' /\ Stoppable'
  BY DEF MonitorStops, IInv, TypeOK, FreshInv, SlotInv, MonitorInv, PidInv, Stoppable, starting, Goto
<1>4. \A i \in Ids : /\ MarkedMonitors(i)' = MarkedMonitors(i)
                      /\ MarkedLogs(i)' = MarkedLogs(i)
  BY DEF MonitorStops, IInv, TypeOK, FreshInv, SlotInv, MonitorInv, MarkedMonitors, MarkedLogs, starting, Goto
<1>5. MarksExact'
  BY <1>4, MarksKept DEF MonitorStops, IInv
<1> QED
  BY <1>2, <1>3, <1>5 DEF IInv

LEMMA MonitorReleaseInv ==
    ASSUME IInv, NEW s \in Monitors, MonitorRelease(s) PROVE IInv'
<1> USE SessionsAssumption DEF Sessions
<1>m. monitors' = monitors
  BY DEF MonitorRelease, IInv, MonitorInv
<1>1. slots' \cap Monitors \subseteq slots \cap Monitors
  BY DEF MonitorRelease
<1>2. TypeOK'
  BY <1>1, <1>m, CapKept DEF MonitorRelease, IInv, TypeOK, profiles, starting, activity, Goto
<1>3. FreshInv' /\ SlotInv' /\ MonitorInv' /\ PidInv' /\ Stoppable'
  BY DEF MonitorRelease, IInv, TypeOK, FreshInv, SlotInv, MonitorInv, PidInv, Stoppable, starting, Goto
<1>4. \A i \in Ids : /\ MarkedMonitors(i)' = MarkedMonitors(i)
                      /\ MarkedLogs(i)' = MarkedLogs(i)
  BY DEF MonitorRelease, IInv, TypeOK, FreshInv, SlotInv, MonitorInv, MarkedMonitors, MarkedLogs, starting, Goto
<1>5. MarksExact'
  BY <1>4, <1>m, MarksKept DEF MonitorRelease, IInv, activity
<1> QED
  BY <1>2, <1>3, <1>5 DEF IInv

LEMMA ReaderNeverBeginsInv ==
    ASSUME IInv, NEW s \in Logs, ReaderNeverBegins(s) PROVE IInv'
<1> USE SessionsAssumption DEF Sessions
<1>1. slots' \cap Monitors \subseteq slots \cap Monitors
  BY DEF ReaderNeverBegins
<1>2. TypeOK'
  BY <1>1, CapKept DEF ReaderNeverBegins, IInv, TypeOK, profiles, starting, activity, Goto
<1>3. FreshInv' /\ SlotInv' /\ MonitorInv' /\ PidInv' /\ Stoppable'
  BY DEF ReaderNeverBegins, IInv, TypeOK, FreshInv, SlotInv, MonitorInv, PidInv, Stoppable, starting, Goto
<1>4. \A i \in Ids : /\ MarkedMonitors(i)' = MarkedMonitors(i)
                      /\ MarkedLogs(i)' = MarkedLogs(i)
  BY DEF ReaderNeverBegins, IInv, TypeOK, FreshInv, SlotInv, MonitorInv, MarkedMonitors, MarkedLogs, starting, Goto
<1>5. MarksExact'
  BY <1>4, MarksKept DEF ReaderNeverBegins, IInv
<1> QED
  BY <1>2, <1>3, <1>5 DEF IInv

LEMMA ReaderStopsInv ==
    ASSUME IInv, NEW s \in Logs, ReaderStops(s) PROVE IInv'
<1> USE SessionsAssumption DEF Sessions
<1>1. slots' \cap Monitors \subseteq slots \cap Monitors
  BY DEF ReaderStops
<1>2. TypeOK'
  BY <1>1, CapKept DEF ReaderStops, IInv, TypeOK, profiles, starting, activity, Goto
<1>3. FreshInv' /\ SlotInv' /\ MonitorInv' /\ PidInv' /\ Stoppable'
  BY DEF ReaderStops, IInv, TypeOK, FreshInv, SlotInv, MonitorInv, PidInv, Stoppable, starting, Goto
<1>4. \A i \in Ids : /\ MarkedMonitors(i)' = MarkedMonitors(i)
                      /\ MarkedLogs(i)' = MarkedLogs(i)
  BY DEF ReaderStops, IInv, TypeOK, FreshInv, SlotInv, MonitorInv, MarkedMonitors, MarkedLogs, starting, Goto
<1>5. MarksExact'
  BY <1>4, MarksKept DEF ReaderStops, IInv
<1> QED
  BY <1>2, <1>3, <1>5 DEF IInv

LEMMA ReaderEndsInv ==
    ASSUME IInv, NEW s \in Logs, ReaderEnds(s) PROVE IInv'
<1> USE SessionsAssumption DEF Sessions
<1>1. slots' \cap Monitors \subseteq slots \cap Monitors
  BY DEF ReaderEnds
<1>2. TypeOK'
  BY <1>1, CapKept DEF ReaderEnds, IInv, TypeOK, profiles, starting, activity, Goto
<1>3. FreshInv' /\ SlotInv' /\ MonitorInv' /\ PidInv' /\ Stoppable'
  BY DEF ReaderEnds, IInv, TypeOK, FreshInv, SlotInv, MonitorInv, PidInv, Stoppable, starting, Goto
<1>4. \A i \in Ids : /\ MarkedMonitors(i)' = MarkedMonitors(i)
                      /\ MarkedLogs(i)' = MarkedLogs(i)
  BY DEF ReaderEnds, IInv, TypeOK, FreshInv, SlotInv, MonitorInv, MarkedMonitors, MarkedLogs, starting, Goto
<1>5. MarksExact'
  BY <1>4, MarksKept DEF ReaderEnds, IInv
<1> QED
  BY <1>2, <1>3, <1>5 DEF IInv

LEMMA ReaderReleaseInv ==
    ASSUME IInv, NEW s \in Logs, ReaderRelease(s) PROVE IInv'
<1> USE SessionsAssumption DEF Sessions
<1>1. slots' \cap Monitors \subseteq slots \cap Monitors
  BY DEF ReaderRelease
<1>2. TypeOK'
  BY <1>1, CapKept DEF ReaderRelease, IInv, TypeOK, profiles, starting, activity, Goto
<1>3. FreshInv' /\ SlotInv' /\ MonitorInv' /\ PidInv' /\ Stoppable'
  BY DEF ReaderRelease, IInv, TypeOK, FreshInv, SlotInv, MonitorInv, PidInv, Stoppable, starting, Goto
<1>4. \A i \in Ids : /\ MarkedMonitors(i)' = MarkedMonitors(i)
                      /\ MarkedLogs(i)' = MarkedLogs(i)
  BY DEF ReaderRelease, IInv, TypeOK, FreshInv, SlotInv, MonitorInv, MarkedMonitors, MarkedLogs, starting, Goto
<1>5. MarksExact'
  BY <1>4, MarksKept DEF ReaderRelease, IInv
<1> QED
  BY <1>2, <1>3, <1>5 DEF IInv

LEMMA StopInv ==
    ASSUME IInv, NEW s \in Sessions, Stop(s) PROVE IInv'
<1> USE SessionsAssumption DEF Sessions
<1>1. slots' \cap Monitors \subseteq slots \cap Monitors
  BY DEF Stop
<1>2. TypeOK'
  BY <1>1, CapKept DEF Stop, IInv, TypeOK, profiles, starting, activity, Goto
<1>3. FreshInv' /\ SlotInv' /\ MonitorInv' /\ PidInv' /\ Stoppable'
  BY DEF Stop, IInv, TypeOK, FreshInv, SlotInv, MonitorInv, PidInv, Stoppable, starting, Goto
<1>4. \A i \in Ids : /\ MarkedMonitors(i)' = MarkedMonitors(i)
                      /\ MarkedLogs(i)' = MarkedLogs(i)
  BY DEF Stop, IInv, TypeOK, FreshInv, SlotInv, MonitorInv, MarkedMonitors, MarkedLogs, starting, Goto
<1>5. MarksExact'
  BY <1>4, MarksKept DEF Stop, IInv
<1> QED
  BY <1>2, <1>3, <1>5 DEF IInv

LEMMA PublishMonitorInv ==
    ASSUME IInv, NEW s \in Monitors, PublishMonitor(s) PROVE IInv'
<1> USE SessionsAssumption DEF Sessions
<1>1. PICK k \in Ids : k = pid[s]
  BY DEF PublishMonitor, IInv, PidInv
<1>c. Cardinality(slots' \cap Monitors) <= MaxMonitors
  <2>1. slots' \cap Monitors = (slots \cap Monitors) \cup {s}
    BY DEF PublishMonitor
  <2>2. s \notin slots \cap Monitors
    BY DEF PublishMonitor, IInv, SlotInv
  <2>3. IsFiniteSet(slots \cap Monitors)
    BY FS_Subset
  <2>4. /\ Cardinality(slots' \cap Monitors) = Cardinality(slots \cap Monitors) + 1
        /\ Cardinality(slots \cap Monitors) \in Nat
    BY <2>1, <2>2, <2>3, CountAdd
  <2>5. ~(Cardinality(slots \cap Monitors) >= MaxMonitors)
    BY DEF PublishMonitor, Refused
  <2> QED
    BY <2>4, <2>5
<1>t. monitors' \in [Ids -> Nat] /\ logs' \in [Ids -> Nat]
  BY <1>1, MarksTyped DEF PublishMonitor, IInv, TypeOK
<1>2. TypeOK'
  BY <1>c, <1>t, CapKept DEF PublishMonitor, IInv, TypeOK, profiles, starting, Goto
<1>3. FreshInv' /\ SlotInv' /\ MonitorInv' /\ PidInv' /\ Stoppable'
  BY DEF PublishMonitor, IInv, TypeOK, FreshInv, SlotInv, MonitorInv, PidInv, Stoppable, starting, Goto
<1>4. s \notin MarkedMonitors(k)
  BY <1>1 DEF PublishMonitor, IInv, TypeOK, FreshInv, SlotInv, MonitorInv, PidInv, MarkedMonitors, MarkedLogs, starting, Goto
<1>5. MarkedMonitors(k)' = MarkedMonitors(k) \cup {s}
  BY <1>1 DEF PublishMonitor, IInv, TypeOK, FreshInv, SlotInv, MonitorInv, PidInv, MarkedMonitors, MarkedLogs, starting, Goto
<1>6. \A i \in Ids \ {k} : MarkedMonitors(i)' = MarkedMonitors(i)
  BY <1>1 DEF PublishMonitor, IInv, TypeOK, FreshInv, SlotInv, MonitorInv, PidInv, MarkedMonitors, MarkedLogs, starting, Goto
<1>7. \A i \in Ids : MarkedLogs(i)' = MarkedLogs(i)
  BY <1>1 DEF PublishMonitor, IInv, TypeOK, FreshInv, SlotInv, MonitorInv, PidInv, MarkedMonitors, MarkedLogs, starting, Goto
<1>8. monitors' = Enter(monitors, k) /\ logs' = logs
  BY <1>1 DEF PublishMonitor
<1>9. MarksExact'
  <2>1. \A i \in Ids : monitors'[i] = Cardinality(MarkedMonitors(i)')
    BY <1>1, <1>4, <1>5, <1>6, <1>8, MonitorEntered DEF IInv
  <2>2. \A i \in Ids : logs'[i] = Cardinality(MarkedLogs(i)')
    BY <1>7, <1>8 DEF IInv, MarksExact
  <2> QED
    BY <2>1, <2>2 DEF MarksExact
<1> QED
  BY <1>2, <1>3, <1>9 DEF IInv

LEMMA ReaderBeginsInv ==
    ASSUME IInv, NEW s \in Logs, ReaderBegins(s) PROVE IInv'
<1> USE SessionsAssumption DEF Sessions
<1>1. PICK k \in Ids : k = pid[s]
  BY DEF ReaderBegins, IInv, PidInv
<1>c. slots' \cap Monitors \subseteq slots \cap Monitors
  BY DEF ReaderBegins
<1>t. monitors' \in [Ids -> Nat] /\ logs' \in [Ids -> Nat]
  BY <1>1, MarksTyped DEF ReaderBegins, IInv, TypeOK
<1>2. TypeOK'
  BY <1>c, <1>t, CapKept DEF ReaderBegins, IInv, TypeOK, profiles, starting, Goto
<1>3. FreshInv' /\ SlotInv' /\ MonitorInv' /\ PidInv' /\ Stoppable'
  BY DEF ReaderBegins, IInv, TypeOK, FreshInv, SlotInv, MonitorInv, PidInv, Stoppable, starting, Goto
<1>4. s \notin MarkedLogs(k)
  BY <1>1 DEF ReaderBegins, IInv, TypeOK, FreshInv, SlotInv, MonitorInv, PidInv, MarkedMonitors, MarkedLogs, starting, Goto
<1>5. MarkedLogs(k)' = MarkedLogs(k) \cup {s}
  BY <1>1 DEF ReaderBegins, IInv, TypeOK, FreshInv, SlotInv, MonitorInv, PidInv, MarkedMonitors, MarkedLogs, starting, Goto
<1>6. \A i \in Ids \ {k} : MarkedLogs(i)' = MarkedLogs(i)
  BY <1>1 DEF ReaderBegins, IInv, TypeOK, FreshInv, SlotInv, MonitorInv, PidInv, MarkedMonitors, MarkedLogs, starting, Goto
<1>7. \A i \in Ids : MarkedMonitors(i)' = MarkedMonitors(i)
  BY <1>1 DEF ReaderBegins, IInv, TypeOK, FreshInv, SlotInv, MonitorInv, PidInv, MarkedMonitors, MarkedLogs, starting, Goto
<1>8. logs' = Enter(logs, k) /\ monitors' = monitors
  BY <1>1 DEF ReaderBegins
<1>9. MarksExact'
  <2>1. \A i \in Ids : logs'[i] = Cardinality(MarkedLogs(i)')
    BY <1>1, <1>4, <1>5, <1>6, <1>8, LogEntered DEF IInv
  <2>2. \A i \in Ids : monitors'[i] = Cardinality(MarkedMonitors(i)')
    BY <1>7, <1>8 DEF IInv, MarksExact
  <2> QED
    BY <2>1, <2>2 DEF MarksExact
<1> QED
  BY <1>2, <1>3, <1>9 DEF IInv

LEMMA ReaderExitInv ==
    ASSUME IInv, NEW s \in Logs, ReaderExit(s) PROVE IInv'
<1> USE SessionsAssumption DEF Sessions
<1>1. PICK k \in Ids : k = pid[s]
  BY DEF ReaderExit, IInv, PidInv
<1>c. slots' \cap Monitors \subseteq slots \cap Monitors
  BY DEF ReaderExit
<1>t. monitors' \in [Ids -> Nat] /\ logs' \in [Ids -> Nat]
  BY <1>1, MarksTyped DEF ReaderExit, IInv, TypeOK
<1>2. TypeOK'
  BY <1>c, <1>t, CapKept DEF ReaderExit, IInv, TypeOK, profiles, starting, Goto
<1>3. FreshInv' /\ SlotInv' /\ MonitorInv' /\ PidInv' /\ Stoppable'
  BY DEF ReaderExit, IInv, TypeOK, FreshInv, SlotInv, MonitorInv, PidInv, Stoppable, starting, Goto
<1>4. s \in MarkedLogs(k)
  BY <1>1 DEF ReaderExit, IInv, TypeOK, FreshInv, SlotInv, MonitorInv, PidInv, MarkedMonitors, MarkedLogs, starting, Goto
<1>5. MarkedLogs(k)' = MarkedLogs(k) \ {s}
  BY <1>1 DEF ReaderExit, IInv, TypeOK, FreshInv, SlotInv, MonitorInv, PidInv, MarkedMonitors, MarkedLogs, starting, Goto
<1>6. \A i \in Ids \ {k} : MarkedLogs(i)' = MarkedLogs(i)
  BY <1>1 DEF ReaderExit, IInv, TypeOK, FreshInv, SlotInv, MonitorInv, PidInv, MarkedMonitors, MarkedLogs, starting, Goto
<1>7. \A i \in Ids : MarkedMonitors(i)' = MarkedMonitors(i)
  BY <1>1 DEF ReaderExit, IInv, TypeOK, FreshInv, SlotInv, MonitorInv, PidInv, MarkedMonitors, MarkedLogs, starting, Goto
<1>8. logs' = Exit(logs, k) /\ monitors' = monitors
  BY <1>1 DEF ReaderExit
<1>9. MarksExact'
  <2>1. \A i \in Ids : logs'[i] = Cardinality(MarkedLogs(i)')
    BY <1>1, <1>4, <1>5, <1>6, <1>8, LogExited DEF IInv
  <2>2. \A i \in Ids : monitors'[i] = Cardinality(MarkedMonitors(i)')
    BY <1>7, <1>8 DEF IInv, MarksExact
  <2> QED
    BY <2>1, <2>2 DEF MarksExact
<1> QED
  BY <1>2, <1>3, <1>9 DEF IInv

LEMMA StopJoinedInv ==
    ASSUME IInv, NEW s \in Sessions, StopJoined(s) PROVE IInv'
<1> USE SessionsAssumption DEF Sessions
<1>1. PICK k \in Ids : k = pid[s]
  BY DEF StopJoined, IInv, PidInv
<1>c. slots' \cap Monitors \subseteq slots \cap Monitors
  BY DEF StopJoined
<1>t. monitors' \in [Ids -> Nat] /\ logs' \in [Ids -> Nat]
  BY <1>1, MarksTyped DEF StopJoined, IInv, TypeOK
<1>2. TypeOK'
  BY <1>c, <1>t, CapKept DEF StopJoined, IInv, TypeOK, profiles, starting, Goto
<1>3. FreshInv' /\ SlotInv' /\ MonitorInv' /\ PidInv' /\ Stoppable'
  BY DEF StopJoined, IInv, TypeOK, FreshInv, SlotInv, MonitorInv, PidInv, Stoppable, starting
<1>4. CASE s \in Logs
  <2>1. UNCHANGED activity
    BY <1>4 DEF StopJoined, activity
  <2>2. \A i \in Ids : /\ MarkedMonitors(i)' = MarkedMonitors(i)
                        /\ MarkedLogs(i)' = MarkedLogs(i)
    BY <1>4 DEF StopJoined, IInv, TypeOK, MarkedMonitors, MarkedLogs, starting
  <2> QED
    BY <1>2, <1>3, <2>1, <2>2, MarksKept DEF IInv
<1>5. CASE s \in Monitors
  <2>1. s \in MarkedMonitors(k)
    BY <1>1, <1>5 DEF StopJoined, MarkedMonitors
  <2>2. MarkedMonitors(k)' = MarkedMonitors(k) \ {s}
    BY <1>1, <1>5 DEF StopJoined, IInv, TypeOK, MarkedMonitors, starting
  <2>3. \A i \in Ids \ {k} : MarkedMonitors(i)' = MarkedMonitors(i)
    BY <1>1, <1>5 DEF StopJoined, IInv, TypeOK, MarkedMonitors, starting
  <2>4. \A i \in Ids : MarkedLogs(i)' = MarkedLogs(i)
    BY <1>1, <1>5 DEF StopJoined, MarkedLogs, starting
  <2>5. monitors' = Exit(monitors, k) /\ logs' = logs
    BY <1>1, <1>5 DEF StopJoined
  <2>6. MarksExact'
    <3>1. \A i \in Ids : monitors'[i] = Cardinality(MarkedMonitors(i)')
      BY <1>1, <2>1, <2>2, <2>3, <2>5, MonitorExited DEF IInv
    <3>2. \A i \in Ids : logs'[i] = Cardinality(MarkedLogs(i)')
      BY <2>4, <2>5 DEF IInv, MarksExact
    <3> QED
      BY <3>1, <3>2 DEF MarksExact
  <2> QED
    BY <1>2, <1>3, <2>6 DEF IInv
<1> QED
  BY <1>4, <1>5

\* Profiles come and go without a look at the sessions.
LEMMA ProfilesInv ==
    ASSUME IInv, Create \/ (\E i \in Ids : DeleteCheck(i) \/ DeleteRow(i)) PROVE IInv'
<1> USE SessionsAssumption DEF Sessions
<1>1. /\ rows' \subseteq Ids /\ deleting' \subseteq Ids
      /\ UNCHANGED <<pc, starting, slots, watch, stopper, activity>>
  BY DEF Create, DeleteCheck, DeleteRow, IInv, TypeOK
<1>2. TypeOK'
  BY <1>1 DEF IInv, TypeOK, starting, activity
<1>3. FreshInv' /\ SlotInv' /\ MonitorInv' /\ PidInv' /\ Stoppable'
  BY <1>1 DEF IInv, FreshInv, SlotInv, MonitorInv, PidInv, Stoppable, starting
<1>4. MarksExact'
  BY <1>1 DEF IInv, MarksExact, MarkedMonitors, MarkedLogs, starting, activity
<1> QED
  BY <1>2, <1>3, <1>4 DEF IInv

LEMMA StutterInv == ASSUME IInv, UNCHANGED vars PROVE IInv'
<1> USE DEF vars, profiles, starting, activity
<1>1. TypeOK'
  BY DEF IInv, TypeOK
<1>m. MarksExact'
  BY DEF IInv, MarksExact, MarkedMonitors, MarkedLogs
<1>2. FreshInv' /\ SlotInv' /\ MonitorInv' /\ PidInv' /\ Stoppable'
  BY DEF IInv, FreshInv, SlotInv, MonitorInv, PidInv, Stoppable
<1> QED
  BY <1>1, <1>2, <1>m DEF IInv

LEMMA NextIInv == IInv /\ [Next]_vars => IInv'
<1> SUFFICES ASSUME IInv, [Next]_vars PROVE IInv'
  OBVIOUS
<1>1. ASSUME NEW s \in Sessions,
             StartCheck(s) \/ StartStep(s) \/ Stop(s) \/ StopJoined(s)
      PROVE  IInv'
  BY <1>1, StartCheckInv, ReadProfileInv, ConnectFailsInv, PublishRefusedInv,
     PublishMonitorInv, PublishLogInv, OpenGateInv, StopInv, StopJoinedInv DEF StartStep
<1>2. ASSUME NEW m \in Monitors, MonitorStep(m) PROVE IInv'
  BY <1>2, MonitorStopsInv, MonitorReleaseInv DEF MonitorStep
<1>3. ASSUME NEW l \in Logs, ReaderStep(l) \/ ReaderEnds(l) PROVE IInv'
  BY <1>3, ReaderNeverBeginsInv, ReaderBeginsInv, ReaderStopsInv, ReaderEndsInv,
     ReaderReleaseInv, ReaderExitInv DEF ReaderStep
<1> QED
  BY <1>1, <1>2, <1>3, ProfilesInv, StutterInv DEF Next

-----------------------------------------------------------------------------
(* The theorems.                                                           *)

\* The inductive invariant holds in every reachable state.
THEOREM Invariance == Spec => []IInv
  BY InitIInv, NextIInv, PTL DEF Spec

\* Types, and never more monitors published than MAX_MONITORS, however many
\* start() calls race past the first look.
THEOREM TypeCorrect == Spec => []TypeOK
<1>1. IInv => TypeOK
  BY DEF IInv
<1> QED
  BY <1>1, Invariance, PTL

\* Whatever runs can be stopped, or has been told to stop.
THEOREM StoppableHolds == Spec => []Stoppable
<1>1. IInv => Stoppable
  BY DEF IInv
<1> QED
  BY <1>1, Invariance, PTL

\* No dead session keeps its profile's entry in a map.
THEOREM SlotsAliveHolds == Spec => []SlotsAlive
<1>1. IInv => SlotsAlive
  BY DEF IInv, SlotInv, SlotsAlive
<1> QED
  BY <1>1, Invariance, PTL

\* The registry that guards deletion counts exactly the live sessions.
THEOREM MarksExactHolds == Spec => []MarksExact
<1>1. IInv => MarksExact
  BY DEF IInv
<1> QED
  BY <1>1, Invariance, PTL
=============================================================================
