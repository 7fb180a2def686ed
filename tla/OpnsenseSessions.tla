--------------------------- MODULE OpnsenseSessions ---------------------------
(***************************************************************************)
(* Live monitors and firewall-log streams of OPNsense profiles:            *)
(* OpnsenseMonitorManager, OpnsenseLogStreamManager, the activity registry *)
(* they share with OpnsenseManager, and the deletion of profiles, from     *)
(* src-tauri/src/opnsense/.                                                *)
(*                                                                         *)
(* Both managers keep a map from profile id to the one session of that     *)
(* profile.  A session is published in the map after a slow connect, taken *)
(* out by stop(), and released by its own task at its end.  A monitor      *)
(* releases only its own entry; a log reader removes whatever is under its *)
(* profile id.  Deleting a profile asks the registry first and removes the *)
(* row some awaits later.                                                  *)
(*                                                                         *)
(* Ids are SQLite rowids: the id of a deleted newest profile comes back.   *)
(***************************************************************************)
EXTENDS Integers, FiniteSets

CONSTANTS
    Monitors,    \* start() calls of the monitor manager
    Logs,        \* start() calls of the log stream manager
    Ids,         \* profile ids
    MaxMonitors  \* MAX_MONITORS

Sessions == Monitors \cup Logs

ASSUME SessionsAssumption ==
    /\ IsFiniteSet(Monitors) /\ IsFiniteSet(Logs) /\ Monitors \cap Logs = {}
    /\ Ids \subseteq Nat \ {0} /\ IsFiniteSet(Ids)
    /\ MaxMonitors \in Nat \ {0}

VARIABLES
    rows,     \* opnsense_profiles: ids
    deleting, \* ids whose delete_profile has passed the activity check
    pc,       \* per session: start() and then its task
    pid,      \* per session: its profile id
    slots,    \* the sessions that are in their manager's map, under their pid
    watch,    \* per session: the stop channel: "live", "stop" or "dropped"
    go,       \* log sessions whose reader may begin
    stopper,  \* per session: the stop() that waits for it
    monitors, \* OpnsenseActivity.monitors: id -> count
    logs      \* OpnsenseActivity.logs: id -> count

profiles == <<rows, deleting>>
starting == <<pid, go>>
activity == <<monitors, logs>>
vars == <<profiles, pc, starting, slots, watch, stopper, activity>>

\* The map a session belongs to, and whether the profile id is taken there.
Kind(s) == IF s \in Monitors THEN Monitors ELSE Logs
Taken(kind, i) == \E s \in slots \cap kind : pid[s] = i

\* Mutant: there is no cap.
RefusedUncapped(s, i) == Taken(Kind(s), i)

\* AlreadyMonitoring or TooManySessions.
Refused(s, i) ==
    \/ Taken(Kind(s), i)
    \/ s \in Monitors /\ Cardinality(slots \cap Monitors) >= MaxMonitors

\* enter and exit of the registry: an absent count is 0.
Enter(counts, i) == [counts EXCEPT ![i] = @ + 1]
Exit(counts, i) == [counts EXCEPT ![i] = IF @ = 0 THEN 0 ELSE @ - 1]
IsActive(i) == monitors[i] > 0 \/ logs[i] > 0

Init ==
    /\ rows = {} /\ deleting = {}
    /\ pc = [s \in Sessions |-> "idle"]
    /\ pid = [s \in Sessions |-> 0]
    /\ slots = {} /\ go = {}
    /\ watch = [s \in Sessions |-> "live"]
    /\ stopper = [s \in Sessions |-> "none"]
    /\ monitors = [i \in Ids |-> 0] /\ logs = [i \in Ids |-> 0]

Goto(s, label) == pc' = [pc EXCEPT ![s] = label]

-----------------------------------------------------------------------------
(* start()                                                                 *)

\* The first look under the lock.
StartCheck(s) ==
    /\ pc[s] = "idle"
    /\ \E i \in Ids :
         /\ pid' = [pid EXCEPT ![s] = i]
         /\ Goto(s, IF Refused(s, i) THEN "refused" ELSE "checked")
    /\ UNCHANGED <<profiles, go, slots, watch, stopper, activity>>

\* require_profile and connection_for.
ReadProfile(s) ==
    /\ pc[s] = "checked"
    /\ Goto(s, IF pid[s] \in rows THEN "connecting" ELSE "failed")
    /\ UNCHANGED <<profiles, starting, slots, watch, stopper, activity>>

\* No credentials, no client, or the log endpoint does not open.
ConnectFails(s) ==
    /\ pc[s] = "connecting"
    /\ Goto(s, "failed")
    /\ UNCHANGED <<profiles, starting, slots, watch, stopper, activity>>

\* Another start() was faster.
PublishRefused(s) ==
    /\ pc[s] = "connecting"
    /\ Refused(s, pid[s])
    /\ Goto(s, "refused")
    /\ UNCHANGED <<profiles, starting, slots, watch, stopper, activity>>

\* Mutant: the map is not looked at again after the connect.
PublishMonitorUnchecked(m) ==
    /\ pc[m] = "connecting"
    /\ monitors' = Enter(monitors, pid[m])
    /\ slots' = {s \in slots : s \in Logs \/ pid[s] # pid[m]} \cup {m}
    /\ Goto(m, "running")
    /\ UNCHANGED <<profiles, starting, watch, stopper, logs>>

\* monitor_enter, spawn and insert, under the lock of the map.
PublishMonitor(m) ==
    /\ pc[m] = "connecting"
    /\ ~Refused(m, pid[m])
    /\ monitors' = Enter(monitors, pid[m])
    /\ slots' = slots \cup {m}
    /\ Goto(m, "running")
    /\ UNCHANGED <<profiles, starting, watch, stopper, logs>>

\* The reader is spawned and waits; the session is inserted.
PublishLog(l) ==
    /\ pc[l] = "connecting"
    /\ ~Refused(l, pid[l])
    /\ slots' = slots \cup {l}
    /\ Goto(l, "gated")
    /\ UNCHANGED <<profiles, starting, watch, stopper, activity>>

\* After the lock is released: go_tx.send.
OpenGate(l) ==
    /\ pc[l] = "gated" /\ l \notin go
    /\ go' = go \cup {l}
    /\ UNCHANGED <<profiles, pc, pid, slots, watch, stopper, activity>>

StartStep(s) ==
    \/ ReadProfile(s) \/ ConnectFails(s) \/ PublishRefused(s)
    \/ s \in Monitors /\ PublishMonitor(s)
    \/ s \in Logs /\ (PublishLog(s) \/ OpenGate(s))

-----------------------------------------------------------------------------
(* The monitor's task.  It holds its own stop sender, so only stop() ends  *)
(* it.                                                                     *)

MonitorStops(m) ==
    /\ pc[m] = "running" /\ watch[m] = "stop"
    /\ Goto(m, "closing")
    /\ UNCHANGED <<profiles, starting, slots, watch, stopper, activity>>

\* Mutant: whatever is under the profile id is removed, and a mark with it.
MonitorReleaseAny(m) ==
    /\ pc[m] = "closing"
    /\ slots' = {s \in slots : s \in Logs \/ pid[s] # pid[m]}
    /\ monitors' = Exit(monitors, pid[m])
    /\ Goto(m, "ended")
    /\ UNCHANGED <<profiles, starting, watch, stopper, logs>>

\* The entry is removed only if it is this monitor's, and the mark with it.
\* stop() has always been there first: see MonitorInv of OpnsenseSessionsProofs.
MonitorRelease(m) ==
    /\ pc[m] = "closing"
    /\ slots' = slots \ {m}
    /\ monitors' = IF m \in slots THEN Exit(monitors, pid[m]) ELSE monitors
    /\ Goto(m, "ended")
    /\ UNCHANGED <<profiles, starting, watch, stopper, logs>>

MonitorStep(m) == MonitorStops(m) \/ MonitorRelease(m)

-----------------------------------------------------------------------------
(* The log reader's task.                                                  *)

\* Stopped before the gate opened: nothing was registered, nothing is sent.
ReaderNeverBegins(l) ==
    /\ pc[l] = "gated" /\ watch[l] # "live"
    /\ Goto(l, "ended")
    /\ UNCHANGED <<profiles, starting, slots, watch, stopper, activity>>

\* log_enter, then Started.
ReaderBegins(l) ==
    /\ pc[l] = "gated" /\ l \in go
    /\ logs' = Enter(logs, pid[l])
    /\ Goto(l, "running")
    /\ UNCHANGED <<profiles, starting, slots, watch, stopper, monitors>>

\* stop() raised the flag, or the sender is gone with its entry; then Stopped.
ReaderStops(l) ==
    /\ pc[l] = "running" /\ watch[l] # "live"
    /\ Goto(l, "closing")
    /\ UNCHANGED <<profiles, starting, slots, watch, stopper, activity>>

\* The firewall closed the stream, a read failed, a frame was too large, or
\* the view is gone; then Stopped.
ReaderEnds(l) ==
    /\ pc[l] = "running"
    /\ Goto(l, "closing")
    /\ UNCHANGED <<profiles, starting, slots, watch, stopper, activity>>

\* Mutant: a reader that ended by itself leaves its entry to a later stop().
ReaderReleaseForgotten(l) ==
    /\ pc[l] = "closing"
    /\ Goto(l, "exiting")
    /\ UNCHANGED <<profiles, starting, slots, watch, stopper, activity>>

\* inner.remove(&profile_id): the entry of this profile, whoever owns it.  The
\* stop sender of the entry is dropped with it.
ReaderRelease(l) ==
    /\ pc[l] = "closing"
    /\ LET mine == {s \in slots \cap Logs : pid[s] = pid[l]} IN
         /\ slots' = slots \ mine
         /\ watch' = [s \in Sessions |-> IF s \in mine THEN "dropped" ELSE watch[s]]
    /\ Goto(l, "exiting")
    /\ UNCHANGED <<profiles, starting, stopper, activity>>

ReaderExit(l) ==
    /\ pc[l] = "exiting"
    /\ logs' = Exit(logs, pid[l])
    /\ Goto(l, "ended")
    /\ UNCHANGED <<profiles, starting, slots, watch, stopper, monitors>>

ReaderStep(l) ==
    \/ ReaderNeverBegins(l) \/ ReaderBegins(l) \/ ReaderStops(l)
    \/ ReaderRelease(l) \/ ReaderExit(l)

-----------------------------------------------------------------------------
(* stop() and delete_profile                                               *)

\* stop(): take the session out of the map and raise its flag.
Stop(s) ==
    /\ s \in slots
    /\ slots' = slots \ {s}
    /\ watch' = [watch EXCEPT ![s] = "stop"]
    /\ stopper' = [stopper EXCEPT ![s] = "joining"]
    /\ UNCHANGED <<profiles, pc, starting, activity>>

\* The task has ended.  stop() of the monitor manager also takes its mark back.
StopJoined(s) ==
    /\ stopper[s] = "joining" /\ pc[s] = "ended"
    /\ stopper' = [stopper EXCEPT ![s] = "returned"]
    /\ monitors' = IF s \in Monitors THEN Exit(monitors, pid[s]) ELSE monitors
    /\ UNCHANGED <<profiles, pc, starting, slots, watch, logs>>

\* create_profile
NextId == 1 + (CHOOSE n \in rows \cup {0} : \A i \in rows : i <= n)

Create ==
    /\ NextId \in Ids
    /\ rows' = rows \cup {NextId}
    /\ UNCHANGED <<deleting, pc, starting, slots, watch, stopper, activity>>

\* delete_profile asks the registry ...  Two deletions of one profile
\* at the same time are left out: the view asks for a confirmation of each.
DeleteCheck(i) ==
    /\ i \in rows /\ i \notin deleting
    /\ ~IsActive(i)
    /\ deleting' = deleting \cup {i}
    /\ UNCHANGED <<rows, pc, starting, slots, watch, stopper, activity>>

\* ... and later removes the row.
DeleteRow(i) ==
    /\ i \in deleting
    /\ rows' = rows \ {i}
    /\ deleting' = deleting \ {i}
    /\ UNCHANGED <<pc, starting, slots, watch, stopper, activity>>

Next ==
    \/ \E s \in Sessions :
         StartCheck(s) \/ StartStep(s) \/ Stop(s) \/ StopJoined(s)
    \/ \E m \in Monitors : MonitorStep(m)
    \/ \E l \in Logs : ReaderStep(l) \/ ReaderEnds(l)
    \/ Create
    \/ \E i \in Ids : DeleteCheck(i) \/ DeleteRow(i)

\* Connects have timeouts and spawned tasks are polled; a log stream need not
\* end, and the user owes nothing.
Fairness ==
    /\ \A s \in Sessions : WF_vars(StartStep(s)) /\ WF_vars(StopJoined(s))
    /\ \A m \in Monitors : WF_vars(MonitorStep(m))
    /\ \A l \in Logs : WF_vars(ReaderStep(l))

Spec == Init /\ [][Next]_vars /\ Fairness

-----------------------------------------------------------------------------
(* Properties.                                                             *)

\* Type invariant.  Never more monitors in the map than MAX_MONITORS.
TypeOK ==
    /\ rows \subseteq Ids /\ deleting \subseteq Ids
    /\ pc \in [Sessions -> {"idle", "refused", "checked", "connecting", "failed", "gated",
                            "running", "closing", "exiting", "ended"}]
    /\ pid \in [Sessions -> Ids \cup {0}]
    /\ slots \subseteq Sessions /\ go \subseteq Logs
    /\ Cardinality(slots \cap Monitors) <= MaxMonitors
    /\ watch \in [Sessions -> {"live", "stop", "dropped"}]
    /\ stopper \in [Sessions -> {"none", "joining", "returned"}]
    /\ monitors \in [Ids -> Nat] /\ logs \in [Ids -> Nat]

\* The sessions a mark stands for: a monitor until stop() has seen its task
\* end, a log stream while its reader runs.
MarkedMonitors(i) ==
    {m \in Monitors : /\ pid[m] = i
                      /\ \/ pc[m] \in {"running", "closing"}
                         \/ pc[m] = "ended" /\ stopper[m] = "joining"}
MarkedLogs(i) ==
    {l \in Logs : pid[l] = i /\ pc[l] \in {"running", "closing", "exiting"}}

\* The registry counts exactly the sessions that are alive: no stop, restart or
\* early end leaves a profile marked for ever, and no profile looks unused
\* while a session of it runs.
MarksExact ==
    \A i \in Ids : /\ monitors[i] = Cardinality(MarkedMonitors(i))
                   /\ logs[i] = Cardinality(MarkedLogs(i))

\* A session that runs, or waits for its gate, can be stopped or has been told
\* to stop.
Stoppable ==
    \A s \in Sessions :
        pc[s] \in {"gated", "running"} => s \in slots \/ watch[s] # "live"

\* What is in a map is alive: no dead session makes start() refuse a profile.
SlotsAlive ==
    \A s \in slots : pc[s] \in {"gated", "running", "closing"}

\* stop() returns.
StopReturns ==
    \A s \in Sessions : stopper[s] = "joining" ~> stopper[s] = "returned"

\* A log stream that ended by itself frees its profile for the next start()
\* and for deletion.
EndFrees ==
    \A l \in Logs : pc[l] = "closing" ~> l \notin slots /\ pc[l] = "ended"

-----------------------------------------------------------------------------
(* Statements of comments in the code.                                     *)

\* "If stop() already removed the slot, this remove is a no-op." (run_reader)
ReleaseOfStoppedIsNoOp ==
    [][\A l \in Logs : stopper[l] = "joining" /\ pc[l] = "closing" /\ pc'[l] = "exiting"
         => slots' = slots]_vars

\* "Delete is refused with a typed `ProfileInUse` while any monitor, log stream
\* or terminal is live for the profile." (delete_profile)
DeletedNotInUse ==
    [][\A i \in rows : i \notin rows' =>
         \A s \in Sessions : pc[s] = "running" => pid[s] # i]_vars
=============================================================================
