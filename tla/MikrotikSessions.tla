--------------------------- MODULE MikrotikSessions ---------------------------
(***************************************************************************)
(* MikroTik monitoring sessions: MikrotikManager (mikrotik/manager.rs),    *)
(* the polling task run_mikrotik_session (mikrotik/runtime.rs), the        *)
(* version probe (mikrotik/version.rs) and their tables.  What a tick      *)
(* shows is the business of MikrotikTick; here it is one snapshot.         *)
(*                                                                         *)
(* Several routers are watched at once, one session per profile.  start()  *)
(* checks, connects without the lock and checks again; the probe is a task *)
(* of its own that outlives the session.                                   *)
(***************************************************************************)
EXTENDS Integers, FiniteSets, Functions

CONSTANTS
    Sessions,        \* start() calls
    Profiles,        \* profiles that exist at first
    Nobody,          \* no profile, no session
    MaxActive,       \* MAX_CONCURRENT_SESSIONS
    MaxCoreFailures, \* MAX_CORE_FAILURES
    MaxTicks,        \* bound on the ticks of all sessions
    MaxDbErrors,     \* bound on failing database calls
    MaxDeletes,      \* bound on deleted profiles
    DeleteBusy       \* may a delete meet a session that has a slot, a task or
                     \* a probe: delete_session does not ask, delete_profile asks too early

VARIABLES
    active,    \* MikrotikInner.active: profile -> session, or Nobody
    session,   \* per session: its start() call, task and version probe
    rows,      \* mikrotik_sessions table: id -> owner and columns
    snapshots, \* mikrotik_snapshots table: id (session_id), owner, n
    profiles,  \* mikrotik_profiles table
    doomed,    \* profiles a delete_profile found unused and is about to delete
    dbErrors

vars == <<active, session, rows, snapshots, profiles, doomed, dbErrors>>

\* pc: start() and then the task; id: session_id; stop: stop_rx has changed, or
\* its sender is gone; failures: core_failures; streak: core failures in a row;
\* identity: resource_identity_persisted; count: snapshot_count; status: the
\* verdict; probe: the version probe.
Idle == [pc |-> "idle", profile |-> Nobody, id |-> 0, stop |-> FALSE,
         stopper |-> "none", ticks |-> 0, failures |-> 0, streak |-> 0,
         identity |-> FALSE, count |-> 0, status |-> "running", probe |-> "none"]

Init ==
    /\ active = [p \in Profiles |-> Nobody]
    /\ session = [s \in Sessions |-> Idle]
    /\ rows = [i \in {} |-> Idle]
    /\ snapshots = {}
    /\ profiles = Profiles
    /\ doomed = {}
    /\ dbErrors = 0

ids == DOMAIN rows
NextId == 1 + (CHOOSE m \in ids \cup {0} : \A i \in ids : i <= m)

watched == {p \in Profiles : active[p] # Nobody}
held == {active[p] : p \in watched}
\* is_active_session
IsActive(id) == \E s \in held : session[s].id = id

\* The task or start() goes on to pc.
Go(s, pc) == session' = [session EXCEPT ![s].pc = pc]

DbError == dbErrors < MaxDbErrors /\ dbErrors' = dbErrors + 1

Polling(s) == session[s].pc \in {"tick", "fetch", "identity", "snapshot", "complete", "clear"}
Busy(s) == s \in held \/ Polling(s) \/ session[s].probe \in {"polling", "save"}

-----------------------------------------------------------------------------
(* start()                                                                 *)

\* The first look: AlreadyRunningForProfile, TooManySessions, or go on.
StartCheck(s, p) ==
    /\ session[s].pc = "idle"
    /\ IF p \in watched \/ Cardinality(watched) >= MaxActive
       THEN session' = [session EXCEPT ![s].pc = "refused", ![s].profile = p]
       ELSE session' = [session EXCEPT ![s].pc = "connect", ![s].profile = p]
    /\ UNCHANGED <<active, rows, snapshots, profiles, doomed, dbErrors>>

\* require_profile, connection_for and the factory, without the lock.
Connect(s) ==
    /\ session[s].pc = "connect"
    /\ \/ session[s].profile \in profiles /\ Go(s, "claim")
       \/ Go(s, "failed")
    /\ UNCHANGED <<active, rows, snapshots, profiles, doomed, dbErrors>>

\* The row, the task, the probe and the slot.
Register(s, p) ==
    /\ rows' = [i \in ids \cup {NextId} |->
                   IF i = NextId
                   THEN [owner |-> s, profile |-> p, status |-> "running",
                         identity |-> FALSE, version |-> Nobody]
                   ELSE rows[i]]
    /\ active' = [active EXCEPT ![p] = s]
    /\ session' = [session EXCEPT ![s].pc = "tick", ![s].id = NextId, ![s].probe = "polling"]

\* Mutant: the slots are not looked at again.
ClaimUnchecked(s) ==
    LET p == session[s].profile IN
    /\ session[s].pc = "claim"
    /\ p \in profiles
    /\ Register(s, p)
    /\ UNCHANGED <<dbErrors, snapshots, profiles, doomed>>

\* The second look, under the lock.
Claim(s) ==
    LET p == session[s].profile
        full == p \in watched \/ Cardinality(watched) >= MaxActive
    IN
    /\ session[s].pc = "claim"
    /\ \/ /\ full
          /\ Go(s, "refused")
          /\ UNCHANGED <<active, rows, dbErrors>>
       \/ /\ ~full /\ p \notin profiles
          /\ Go(s, "failed")
          /\ UNCHANGED <<active, rows, dbErrors>>
       \/ ~full /\ DbError /\ Go(s, "failed") /\ UNCHANGED <<active, rows>>
       \/ /\ ~full /\ p \in profiles
          /\ Register(s, p)
          /\ UNCHANGED dbErrors
    /\ UNCHANGED <<snapshots, profiles, doomed>>

-----------------------------------------------------------------------------
(* stop() and the deletes                                                  *)

\* stop() takes the entry out and raises the flag; it goes by session id.
Stop(s) ==
    /\ s \in held
    /\ active' = [p \in Profiles |-> IF active[p] = s THEN Nobody ELSE active[p]]
    /\ session' = [session EXCEPT ![s].stop = TRUE, ![s].stopper = "joining"]
    /\ UNCHANGED <<rows, snapshots, profiles, doomed, dbErrors>>

\* The task's own result is what stop() returns.
StopReturn(s) ==
    /\ session[s].stopper = "joining" /\ session[s].pc \in {"ended", "broken"}
    /\ session' = [session EXCEPT ![s].stopper = "returned"]
    /\ UNCHANGED <<active, rows, snapshots, profiles, doomed, dbErrors>>

Remove(gone) ==
    /\ rows' = [i \in ids \ gone |-> rows[i]]
    /\ snapshots' = {n \in snapshots : n.id \notin gone}

\* delete_session
Delete(i) ==
    /\ i \in ids
    /\ DeleteBusy \/ \A s \in Sessions : Busy(s) => session[s].id # i
    /\ Remove({i})
    /\ UNCHANGED <<active, session, profiles, doomed, dbErrors>>

\* delete_profile: is_profile_active lets go of the lock ...
DeleteProfileCheck(p) ==
    /\ p \in profiles \ (watched \cup doomed)
    /\ Cardinality(doomed \cup (Profiles \ profiles)) < MaxDeletes
    /\ doomed' = doomed \cup {p}
    /\ UNCHANGED <<active, session, rows, snapshots, profiles, dbErrors>>

\* ... before the row and, by cascade, its sessions are deleted.
DeleteProfile(p) ==
    /\ p \in doomed
    /\ DeleteBusy \/ \A s \in Sessions : Busy(s) => session[s].profile # p
    /\ doomed' = doomed \ {p}
    /\ profiles' = profiles \ {p}
    /\ Remove({i \in ids : rows[i].profile = p})
    /\ UNCHANGED <<active, session, dbErrors>>

-----------------------------------------------------------------------------
(* run_mikrotik_session                                                    *)

\* Mutant: only the end of a tick looks at the flag.
CancelDeaf(s) ==
    /\ session[s].pc = "tick" /\ session[s].stop /\ session[s].ticks = 0
    /\ session' = [session EXCEPT ![s].pc = "complete", ![s].status = "cancelled"]
    /\ UNCHANGED <<active, rows, snapshots, profiles, doomed, dbErrors>>

\* The select: stop_rx.changed() ...
Cancel(s) ==
    /\ session[s].pc = "tick" /\ session[s].stop
    /\ session' = [session EXCEPT ![s].pc = "complete", ![s].status = "cancelled"]
    /\ UNCHANGED <<active, rows, snapshots, profiles, doomed, dbErrors>>

\* ... or the interval.
Tick(s) ==
    /\ session[s].pc = "tick"
    /\ FoldFunction(+, 0, [t \in Sessions |-> session[t].ticks]) < MaxTicks
    /\ session' = [session EXCEPT ![s].pc = "fetch", ![s].ticks = session[s].ticks + 1]
    /\ UNCHANGED <<active, rows, snapshots, profiles, doomed, dbErrors>>

\* get_resource and get_interfaces both answer.
Fetched(s) ==
    /\ session[s].pc = "fetch"
    /\ session' = [session EXCEPT ![s].failures = 0, ![s].streak = 0,
                       ![s].pc = IF session[s].identity THEN "snapshot" ELSE "identity"]
    /\ UNCHANGED <<active, rows, snapshots, profiles, doomed, dbErrors>>

\* clear_active, which goes by session id: whoever has that id loses its slot,
\* and its task sees its sender gone.
Clear(s, ended) ==
    LET mine == {p \in watched : session[active[p]].id = session[s].id} IN
    /\ active' = [p \in Profiles |-> IF p \in mine THEN Nobody ELSE active[p]]
    /\ session' = [t \in Sessions |->
           IF t = s THEN ended
           ELSE IF \E p \in mine : active[p] = t THEN [session[t] EXCEPT !.stop = TRUE]
           ELSE session[t]]

\* One of them failed: a warning, and the last of too many ends the session.
FetchFailed(s) ==
    LET n == session[s].failures + 1
        missed == [session[s] EXCEPT !.failures = n, !.streak = session[s].streak + 1]
    IN
    /\ session[s].pc = "fetch"
    /\ IF n < MaxCoreFailures
       THEN session' = [session EXCEPT ![s] = [missed EXCEPT !.pc = "tick"]] /\ UNCHANGED active
       ELSE Clear(s, [missed EXCEPT !.pc = "complete", !.status = "error"])
    /\ UNCHANGED <<rows, snapshots, profiles, doomed, dbErrors>>

\* set_mikrotik_session_identity writes the identity columns only.
WithIdentity(row) == [row EXCEPT !.identity = TRUE]

\* Any database error leaves the task at once: the slot stays taken.
Identity(s) ==
    /\ session[s].pc = "identity"
    /\ \/ /\ rows' = [i \in ids |-> IF i = session[s].id THEN WithIdentity(rows[i]) ELSE rows[i]]
          /\ session' = [session EXCEPT ![s].pc = "snapshot", ![s].identity = TRUE]
          /\ UNCHANGED dbErrors
       \/ DbError /\ Go(s, "broken") /\ UNCHANGED rows
    /\ UNCHANGED <<active, snapshots, profiles, doomed>>

\* insert_mikrotik_snapshot and the Snapshot event.
Snapshot(s) ==
    /\ session[s].pc = "snapshot"
    /\ \/ /\ session[s].id \in ids
          /\ snapshots' = snapshots \cup {[id |-> session[s].id, owner |-> s,
                                           n |-> session[s].count + 1]}
          /\ session' = [session EXCEPT ![s].pc = "tick", ![s].count = session[s].count + 1]
          /\ UNCHANGED dbErrors
       \/ /\ session[s].id \notin ids
          /\ Go(s, "broken")
          /\ UNCHANGED <<snapshots, dbErrors>>
       \/ DbError /\ Go(s, "broken") /\ UNCHANGED snapshots
    /\ UNCHANGED <<active, rows, profiles, doomed>>

\* complete_mikrotik_session
Complete(s) ==
    /\ session[s].pc = "complete"
    /\ \/ /\ rows' = [i \in ids |-> IF i = session[s].id
                                    THEN [rows[i] EXCEPT !.status = session[s].status]
                                    ELSE rows[i]]
          /\ Go(s, "clear")
          /\ UNCHANGED dbErrors
       \/ DbError /\ Go(s, "broken") /\ UNCHANGED rows
    /\ UNCHANGED <<active, snapshots, profiles, doomed>>

ClearAtEnd(s) ==
    /\ session[s].pc = "clear"
    /\ Clear(s, [session[s] EXCEPT !.pc = "ended"])
    /\ UNCHANGED <<rows, snapshots, profiles, doomed, dbErrors>>

-----------------------------------------------------------------------------
(* The version probe                                                       *)

\* check_updates of a profile that is watched; the result is the same.
CheckUpdates(s) ==
    /\ s \in held /\ session[s].probe = "done"
    /\ session' = [session EXCEPT ![s].probe = "polling"]
    /\ UNCHANGED <<active, rows, snapshots, profiles, doomed, dbErrors>>

\* Mutant: the result is kept whether or not the session is still on.
ProbedAnyway(s) ==
    /\ session[s].probe = "polling"
    /\ session' = [session EXCEPT ![s].probe = "save"]
    /\ UNCHANGED <<active, rows, snapshots, profiles, doomed, dbErrors>>

\* probe_once is over: nothing to deliver, or is_active_session is asked.
Probed(s) ==
    /\ session[s].probe = "polling"
    /\ \/ session' = [session EXCEPT ![s].probe = "done"]
       \/ IsActive(session[s].id) /\ session' = [session EXCEPT ![s].probe = "save"]
    /\ UNCHANGED <<active, rows, snapshots, profiles, doomed, dbErrors>>

\* persist_result writes the version columns only; its error is dropped.
SaveVersion(s) ==
    /\ session[s].probe = "save"
    /\ session' = [session EXCEPT ![s].probe = "done"]
    /\ \/ /\ rows' = [i \in ids |-> IF i = session[s].id
                                    THEN [rows[i] EXCEPT !.version = s]
                                    ELSE rows[i]]
          /\ UNCHANGED dbErrors
       \/ DbError /\ UNCHANGED rows
    /\ UNCHANGED <<active, snapshots, profiles, doomed>>

-----------------------------------------------------------------------------
Task(s) ==
    \/ Cancel(s) \/ Fetched(s) \/ FetchFailed(s) \/ Identity(s) \/ Snapshot(s)
    \/ Complete(s) \/ ClearAtEnd(s)

Next ==
    \/ \E s \in Sessions :
         \/ \E p \in Profiles : StartCheck(s, p)
         \/ Connect(s) \/ Claim(s) \/ Stop(s) \/ StopReturn(s) \/ Task(s) \/ Tick(s)
         \/ CheckUpdates(s) \/ Probed(s) \/ SaveVersion(s)
    \/ \E i \in ids : Delete(i)
    \/ \E p \in Profiles : DeleteProfileCheck(p) \/ DeleteProfile(p)

\* Router calls have timeouts and tasks are polled; the interval need not fire.
Fairness == \A s \in Sessions : WF_vars(Task(s)) /\ WF_vars(StopReturn(s))

Spec == Init /\ [][Next]_vars /\ Fairness

-----------------------------------------------------------------------------
(* Properties                                                              *)

TypeOK ==
    /\ watched \subseteq Profiles
    /\ \A p \in watched : session[active[p]].profile = p
    /\ \A s \in Sessions :
         /\ session[s].pc \in {"idle", "refused", "failed", "connect", "claim", "tick",
                               "fetch", "identity", "snapshot", "complete", "clear",
                               "ended", "broken"}
         /\ session[s].failures \in 0..MaxCoreFailures
    /\ \A n \in snapshots : n.id \in ids

\* However many starts connect at the same time, no more routers are polled
\* than MAX_CONCURRENT_SESSIONS, and none of them twice.
OnePollerPerRouter ==
    LET pollers == {s \in Sessions : Polling(s) /\ ~session[s].stop /\ session[s].status # "error"} IN
    /\ Cardinality(pollers) <= MaxActive
    /\ \A s, t \in pollers : session[s].profile = session[t].profile => s = t

\* A session whose end the user was told of has no slot any more, so the next
\* start is not refused; and a task nobody has stopped can be: its slot is its
\* own.  (A task that died of a database error keeps it: only stop() frees it.)
Stoppable ==
    /\ \A s \in held : session[s].pc \in {"tick", "fetch", "identity", "snapshot", "broken"}
    /\ \A s \in Sessions :
         session[s].pc \in {"tick", "fetch", "identity", "snapshot"} /\ ~session[s].stop =>
             s \in held

\* The history shows each session its own snapshots, as many as it counted,
\* unless its row was deleted.
SnapshotsExact ==
    \A i \in ids :
        LET s == rows[i].owner IN
        {n \in snapshots : n.id = i} = {[id |-> i, owner |-> s, n |-> k] : k \in 1..session[s].count}

\* "Writes only the identity columns so it cannot clobber probe results"
\* (db.rs): a row that has the version keeps it, whatever the order of the
\* task's and the probe's writes; likewise the identity; and a row that was
\* closed is not closed again.
ColumnsKept ==
    [][\A i \in ids \cap DOMAIN rows' :
          rows[i].owner = rows'[i].owner =>
            /\ rows[i].version # Nobody => rows'[i].version = rows[i].version
            /\ rows[i].identity => rows'[i].identity
            /\ rows[i].status # "running" => rows'[i].status = rows[i].status]_vars

\* A session fails when its router missed MAX_CORE_FAILURES ticks in a row, no
\* more and no less.
ErrorMeansStreak ==
    \A s \in Sessions :
        /\ session[s].streak = MaxCoreFailures => session[s].status = "error"
        /\ session[s].status = "error" => session[s].streak = MaxCoreFailures

\* A version result is written for a session that was on when it was checked;
\* one that ended before the probe did never gets one.
NoLateVersion ==
    [][\A s \in Sessions :
          session[s].probe = "polling" /\ session'[s].probe = "save" => s \in held]_vars

\* A probe that is late for its own session writes to no other: tests/
\* mikrotik_version.rs:487 and :552.  Not so when the session was deleted while
\* its probe ran: SQLite gives its id to the next one.
StaleProbeWritesNothing ==
    \A i \in ids : rows[i].version \in {rows[i].owner, Nobody}

\* stop() returns.
StopReturns ==
    \A s \in Sessions : session[s].stopper = "joining" ~> session[s].stopper = "returned"
=============================================================================
