------------------------------ MODULE TraceRun ------------------------------
(***************************************************************************)
(* Traceroute runs: TraceManager and run_trace of src-tauri/src/trace/,    *)
(* their hostname lookups, and the traces and trace_hops tables of db.rs.  *)
(*                                                                         *)
(* The manager has one slot.  start() holds its async mutex over the       *)
(* engine and database awaits; stop() takes the run out of the slot,       *)
(* releases the mutex and waits for the run, so a second run may start     *)
(* while the first is still writing.  Lookups are tasks of their own: they *)
(* outlive the run, and write by trace id and hop number.                  *)
(*                                                                         *)
(* The hostname of address a is written a: what matters is whose name a    *)
(* hop carries.  RunState.cache is never filled, and is left out.          *)
(***************************************************************************)
EXTENDS Integers, Sequences, FiniteSets

CONSTANTS
    Runs,        \* start() calls
    Addresses,   \* addresses hops answer from
    NoAddr,      \* a hop that did not answer; also: no hostname
    NoRun,       \* an empty slot, a free mutex
    Permits,     \* permits of the lookup semaphore
    MaxHops,     \* bound on the hops of a trace
    MaxDbErrors, \* bound on failing database calls
    DeleteBusy   \* may the user delete a trace that still runs or looks up:
                 \* delete_trace does not ask, the view refuses while it
                 \* believes a trace to run

ASSUME TraceAssumption ==
    /\ IsFiniteSet(Runs) /\ IsFiniteSet(Addresses)
    /\ NoAddr \notin Addresses /\ NoRun \notin Runs
    /\ Permits \in Nat \ {0}
    /\ MaxHops \in Nat /\ MaxDbErrors \in Nat
    /\ DeleteBusy \in BOOLEAN

VARIABLES
    slot,     \* the run in TraceInner.active, or NoRun
    mutex,    \* the start() that holds the manager's mutex over an await
    pc,       \* per run: start() and run_trace
    tid,      \* per run: its trace_id, 0 before the row exists
    watch,    \* per run: the stop channel: "live", "stop" or "dropped"
    stopper,  \* per run: the stop() that waits for it
    arrival,  \* per run: the address of the hop being handled
    seen,     \* per run: hops_by_address
    hops,     \* per run: RunState.hops, hop n at index n
    outcome,  \* per run: the status it ends with
    snapshot, \* per run: the hops cloned for the database
    lookup,   \* per run and address: the hostname lookup; "none" if not pending
    todo,     \* per run and address: hops whose name the lookup still has to store
    named,    \* per run and address: what the lookup returned
    status,   \* traces table: id -> status
    hopRows,  \* trace_hops table: id (trace_id), run, hop, addr, name
    forgotten,\* history: runs whose row was deleted
    dbErrors

manager == <<slot, mutex, stopper>>
run == <<pc, tid, watch, arrival, seen, hops, outcome, snapshot>>
lookups == <<lookup, todo, named>>
tables == <<status, hopRows, forgotten>>
vars == <<manager, run, lookups, tables, dbErrors>>

Looping(r) == pc[r] \in {"loop", "pushing", "permit"}
Working(r) == Looping(r) \/ pc[r] \in {"persist", "clear"}

\* Lookups that hold a permit.
Holding(r) == {a \in Addresses : lookup[r][a] \in {"running", "storing"}}

rows == DOMAIN status
NextId == 1 + (CHOOSE m \in rows \cup {0} : \A i \in rows : i <= m)

Init ==
    /\ slot = NoRun /\ mutex = NoRun
    /\ pc = [r \in Runs |-> "idle"]
    /\ tid = [r \in Runs |-> 0]
    /\ watch = [r \in Runs |-> "live"]
    /\ stopper = [r \in Runs |-> "none"]
    /\ arrival = [r \in Runs |-> NoAddr]
    /\ seen = [r \in Runs |-> [a \in Addresses |-> {}]]
    /\ hops = [r \in Runs |-> <<>>]
    /\ outcome = [r \in Runs |-> "none"]
    /\ snapshot = [r \in Runs |-> <<>>]
    /\ lookup = [r \in Runs |-> [a \in Addresses |-> "none"]]
    /\ todo = [r \in Runs |-> [a \in Addresses |-> {}]]
    /\ named = [r \in Runs |-> [a \in Addresses |-> NoAddr]]
    /\ status = [i \in {} |-> "running"]
    /\ hopRows = {}
    /\ forgotten = {}
    /\ dbErrors = 0

Goto(r, label) == pc' = [pc EXCEPT ![r] = label]

-----------------------------------------------------------------------------
(* start() and stop()                                                      *)

\* Mutant: the slot is not looked at.
StartLockUnchecked(r) ==
    /\ pc[r] = "idle" /\ mutex = NoRun
    /\ Goto(r, "starting") /\ mutex' = r
    /\ UNCHANGED <<slot, stopper, tid, watch, arrival, seen, hops, outcome,
                   snapshot, lookups, tables, dbErrors>>

\* Lock the manager; AlreadyRunning if the slot is taken.
StartLock(r) ==
    /\ pc[r] = "idle" /\ mutex = NoRun
    /\ \/ slot # NoRun /\ Goto(r, "rejected") /\ UNCHANGED mutex
       \/ slot = NoRun /\ Goto(r, "starting") /\ mutex' = r
    /\ UNCHANGED <<slot, stopper, tid, watch, arrival, seen, hops, outcome,
                   snapshot, lookups, tables, dbErrors>>

\* The engine does not start, or create_trace fails.
StartFails(r) ==
    /\ pc[r] = "starting"
    /\ Goto(r, "failed") /\ mutex' = NoRun
    /\ UNCHANGED <<slot, stopper, tid, watch, arrival, seen, hops, outcome,
                   snapshot, lookups, tables, dbErrors>>

\* create_trace, spawn run_trace, fill the slot, unlock.
StartSpawn(r) ==
    /\ pc[r] = "starting"
    /\ tid' = [tid EXCEPT ![r] = NextId]
    /\ status' = [i \in rows \cup {NextId} |-> IF i = NextId THEN "running" ELSE status[i]]
    /\ Goto(r, "loop") /\ slot' = r /\ mutex' = NoRun
    /\ UNCHANGED <<stopper, watch, arrival, seen, hops, outcome, snapshot,
                   lookups, hopRows, forgotten, dbErrors>>

\* stop(): take the run out of the slot, unlock, raise its flag.
StopTake(r) ==
    /\ mutex = NoRun /\ slot = r
    /\ slot' = NoRun
    /\ watch' = [watch EXCEPT ![r] = "stop"]
    /\ stopper' = [stopper EXCEPT ![r] = "joining"]
    /\ UNCHANGED <<mutex, pc, tid, arrival, seen, hops, outcome, snapshot,
                   lookups, tables, dbErrors>>

\* stop() joined the run and hands on its result.
StopReturn(r) ==
    /\ stopper[r] = "joining"
    /\ pc[r] \in {"ended", "broken"}
    /\ stopper' = [stopper EXCEPT ![r] = IF pc[r] = "ended" THEN "ok" ELSE "error"]
    /\ UNCHANGED <<slot, mutex, run, lookups, tables, dbErrors>>

-----------------------------------------------------------------------------
(* run_trace: the select loop                                              *)

\* Leave the loop with a verdict and a copy of the hops.
Leave(r, verdict) ==
    /\ outcome' = [outcome EXCEPT ![r] = verdict]
    /\ snapshot' = [snapshot EXCEPT ![r] = hops[r]]
    /\ Goto(r, "persist")
    /\ UNCHANGED <<manager, tid, watch, arrival, seen, hops, lookups, tables, dbErrors>>

\* stop_rx changed, or its sender is gone.
Cancelled(r) == pc[r] = "loop" /\ watch[r] # "live" /\ Leave(r, "cancelled")

StreamEnds(r) == pc[r] = "loop" /\ Leave(r, "completed")

\* A read error, or the watchdog (5 s without a line, 120 s in all).
StreamFails(r) == pc[r] = "loop" /\ Leave(r, "error")

\* A hop with an address: it is entered in hops_by_address, and its lookup is
\* wanted if the address is new.
HopSeen(r) ==
    /\ pc[r] = "loop" /\ Len(hops[r]) < MaxHops
    /\ \E a \in Addresses :
         /\ arrival' = [arrival EXCEPT ![r] = a]
         /\ seen' = [seen EXCEPT ![r][a] = @ \cup {Len(hops[r]) + 1}]
         /\ lookup' = [lookup EXCEPT ![r][a] = IF @ = "none" THEN "wanted" ELSE @]
    /\ Goto(r, "pushing")
    /\ UNCHANGED <<manager, tid, watch, hops, outcome, snapshot, todo, named,
                   tables, dbErrors>>

\* A hop that did not answer.
HopSilent(r) ==
    /\ pc[r] = "loop" /\ Len(hops[r]) < MaxHops
    /\ hops' = [hops EXCEPT ![r] = Append(@, [addr |-> NoAddr, name |-> NoAddr])]
    /\ UNCHANGED <<manager, pc, tid, watch, arrival, seen, outcome, snapshot,
                   lookups, tables, dbErrors>>

\* The row is pushed under a second lock of the state; a new address now waits
\* for a permit, and the loop waits with it.
HopPushed(r) ==
    /\ pc[r] = "pushing"
    /\ hops' = [hops EXCEPT ![r] = Append(@, [addr |-> arrival[r], name |-> NoAddr])]
    /\ IF lookup[r][arrival[r]] = "wanted"
       THEN Goto(r, "permit") /\ UNCHANGED arrival
       ELSE Goto(r, "loop") /\ arrival' = [arrival EXCEPT ![r] = NoAddr]
    /\ UNCHANGED <<manager, tid, watch, seen, outcome, snapshot, lookups, tables,
                   dbErrors>>

\* spawn_hostname_lookup got a permit.
SpawnLookup(r) ==
    /\ pc[r] = "permit"
    /\ Cardinality(Holding(r)) < Permits
    /\ lookup' = [lookup EXCEPT ![r][arrival[r]] = "running"]
    /\ Goto(r, "loop") /\ arrival' = [arrival EXCEPT ![r] = NoAddr]
    /\ UNCHANGED <<manager, tid, watch, seen, hops, outcome, snapshot, todo,
                   named, tables, dbErrors>>

-----------------------------------------------------------------------------
(* run_trace: the end                                                      *)

HopRowsOf(r) ==
    {[id |-> tid[r], run |-> r, hop |-> n,
      addr |-> snapshot[r][n].addr, name |-> snapshot[r][n].name] : n \in DOMAIN snapshot[r]}

\* Mutant: the hops and the status are not one transaction.
PersistSplit(r) ==
    /\ pc[r] = "persist"
    /\ tid[r] \in rows
    /\ status' = [status EXCEPT ![tid[r]] = outcome[r]]
    /\ \E some \in SUBSET HopRowsOf(r) : hopRows' = hopRows \cup some
    /\ Goto(r, "clear") /\ snapshot' = [snapshot EXCEPT ![r] = <<>>]
    /\ UNCHANGED <<manager, tid, watch, arrival, seen, hops, outcome, lookups,
                   forgotten, dbErrors>>

\* Mutant: a trace that ends in an error keeps the slot.
PersistKeepsSlot(r) ==
    /\ pc[r] = "persist"
    /\ tid[r] \in rows
    /\ status' = [status EXCEPT ![tid[r]] = outcome[r]]
    /\ hopRows' = hopRows \cup HopRowsOf(r)
    /\ Goto(r, IF outcome[r] = "error" THEN "ended" ELSE "clear")
    /\ snapshot' = [snapshot EXCEPT ![r] = <<>>]
    /\ UNCHANGED <<manager, tid, watch, arrival, seen, hops, outcome, lookups,
                   forgotten, dbErrors>>

\* complete_trace_with_hops, one transaction.  The status of a deleted row is
\* updated without effect, but a hop needs its row.
Persist(r) ==
    /\ pc[r] = "persist"
    /\ tid[r] \in rows \/ snapshot[r] = <<>>
    /\ status' = [i \in rows |-> IF i = tid[r] THEN outcome[r] ELSE status[i]]
    /\ hopRows' = hopRows \cup HopRowsOf(r)
    /\ Goto(r, "clear") /\ snapshot' = [snapshot EXCEPT ![r] = <<>>]
    /\ UNCHANGED <<manager, tid, watch, arrival, seen, hops, outcome, lookups,
                   forgotten, dbErrors>>

\* The transaction fails: the error leaves run_trace before clear_active.
PersistFails(r) ==
    /\ pc[r] = "persist"
    /\ \/ tid[r] \notin rows /\ snapshot[r] # <<>> /\ UNCHANGED dbErrors
       \/ dbErrors < MaxDbErrors /\ dbErrors' = dbErrors + 1
    /\ Goto(r, "broken") /\ snapshot' = [snapshot EXCEPT ![r] = <<>>]
    /\ UNCHANGED <<manager, tid, watch, arrival, seen, hops, outcome, lookups,
                   tables>>

\* clear_active: empty the slot if it holds a run with this trace id.
Clear(r) ==
    /\ pc[r] = "clear" /\ mutex = NoRun
    /\ IF slot # NoRun /\ tid[slot] = tid[r]
       THEN /\ slot' = NoRun
            /\ watch' = [watch EXCEPT ![slot] = "dropped"]
       ELSE UNCHANGED <<slot, watch>>
    /\ Goto(r, "ended")
    /\ UNCHANGED <<mutex, stopper, tid, arrival, seen, hops, outcome, snapshot,
                   lookups, tables, dbErrors>>

RunStep(r) ==
    \/ Cancelled(r) \/ StreamEnds(r) \/ StreamFails(r)
    \/ HopPushed(r) \/ SpawnLookup(r)
    \/ Persist(r) \/ PersistFails(r) \/ Clear(r)

-----------------------------------------------------------------------------
(* Hostname lookups                                                        *)

\* The resolver returns a name or none: the hops pushed so far under this
\* address and still unnamed get it, and are left to be stored.
LookupReturns(r, a) ==
    /\ lookup[r][a] = "running"
    /\ \E name \in {a, NoAddr} :
         LET mine == {n \in seen[r][a] : /\ n <= Len(hops[r])
                                         /\ hops[r][n] = [addr |-> a, name |-> NoAddr]} IN
         /\ named' = [named EXCEPT ![r][a] = IF mine = {} THEN NoAddr ELSE name]
         /\ hops' = [hops EXCEPT ![r] =
                       [n \in DOMAIN @ |-> IF n \in mine THEN [@[n] EXCEPT !.name = name] ELSE @[n]]]
         /\ todo' = [todo EXCEPT ![r][a] = mine]
         /\ lookup' = [lookup EXCEPT ![r][a] = IF mine = {} THEN "done" ELSE "storing"]
    /\ UNCHANGED <<manager, pc, tid, watch, arrival, seen, outcome, snapshot,
                   tables, dbErrors>>

\* Mutant: UPDATE trace_hops ... WHERE hop = ?, without the trace id.
NamedEverywhere(r, n, name) ==
    {IF row.hop = n THEN [row EXCEPT !.name = name] ELSE row : row \in hopRows}

\* UPDATE trace_hops SET hostname = ? WHERE trace_id = ? AND hop = ?
Named(r, n, name) ==
    {IF row.id = tid[r] /\ row.hop = n THEN [row EXCEPT !.name = name] ELSE row
        : row \in hopRows}

\* emit_hostname_event, one hop: the update, whose error is ignored, then the
\* Hostname event.  The last hop returns the permit.
LookupStores(r, a) ==
    /\ lookup[r][a] = "storing"
    /\ \E n \in todo[r][a] :
         /\ \A k \in todo[r][a] : n <= k
         /\ \/ hopRows' = Named(r, n, named[r][a]) /\ UNCHANGED dbErrors
            \/ dbErrors < MaxDbErrors /\ dbErrors' = dbErrors + 1 /\ UNCHANGED hopRows
         /\ todo' = [todo EXCEPT ![r][a] = @ \ {n}]
         /\ IF todo[r][a] = {n}
            THEN /\ lookup' = [lookup EXCEPT ![r][a] = "done"]
                 /\ named' = [named EXCEPT ![r][a] = NoAddr]
            ELSE UNCHANGED <<lookup, named>>
    /\ UNCHANGED <<manager, run, status, forgotten>>

LookupStep(r, a) == LookupReturns(r, a) \/ LookupStores(r, a)

-----------------------------------------------------------------------------

\* A row whose run still works on it, or has lookups that will.
Busy(i) ==
    \E r \in Runs : tid[r] = i /\ (Working(r) \/ Holding(r) # {})

\* delete_trace: the row goes, and its hops with it (ON DELETE CASCADE).
Delete(i) ==
    /\ i \in rows
    /\ DeleteBusy \/ ~Busy(i)
    /\ status' = [j \in rows \ {i} |-> status[j]]
    /\ hopRows' = {row \in hopRows : row.id # i}
    /\ forgotten' = forgotten \cup {r \in Runs : tid[r] = i}
    /\ UNCHANGED <<manager, run, lookups, dbErrors>>

Next ==
    \/ \E r \in Runs :
         \/ StartLock(r) \/ StartFails(r) \/ StartSpawn(r)
         \/ StopTake(r) \/ StopReturn(r)
         \/ HopSeen(r) \/ HopSilent(r) \/ RunStep(r)
         \/ \E a \in Addresses : LookupStep(r, a)
    \/ \E i \in rows : Delete(i)

\* Tasks are polled, a resolver call returns, and the watchdog ends a stream.
Fairness ==
    \A r \in Runs :
        /\ WF_vars(StartFails(r) \/ StartSpawn(r))
        /\ WF_vars(StopReturn(r))
        /\ WF_vars(RunStep(r))
        /\ \A a \in Addresses : WF_vars(LookupStep(r, a))

Spec == Init /\ [][Next]_vars /\ Fairness

-----------------------------------------------------------------------------
(* Properties.                                                             *)

Hop == [addr : Addresses \cup {NoAddr}, name : Addresses \cup {NoAddr}]
Verdicts == {"completed", "cancelled", "error"}

\* Type invariant.  Never more lookups than permits (the test
\* trace_caps_hostname_concurrency_at_four).
TypeOK ==
    /\ slot \in Runs \cup {NoRun} /\ mutex \in Runs \cup {NoRun}
    /\ pc \in [Runs -> {"idle", "rejected", "failed", "starting", "loop", "pushing",
                        "permit", "persist", "clear", "ended", "broken"}]
    /\ tid \in [Runs -> Nat]
    /\ watch \in [Runs -> {"live", "stop", "dropped"}]
    /\ stopper \in [Runs -> {"none", "joining", "ok", "error"}]
    /\ arrival \in [Runs -> Addresses \cup {NoAddr}]
    /\ seen \in [Runs -> [Addresses -> SUBSET (1..MaxHops)]]
    /\ hops \in [Runs -> Seq(Hop)] /\ snapshot \in [Runs -> Seq(Hop)]
    /\ \A r \in Runs : Len(hops[r]) <= MaxHops
    /\ outcome \in [Runs -> Verdicts \cup {"none"}]
    /\ lookup \in [Runs -> [Addresses -> {"none", "wanted", "running", "storing", "done"}]]
    /\ \A r \in Runs : Cardinality(Holding(r)) <= Permits
    /\ todo \in [Runs -> [Addresses -> SUBSET (1..MaxHops)]]
    /\ named \in [Runs -> [Addresses -> Addresses \cup {NoAddr}]]
    /\ rows \subseteq Nat \ {0} /\ \A i \in rows : status[i] \in Verdicts \cup {"running"}
    /\ hopRows \subseteq [id : rows, run : Runs, hop : 1..MaxHops,
                          addr : Addresses \cup {NoAddr}, name : Addresses \cup {NoAddr}]
    /\ forgotten \subseteq Runs
    /\ dbErrors \in 0..MaxDbErrors

\* A trace that is being driven can be stopped or was told to stop: so at most
\* one trace runs that nobody asked to end.
Stoppable == \A r \in Runs : Looping(r) => slot = r \/ watch[r] = "stop"

\* Only a trace whose result could not be saved stays in the slot after its
\* end; whatever ends a trace otherwise frees the slot.
SlotHeldByLiveRun ==
    slot # NoRun => Working(slot) \/ pc[slot] = "broken"

\* A finished trace has all of its hops, and under their addresses.
HopsComplete ==
    \A r \in Runs : r \notin forgotten /\ tid[r] \in rows =>
        LET mine == {row \in hopRows : row.id = tid[r]} IN
        IF status[tid[r]] = "running" THEN mine = {}
        ELSE /\ {row.hop : row \in mine} = 1..Len(hops[r])
             /\ \A row \in mine : row.run = r /\ row.addr = hops[r][row.hop].addr

\* A hop never carries the hostname of another address, though row ids are
\* reused and lookups outlive their trace.  It needs ~DeleteBusy: a lookup of
\* a deleted trace names a hop of the trace that got its id.
NamesBelong == \A row \in hopRows : row.name \in {NoAddr, row.addr}

\* A hostname enters the history at a hop of its address, and one that the
\* history has is not taken back while the trace is there.
NamesTrue ==
    [][/\ NamesBelong'
       /\ \A row \in hopRows : row.name # NoAddr /\ row.id \in rows' =>
            row \in hopRows']_vars

\* stop() returns, whatever the run and its lookups are doing.
StopReturns == \A r \in Runs : stopper[r] = "joining" ~> stopper[r] # "joining"

\* A trace ends, though its loop waits for lookups, and is out of the way then.
TraceEnds == \A r \in Runs : pc[r] = "loop" ~> pc[r] \in {"ended", "broken"}

-----------------------------------------------------------------------------
(* Refinement: a trace is a run of RunHistory whose items are its hops.    *)

History == INSTANCE RunHistory WITH
    state <- [r \in Runs |->
                IF tid[r] = 0 THEN "new"
                ELSE IF r \in forgotten THEN "deleted"
                ELSE IF pc[r] = "broken" THEN "abandoned"
                ELSE IF status[tid[r]] = "running" THEN "open" ELSE status[tid[r]]],
    shown <- [r \in Runs |-> Len(hops[r])],
    kept <- [r \in Runs |-> {row.hop : row \in {h \in hopRows : h.run = r}}]

\* Traces, with stop(), failures and deletions, keep the promises of RunHistory.
ImplementsHistory == History!HistorySpec

-----------------------------------------------------------------------------
(* Statements of the code and its tests.                                   *)

\* "a trace is already running" (TraceError::AlreadyRunning): start() refuses
\* only while there is a run that has not ended.
RefusedOnlyWhileRunning ==
    [][\A r \in Runs : pc[r] = "idle" /\ pc'[r] = "rejected" =>
         \E q \in Runs : Working(q)]_vars

\* Hops whose hostname was sent to the view: found, and no longer to be stored.
Shown(r) == {n \in DOMAIN hops[r] : /\ hops[r][n].name # NoAddr
                                    /\ n \notin todo[r][hops[r][n].addr]}

\* trace_emits_late_hostname_updates_after_completion: a hostname that was
\* shown is found in the history once the trace has completed.
LateHostnamesStored ==
    \A r \in Runs : pc[r] = "ended" /\ r \notin forgotten =>
        \A n \in Shown(r) : \E row \in hopRows :
            row.id = tid[r] /\ row.hop = n /\ row.name = row.addr
=============================================================================
