-------------------------------- MODULE MtuRun --------------------------------
(***************************************************************************)
(* MTU discovery runs: MtuManager and run_mtu of src-tauri/src/mtu/, and   *)
(* the mtu_runs and mtu_probes tables.  What sizes are probed is the       *)
(* business of MtuSearch; here a run is a loop of attempts whose outcomes  *)
(* are shown and saved one by one until the controller is done or the user *)
(* stops it.                                                               *)
(*                                                                         *)
(* start() holds the manager's mutex over the factory and the insert, and  *)
(* nothing of it can be seen before it fills the slot, so it is one step.  *)
(***************************************************************************)
EXTENDS Integers

CONSTANTS
    Runs,        \* start() calls
    NoRun,       \* an empty slot
    MaxProbes,   \* bound on the probes of a run
    MaxDbErrors, \* bound on failing database calls
    DeleteBusy   \* may the user delete a run that is still going: delete_mtu_run
                 \* does not ask, the view refuses while it believes a run to go

VARIABLES
    slot,    \* the run in MtuInner.active, or NoRun
    run,     \* per run: its task
    rows,    \* mtu_runs table: id -> owner, result ("open" is NULL), probes_sent
    probes,  \* mtu_probes table: id (run_id), owner, seq
    dbErrors

vars == <<slot, run, rows, probes, dbErrors>>

\* pc: start() and then the task; id: run_id; stop: the flag; stopper: the
\* stop() that waits; shown, settled: outcomes shown, and saved or given up.
Idle == [pc |-> "idle", id |-> 0, stop |-> FALSE, stopper |-> "none",
         shown |-> 0, settled |-> 0]

Init ==
    /\ slot = NoRun
    /\ run = [r \in Runs |-> Idle]
    /\ rows = [i \in {} |-> Idle]
    /\ probes = {}
    /\ dbErrors = 0

ids == DOMAIN rows
NextId == 1 + (CHOOSE m \in ids \cup {0} : \A i \in ids : i <= m)

Busy(r) == run[r].pc \in {"check", "attempt", "save", "finish", "done", "clear"}

DbError == dbErrors < MaxDbErrors /\ dbErrors' = dbErrors + 1

-----------------------------------------------------------------------------
(* start(), stop() and delete_run                                          *)

\* The target is resolved before the lock.  AlreadyRunning, no engine, a
\* failing create_mtu_run, or the run is spawned.
Start(r) ==
    /\ run[r].pc = "idle"
    /\ \/ slot # NoRun /\ run' = [run EXCEPT ![r].pc = "refused"] /\ UNCHANGED <<slot, rows>>
       \/ slot = NoRun /\ run' = [run EXCEPT ![r].pc = "failed"] /\ UNCHANGED <<slot, rows>>
       \/ /\ slot = NoRun
          /\ rows' = [i \in ids \cup {NextId} |->
                         IF i = NextId THEN [owner |-> r, result |-> "open", sent |-> 0]
                                       ELSE rows[i]]
          /\ run' = [run EXCEPT ![r].pc = "check", ![r].id = NextId]
          /\ slot' = r
    /\ UNCHANGED <<probes, dbErrors>>

\* stop(): take the run out of the slot and raise its flag ...
Stop(r) ==
    /\ slot = r
    /\ slot' = NoRun
    /\ run' = [run EXCEPT ![r].stop = TRUE, ![r].stopper = "joining"]
    /\ UNCHANGED <<rows, probes, dbErrors>>

\* ... and hand on what its task returns.
StopReturn(r) ==
    /\ run[r].stopper = "joining" /\ run[r].pc \in {"ended", "broken"}
    /\ run' = [run EXCEPT ![r].stopper = "returned"]
    /\ UNCHANGED <<slot, rows, probes, dbErrors>>

\* delete_run: the probes go with their row.
Delete(i) ==
    /\ i \in ids
    /\ DeleteBusy \/ \A r \in Runs : Busy(r) => run[r].id # i
    /\ rows' = [j \in ids \ {i} |-> rows[j]]
    /\ probes' = {p \in probes : p.id # i}
    /\ UNCHANGED <<slot, run, dbErrors>>

-----------------------------------------------------------------------------
(* run_mtu                                                                 *)

\* The controller wants a probe: the flag decides.
Check(r) ==
    /\ run[r].pc = "check"
    /\ run' = [run EXCEPT ![r].pc = IF run[r].stop THEN "finish" ELSE "attempt"]
    /\ UNCHANGED <<slot, rows, probes, dbErrors>>

\* engine.probe, then the Outcome event.
Attempt(r) ==
    /\ run[r].pc = "attempt"
    /\ run' = [run EXCEPT ![r].pc = "save", ![r].shown = run[r].shown + 1]
    /\ UNCHANGED <<slot, rows, probes, dbErrors>>

\* add_mtu_probe, whose error is ignored, and the controller's next action.
\* A probe of a deleted run has no row to belong to.
Save(r) ==
    /\ run[r].pc = "save"
    /\ \/ /\ run[r].id \in ids
          /\ probes' = probes \cup {[id |-> run[r].id, owner |-> r, seq |-> run[r].shown]}
          /\ UNCHANGED dbErrors
       \/ run[r].id \notin ids /\ UNCHANGED <<probes, dbErrors>>
       \/ DbError /\ UNCHANGED probes
    /\ \E next \in {"check", "done"} :
         /\ next = "check" => run[r].shown < MaxProbes
         /\ run' = [run EXCEPT ![r].pc = next, ![r].settled = run[r].shown]
    /\ UNCHANGED <<slot, rows>>

\* finish_mtu_run with this result.  An error leaves the run before the status
\* event and clear_active: the slot stays full.
CloseRow(r, result) ==
    /\ \/ /\ rows' = [i \in ids |-> IF i = run[r].id
                                    THEN [rows[i] EXCEPT !.result = result, !.sent = run[r].shown]
                                    ELSE rows[i]]
          /\ run' = [run EXCEPT ![r].pc = "clear"]
          /\ UNCHANGED dbErrors
       \/ DbError /\ run' = [run EXCEPT ![r].pc = "broken"] /\ UNCHANGED rows
    /\ UNCHANGED <<slot, probes>>

\* cancel_run
Cancel(r) == run[r].pc = "finish" /\ CloseRow(r, "cancelled")

\* finish_run
Finish(r) == run[r].pc = "done" /\ CloseRow(r, "found")

\* Mutant: the slot is left to stop().
ClearForgotten(r) ==
    /\ run[r].pc = "clear"
    /\ run' = [run EXCEPT ![r].pc = "ended"]
    /\ UNCHANGED <<slot, rows, probes, dbErrors>>

\* clear_active: empty the slot if it holds a run with this id.
Clear(r) ==
    /\ run[r].pc = "clear"
    /\ slot' = IF slot # NoRun /\ run[slot].id = run[r].id THEN NoRun ELSE slot
    /\ run' = [run EXCEPT ![r].pc = "ended"]
    /\ UNCHANGED <<rows, probes, dbErrors>>

RunStep(r) == Check(r) \/ Attempt(r) \/ Save(r) \/ Cancel(r) \/ Finish(r) \/ Clear(r)

Next ==
    \/ \E r \in Runs : Start(r) \/ Stop(r) \/ StopReturn(r) \/ RunStep(r)
    \/ \E i \in ids : Delete(i)

\* Probes have timeouts and spawned tasks are polled.
Fairness == \A r \in Runs : WF_vars(RunStep(r)) /\ WF_vars(StopReturn(r))

Spec == Init /\ [][Next]_vars /\ Fairness

-----------------------------------------------------------------------------
(* Properties.                                                             *)

TypeOK ==
    /\ slot \in Runs \cup {NoRun}
    /\ \A r \in Runs :
         /\ run[r].pc \in {"idle", "refused", "failed", "check", "attempt", "save",
                           "finish", "done", "clear", "broken", "ended"}
         /\ run[r].settled \in (run[r].shown - 1)..run[r].shown
    /\ \A i \in ids : rows[i].result \in {"open", "cancelled", "found"}

\* A run that is going can be stopped, or has been told to stop.
Stoppable == \A r \in Runs : Busy(r) => slot = r \/ run[r].stop

\* A start() is refused only because of a run that goes on, or of one whose row
\* could not be closed.
SlotNotEnded == slot # NoRun => run[slot].pc # "ended"

\* The count a closed run is listed with is the number of outcomes its view was
\* shown, and with a database that works each of them is in its history.
CountsExact ==
    \A i \in ids :
        rows[i].result # "open" =>
            /\ rows[i].sent = run[rows[i].owner].shown
            /\ dbErrors = 0 => {p.seq : p \in {x \in probes : x.id = i}} = 1..rows[i].sent

Status(r) ==
    CASE run[r].id = 0 -> "new"
      [] run[r].pc = "broken" -> "lost"
      [] run[r].pc \in {"clear", "ended"} -> "closed"
      [] OTHER -> "open"
Counted(r, n) == IF run[r].pc = "broken" THEN 0 ELSE n

Log == INSTANCE SessionLog WITH
    status <- [r \in Runs |-> Status(r)],
    produced <- [r \in Runs |-> Counted(r, run[r].shown)],
    settled <- [r \in Runs |-> Counted(r, run[r].settled)],
    saved <- [r \in Runs |-> {p.seq : p \in {x \in probes : x.owner = r}}]

\* MTU runs keep the promises of SessionLog: an outcome is saved once, in order,
\* and a closed run never gains one.
ImplementsLog == Log!LogSpec
=============================================================================
