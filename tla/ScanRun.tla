------------------------------- MODULE ScanRun -------------------------------
(***************************************************************************)
(* LAN scans: ScanManager, its runner and consume_hosts of                 *)
(* src-tauri/src/scan/manager.rs, and the scans and scan_hosts tables.     *)
(*                                                                         *)
(* A scan is three tasks.  The runner discovers the hosts and sends them,  *)
(* one by one, through a bounded channel; the consumer shows each host and *)
(* saves them in batches; the scan's own task waits for the first, reads   *)
(* the stop flag, waits for the second and closes the row.  The k-th host  *)
(* is written k: what matters is which hosts are shown and saved.          *)
(*                                                                         *)
(* start() holds the manager's mutex from its check to the filled slot and *)
(* nothing else it does can be seen before, so it is one step.             *)
(***************************************************************************)
EXTENDS Integers

CONSTANTS
    Scans,       \* start() calls
    NoScan,      \* an empty slot
    Batch,       \* FLUSH_BATCH_SIZE
    Capacity,    \* SCAN_CHANNEL_CAPACITY
    MaxFound,    \* bound on the hosts of a scan
    MaxDbErrors, \* bound on failing database calls
    DeleteBusy   \* may the user delete a scan whose task still runs: delete_scan
                 \* does not ask, the view refuses while it believes a scan to run

VARIABLES
    slot,    \* the scan in ScanInner.active, or NoScan
    scan,    \* per scan: its tasks
    rows,    \* scans table: id -> owner (the scan that created it) and status
    hosts,   \* scan_hosts table: id (scan_id), owner, host
    dbErrors

vars == <<slot, scan, rows, hosts, dbErrors>>

\* pc: the scan's own task; id: scan_id; stop: the flag; stopper: the stop()
\* that waits; runner and consumer: the two tasks; found: hosts discovered;
\* sent, shown, settled: hosts sent, shown, and out of the batch; cancelled:
\* the flag as it was read when the runner was over.
Idle == [pc |-> "idle", id |-> 0, stop |-> FALSE, stopper |-> "none",
         runner |-> "discover", consumer |-> "live", found |-> 0, sent |-> 0,
         shown |-> 0, settled |-> 0, cancelled |-> FALSE]

Init ==
    /\ slot = NoScan
    /\ scan = [s \in Scans |-> Idle]
    /\ rows = [i \in {} |-> Idle]
    /\ hosts = {}
    /\ dbErrors = 0

ids == DOMAIN rows
NextId == 1 + (CHOOSE m \in ids \cup {0} : \A i \in ids : i <= m)

Busy(s) == scan[s].pc \in {"runner", "consumer", "clear"}

DbError == dbErrors < MaxDbErrors /\ dbErrors' = dbErrors + 1

-----------------------------------------------------------------------------
(* start(), stop() and delete_scan                                         *)

\* AlreadyRunning, a failing create_scan, or the two tasks are spawned.
Start(s) ==
    /\ scan[s].pc = "idle"
    /\ \/ /\ slot # NoScan
          /\ scan' = [scan EXCEPT ![s].pc = "refused"]
          /\ UNCHANGED <<slot, rows, dbErrors>>
       \/ /\ slot = NoScan /\ DbError
          /\ scan' = [scan EXCEPT ![s].pc = "failed"]
          /\ UNCHANGED <<slot, rows>>
       \/ /\ slot = NoScan
          /\ rows' = [i \in ids \cup {NextId} |->
                         IF i = NextId THEN [owner |-> s, status |-> "running"]
                                       ELSE rows[i]]
          /\ scan' = [scan EXCEPT ![s].pc = "runner", ![s].id = NextId]
          /\ slot' = s
          /\ UNCHANGED dbErrors
    /\ UNCHANGED hosts

\* stop(): take the scan out of the slot and raise its flag ...
Stop(s) ==
    /\ slot = s
    /\ slot' = NoScan
    /\ scan' = [scan EXCEPT ![s].stop = TRUE, ![s].stopper = "joining"]
    /\ UNCHANGED <<rows, hosts, dbErrors>>

\* ... and hand on what its task returns.
StopReturn(s) ==
    /\ scan[s].stopper = "joining" /\ scan[s].pc \in {"ended", "broken"}
    /\ scan' = [scan EXCEPT ![s].stopper = "returned"]
    /\ UNCHANGED <<slot, rows, hosts, dbErrors>>

\* delete_scan: the hosts go with their row.
Delete(i) ==
    /\ i \in ids
    /\ DeleteBusy \/ \A s \in Scans : Busy(s) => scan[s].id # i
    /\ rows' = [j \in ids \ {i} |-> rows[j]]
    /\ hosts' = {h \in hosts : h.id # i}
    /\ UNCHANGED <<slot, scan, dbErrors>>

-----------------------------------------------------------------------------
(* The runner                                                              *)

Running(s, label) == scan[s].runner = label /\ scan[s].pc = "runner"

\* discover() fails, or returns its hosts.  It does not look at the flag.
Discover(s) ==
    /\ Running(s, "discover")
    /\ \/ scan' = [scan EXCEPT ![s].runner = "failed"]
       \/ \E n \in 0..MaxFound : scan' = [scan EXCEPT ![s].runner = "probing", ![s].found = n]
    /\ UNCHANGED <<slot, rows, hosts, dbErrors>>

\* The flag is looked at before a host and again after its ports were tried.
Probe(s) ==
    /\ Running(s, "probing")
    /\ scan' = [scan EXCEPT ![s].runner = IF scan[s].sent = scan[s].found \/ scan[s].stop
                             THEN "done" ELSE "sending"]
    /\ UNCHANGED <<slot, rows, hosts, dbErrors>>

\* The host goes into the channel, and a stop is noticed right after it.
Send(s) ==
    /\ Running(s, "sending")
    /\ scan[s].sent - scan[s].shown < Capacity
    /\ scan' = [scan EXCEPT ![s].sent = scan[s].sent + 1,
                            ![s].runner = IF scan[s].stop THEN "done" ELSE "probing"]
    /\ UNCHANGED <<slot, rows, hosts, dbErrors>>

RunnerOver(s) == scan[s].runner \in {"done", "failed"}

-----------------------------------------------------------------------------
(* The consumer                                                            *)

BatchRows(s) ==
    {[id |-> scan[s].id, owner |-> s, host |-> h]
       : h \in (scan[s].settled + 1)..scan[s].shown}

\* flush_batch: one transaction, which fails if the row is gone.  The batch is
\* emptied either way, and the consumer goes on or is done.
Flush(s, consumer) ==
    LET full == scan[s].shown > scan[s].settled IN
    /\ \/ /\ full => scan[s].id \in ids
          /\ hosts' = hosts \cup BatchRows(s)
          /\ UNCHANGED dbErrors
       \/ full /\ scan[s].id \notin ids /\ UNCHANGED <<hosts, dbErrors>>
       \/ full /\ DbError /\ UNCHANGED hosts
    /\ scan' = [scan EXCEPT ![s].settled = scan[s].shown, ![s].consumer = consumer]

Consuming(s) == scan[s].consumer = "live" /\ scan[s].pc \in {"runner", "consumer"}

\* A host is shown and joins the batch.
Receive(s) ==
    /\ Consuming(s) /\ scan[s].shown < scan[s].sent
    /\ scan[s].shown - scan[s].settled < Batch
    /\ scan' = [scan EXCEPT ![s].shown = scan[s].shown + 1]
    /\ UNCHANGED <<slot, rows, hosts, dbErrors>>

\* A full batch is saved before anything else.
SaveFull(s) ==
    /\ Consuming(s) /\ scan[s].shown - scan[s].settled >= Batch
    /\ Flush(s, "live")
    /\ UNCHANGED <<slot, rows>>

\* The ticker.
Tick(s) ==
    /\ Consuming(s) /\ scan[s].shown > scan[s].settled
    /\ Flush(s, "live")
    /\ UNCHANGED <<slot, rows>>

\* The channel is closed and empty: save what is left.
Drain(s) ==
    /\ Consuming(s) /\ RunnerOver(s) /\ scan[s].shown = scan[s].sent
    /\ Flush(s, "done")
    /\ UNCHANGED <<slot, rows>>

-----------------------------------------------------------------------------
(* The scan's own task                                                     *)

\* Mutant: the flag is read before the runner is over.
RunnerJoinedEarly(s) ==
    /\ scan[s].pc = "runner" /\ RunnerOver(s)
    /\ \E seen \in {FALSE, scan[s].stop} :
         scan' = [scan EXCEPT ![s].pc = "consumer", ![s].cancelled = seen]
    /\ UNCHANGED <<slot, rows, hosts, dbErrors>>

\* The runner is over (its error only becomes a status event); read the flag.
RunnerJoined(s) ==
    /\ scan[s].pc = "runner" /\ RunnerOver(s)
    /\ scan' = [scan EXCEPT ![s].pc = "consumer", ![s].cancelled = scan[s].stop]
    /\ UNCHANGED <<slot, rows, hosts, dbErrors>>

\* Mutant: the consumer is not waited for.
FinishAtOnce(s) ==
    /\ scan[s].pc = "consumer"
    /\ scan' = [scan EXCEPT ![s].pc = "clear"]
    /\ rows' = [i \in ids |-> IF i = scan[s].id
                              THEN [rows[i] EXCEPT !.status =
                                      IF scan[s].cancelled THEN "cancelled" ELSE "completed"]
                              ELSE rows[i]]
    /\ UNCHANGED <<slot, hosts, dbErrors>>

\* finish_scan, then the Stopped or Completed event.  An error leaves the task
\* with the slot still full.
Finish(s) ==
    /\ scan[s].pc = "consumer" /\ scan[s].consumer = "done"
    /\ \/ /\ rows' = [i \in ids |-> IF i = scan[s].id
                                    THEN [rows[i] EXCEPT !.status =
                                            IF scan[s].cancelled THEN "cancelled" ELSE "completed"]
                                    ELSE rows[i]]
          /\ scan' = [scan EXCEPT ![s].pc = "clear"]
          /\ UNCHANGED dbErrors
       \/ DbError /\ scan' = [scan EXCEPT ![s].pc = "broken"] /\ UNCHANGED rows
    /\ UNCHANGED <<slot, hosts>>

\* clear_active: empty the slot if it holds a scan with this id.
Clear(s) ==
    /\ scan[s].pc = "clear"
    /\ slot' = IF slot # NoScan /\ scan[slot].id = scan[s].id THEN NoScan ELSE slot
    /\ scan' = [scan EXCEPT ![s].pc = "ended"]
    /\ UNCHANGED <<rows, hosts, dbErrors>>

TaskStep(s) ==
    \/ Discover(s) \/ Probe(s) \/ Send(s)
    \/ Receive(s) \/ SaveFull(s) \/ Drain(s)
    \/ RunnerJoined(s) \/ Finish(s) \/ Clear(s)

Next ==
    \/ \E s \in Scans :
         Start(s) \/ Stop(s) \/ StopReturn(s) \/ TaskStep(s) \/ Tick(s)
    \/ \E i \in ids : Delete(i)

\* Discovery and port probes have timeouts, and spawned tasks are polled; the
\* user owes nothing.
Fairness == \A s \in Scans : WF_vars(TaskStep(s)) /\ WF_vars(StopReturn(s))

Spec == Init /\ [][Next]_vars /\ Fairness

-----------------------------------------------------------------------------
(* Properties.                                                             *)

\* Type invariant.  The channel never holds more than its capacity and the
\* batch never grows past its size.
TypeOK ==
    /\ slot \in Scans \cup {NoScan}
    /\ \A s \in Scans :
         /\ scan[s].pc \in {"idle", "refused", "failed", "runner", "consumer", "clear",
                            "broken", "ended"}
         /\ scan[s].sent - scan[s].shown \in 0..Capacity
         /\ scan[s].shown - scan[s].settled \in 0..Batch
         /\ scan[s].sent <= scan[s].found
    /\ \A h \in hosts : h.id \in ids

\* A scan that is alive can be stopped, or has been told to stop: no second
\* start() and no other scan's end takes its slot away.
Stoppable == \A s \in Scans : Busy(s) => slot = s \/ scan[s].stop

\* The slot holds a live scan, or one whose row could not be closed, which
\* stop() still takes out; and never one that ended.
SlotNotEnded == slot # NoScan => scan[slot].pc \in {"runner", "consumer", "clear", "broken"}

\* The verdict in the history is true: "cancelled" was asked for, and
\* "completed" means that every discovered host was sent (or that discovery
\* failed, which is recorded as completed with no host).
VerdictTrue ==
    \A i \in ids :
        LET s == rows[i].owner IN
            /\ rows[i].status = "cancelled" => scan[s].stop
            /\ rows[i].status = "completed" =>
                 scan[s].sent = scan[s].found \/ scan[s].runner = "failed"

\* A closed scan lists the hosts its view was shown, but for batches that
\* failed; with a database that works, all of them.
HostsComplete ==
    \A i \in ids :
        rows[i].status # "running" /\ dbErrors = 0 =>
            {h.host : h \in {x \in hosts : x.id = i}} = 1..scan[rows[i].owner].shown

\* Refinement: a scan is a session of SessionLog whose probes are its hosts.
LogStatus(s) ==
    CASE scan[s].id = 0 -> "new"
      [] scan[s].pc = "broken" -> "lost"
      [] scan[s].pc \in {"clear", "ended"} -> "closed"
      [] OTHER -> "open"
Counted(s, n) == IF scan[s].pc = "broken" THEN 0 ELSE n

Log == INSTANCE SessionLog WITH
    Runs <- Scans,
    status <- [s \in Scans |-> LogStatus(s)],
    produced <- [s \in Scans |-> Counted(s, scan[s].shown)],
    settled <- [s \in Scans |-> Counted(s, scan[s].settled)],
    saved <- [s \in Scans |-> {h.host : h \in {x \in hosts : x.owner = s}}]

\* Scans, with stop(), failing saves and deletions, keep the promises of
\* SessionLog: batches are saved whole and in order, a scan is closed only when
\* no host is unsettled, and a closed scan never gains a host.
ImplementsLog == Log!LogSpec

\* stop() returns.
StopReturns == \A s \in Scans : scan[s].stopper = "joining" ~> scan[s].stopper = "returned"
=============================================================================
