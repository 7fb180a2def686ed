------------------------------- MODULE Storage -------------------------------
(* The history in the SQLite file (src-tauri/src/db.rs): connecting to a file *)
(* of another version, transactions that write several rows, deletions that   *)
(* cascade, and reads that take two queries.  Sessions, traces, MTU runs,     *)
(* scans, DNS runs and downloads are tables of the same form: a row per run   *)
(* and, but for downloads, a table of rows that belong to it.  A behaviour is *)
(* about one of them (kind).                                                  *)
(*                                                                            *)
(* Abstractions: a run is known by who made it, a row of it by the            *)
(* transaction that wrote it and its place there.  Row ids are plain rowids:  *)
(* the id of a deleted newest row is given away again.  SQLite's part, one    *)
(* writer at a time and rollback of what was not committed, is external.      *)
EXTENDS Naturals, FiniteSets

CONSTANTS
    MaxRuns,    \* bound on the runs a behaviour records, who are numbered
    MaxRows,    \* bound on the rows of one transaction
    MaxWrites,  \* bound on the transactions of a behaviour
    MaxFaults,  \* bound on failing statements, crashes and new versions
    DeleteRead  \* may a run be deleted while it is loaded?

VARIABLES
    kind,    \* which of the tables
    file,    \* how the file fits the program: "absent" | "behind" | "fits" | "drifted"
    conn,    \* "closed" | "opened" | "moving" | "fresh" | "ready"
    runs,    \* id -> [owner, ended]
    rows,    \* rows of the runs: [id, write, place, of]
    tx,      \* transaction that is open
    load,    \* load_scan and its like
    kept,    \* owners of runs that nobody deleted
    moved,   \* owners in files that were moved out of the way
    made, writes, faults

vars == <<kind, file, conn, runs, rows, tx, load, kept, moved, made, writes, faults>>

Kinds == {"session", "trace", "mtu", "scan", "dns", "download"}
Nobody == [x \in {} |-> x]
NoTx == [open |-> FALSE, id |-> 0, of |-> 0, done |-> 0, runs |-> Nobody]
NoLoad == [pc |-> "none", id |-> 0, owner |-> {}, count |-> 0, rows |-> {}, of |-> {}]

Init ==
    /\ kind \in Kinds
    /\ file = "absent" /\ conn = "closed"
    /\ runs = Nobody /\ rows = {}
    /\ tx = NoTx /\ load = NoLoad
    /\ kept = {} /\ moved = {} /\ made = 0 /\ writes = 0 /\ faults = 0

-----------------------------------------------------------------------------
(* Connecting *)

Owners == {runs[i].owner : i \in DOMAIN runs}

\* open_pool creates a missing file.
Open ==
    /\ conn = "closed"
    /\ conn' = "opened"
    /\ file' = IF file = "absent" THEN "behind" ELSE file
    /\ UNCHANGED <<kind, runs, rows, tx, load, kept, moved, made, writes, faults>>

\* The migrations that are missing are applied.
Migrate ==
    /\ conn \in {"opened", "fresh"} /\ file \in {"behind", "fits"}
    /\ file' = "fits" /\ conn' = "ready"
    /\ UNCHANGED <<kind, runs, rows, tx, load, kept, moved, made, writes, faults>>

\* A locked file or an I/O error is not drift: the program does not start.
MigrateFails ==
    /\ conn \in {"opened", "fresh"} /\ faults < MaxFaults
    /\ conn' = "closed" /\ faults' = faults + 1
    /\ UNCHANGED <<kind, file, runs, rows, tx, load, kept, moved, made, writes>>

\* is_unrecoverable_drift: the pool is closed first.
FindDrift ==
    /\ conn = "opened" /\ file = "drifted"
    /\ conn' = "moving"
    /\ UNCHANGED <<kind, file, runs, rows, tx, load, kept, moved, made, writes, faults>>

\* The file is renamed to a backup, and a fresh one is opened.
MoveAway ==
    /\ conn = "moving"
    /\ moved' = moved \cup Owners
    /\ runs' = Nobody /\ rows' = {} /\ file' = "behind" /\ conn' = "fresh"
    /\ UNCHANGED <<kind, tx, load, kept, made, writes, faults>>

\* The process ends at any point: what was not committed is gone.
Crash ==
    /\ conn # "closed" /\ faults < MaxFaults
    /\ conn' = "closed" /\ tx' = NoTx /\ load' = NoLoad /\ faults' = faults + 1
    /\ UNCHANGED <<kind, file, runs, rows, kept, moved, made, writes>>

\* Another version of the program is installed: it has more migrations than
\* the file, or fewer, or edited ones.
OtherVersion ==
    /\ conn = "closed" /\ file = "fits" /\ faults < MaxFaults
    /\ file' \in {"behind", "drifted"} /\ faults' = faults + 1
    /\ UNCHANGED <<kind, conn, runs, rows, tx, load, kept, moved, made, writes>>

-----------------------------------------------------------------------------
(* Writing *)

Ready == conn = "ready"
NextId == 1 + (CHOOSE m \in DOMAIN runs \cup {0} : \A i \in DOMAIN runs : i <= m)
RowsOf(i) == {row \in rows : row.id = i}
OwnerOf(i) == {runs[j].owner : j \in DOMAIN runs \cap {i}}

\* create_session, create_trace, create_mtu_run, create_scan, create_dns_run
\* and create_download_speed_session.
Create ==
    /\ Ready /\ ~tx.open /\ made < MaxRuns
    /\ made' = made + 1 /\ kept' = kept \cup {made'}
    /\ runs' = [j \in DOMAIN runs \cup {NextId} |->
                   IF j = NextId THEN [owner |-> made', ended |-> "no"] ELSE runs[j]]
    /\ UNCHANGED <<kind, file, conn, rows, tx, load, moved, writes, faults>>

\* A transaction with n rows of run i.  That of a trace or a DNS run begins
\* with the UPDATE that closes the run.
Closing == kind \in {"trace", "dns"}

Begin(i, n) ==
    /\ Ready /\ ~tx.open /\ writes < MaxWrites
    /\ Closing /\ i \in DOMAIN runs => runs[i].ended = "no"
    /\ tx' = [open |-> TRUE, id |-> i, of |-> n, done |-> 0,
              runs |-> IF Closing /\ i \in DOMAIN runs
                       THEN [runs EXCEPT ![i].ended = "with_its_rows"] ELSE runs]
    /\ writes' = writes + 1
    /\ UNCHANGED <<kind, file, conn, runs, rows, load, kept, moved, made, faults>>

\* Mutant: the rows are inserted on the pool, not in the transaction.
InsertAtOnce ==
    /\ tx.open /\ tx.done < tx.of /\ tx.id \in DOMAIN runs
    /\ tx' = [tx EXCEPT !.done = @ + 1]
    /\ rows' = rows \cup {[id |-> tx.id, write |-> writes, place |-> tx.done + 1, of |-> tx.of]}
    /\ UNCHANGED <<kind, file, conn, runs, load, kept, moved, made, writes, faults>>

\* One INSERT; without the run it fails, and the transaction with it.
Insert ==
    /\ tx.open /\ tx.done < tx.of /\ tx.id \in DOMAIN runs
    /\ tx' = [tx EXCEPT !.done = @ + 1]
    /\ UNCHANGED <<kind, file, conn, runs, rows, load, kept, moved, made, writes, faults>>

Commit ==
    /\ tx.open /\ tx.done = tx.of
    /\ runs' = tx.runs
    /\ rows' = rows \cup
         {[id |-> tx.id, write |-> writes, place |-> k, of |-> tx.of] : k \in 1..tx.of}
    /\ tx' = NoTx
    /\ UNCHANGED <<kind, file, conn, load, kept, moved, made, writes, faults>>

\* `?` leaves the function and drops the transaction.
Rollback ==
    /\ tx.open
    /\ \/ tx.done < tx.of /\ tx.id \notin DOMAIN runs /\ UNCHANGED faults
       \/ faults < MaxFaults /\ faults' = faults + 1
    /\ tx' = NoTx
    /\ UNCHANGED <<kind, file, conn, runs, rows, load, kept, moved, made, writes>>

InsertProbes(i, n) == kind = "session" /\ Begin(i, n)
InsertScanHosts(i, n) == kind = "scan" /\ Begin(i, n)
AddMtuProbe(i) == kind = "mtu" /\ Begin(i, 1)
CompleteTraceWithHops(i, n) == kind = "trace" /\ Begin(i, n)
FinishDnsRun(i, n) == kind = "dns" /\ Begin(i, n)

\* A single UPDATE; that there is no such row is no error.
End(i) ==
    /\ Ready /\ ~tx.open
    /\ i \in DOMAIN runs => runs[i].ended = "no"
    /\ runs' = IF i \in DOMAIN runs THEN [runs EXCEPT ![i].ended = "by_itself"] ELSE runs
    /\ UNCHANGED <<kind, file, conn, rows, tx, load, kept, moved, made, writes, faults>>

FinishSession(i) == kind = "session" /\ End(i)
FinishMtuRun(i) == kind = "mtu" /\ End(i)
FinishScan(i) == kind = "scan" /\ End(i)
FinishDownload(i) == kind = "download" /\ End(i)

\* ON DELETE CASCADE, with foreign_keys on in every connection of the pool.
Delete(i) ==
    /\ Ready /\ ~tx.open /\ i \in DOMAIN runs
    /\ load.pc = "rows" => DeleteRead
    /\ runs' = [j \in DOMAIN runs \ {i} |-> runs[j]]
    /\ rows' = rows \ RowsOf(i)
    /\ kept' = kept \ {runs[i].owner}
    /\ UNCHANGED <<kind, file, conn, tx, load, moved, made, writes, faults>>

-----------------------------------------------------------------------------
(* Reading *)

\* All runs are listed, with their rows counted, and one is picked or, when it
\* is not there, made up ...
Pick(i) ==
    /\ Ready /\ load.pc = "none"
    /\ load' = [pc |-> "rows", id |-> i,
                owner |-> OwnerOf(i), count |-> Cardinality(RowsOf(i)),
                rows |-> {}, of |-> {}]
    /\ UNCHANGED <<kind, file, conn, runs, rows, tx, kept, moved, made, writes, faults>>

ListSessions(i) == kind = "session" /\ Pick(i)
ListTraces(i) == kind = "trace" /\ Pick(i)
ListMtuRuns(i) == kind = "mtu" /\ Pick(i)
ListDownloads(i) == kind = "download" /\ Pick(i)
LoadScan(i) == kind = "scan" /\ Pick(i)
LoadDnsRun(i) == kind = "dns" /\ Pick(i)

\* ... and its rows are read by a query of their own.
ReadRows ==
    /\ load.pc = "rows"
    /\ load' = [load EXCEPT !.pc = "done", !.rows = RowsOf(load.id),
                            !.of = OwnerOf(load.id)]
    /\ UNCHANGED <<kind, file, conn, runs, rows, tx, kept, moved, made, writes, faults>>

LoadProbes == kind = "session" /\ ReadRows
LoadTraceHops == kind = "trace" /\ ReadRows
LoadMtuProbes == kind = "mtu" /\ ReadRows
LoadDownload == kind = "download" /\ ReadRows
LoadScanHosts == kind = "scan" /\ ReadRows
LoadDnsRunTargets == kind = "dns" /\ ReadRows

Loaded ==
    /\ load.pc = "done" /\ load' = NoLoad
    /\ UNCHANGED <<kind, file, conn, runs, rows, tx, kept, moved, made, writes, faults>>

Ids == 1..MaxRuns

Next ==
    \/ Open \/ Migrate \/ MigrateFails \/ FindDrift \/ MoveAway \/ Crash \/ OtherVersion
    \/ Create
    \/ \E i \in Ids, n \in 0..MaxRows :
          \/ InsertProbes(i, n) \/ InsertScanHosts(i, n)
          \/ CompleteTraceWithHops(i, n) \/ FinishDnsRun(i, n)
    \/ Insert \/ Commit \/ Rollback
    \/ \E i \in Ids :
          \/ AddMtuProbe(i) \/ FinishSession(i) \/ FinishMtuRun(i) \/ FinishScan(i)
          \/ FinishDownload(i) \/ Delete(i)
          \/ ListSessions(i) \/ ListTraces(i) \/ ListMtuRuns(i) \/ ListDownloads(i)
          \/ LoadScan(i) \/ LoadDnsRun(i)
    \/ LoadProbes \/ LoadTraceHops \/ LoadMtuProbes \/ LoadDownload
    \/ LoadScanHosts \/ LoadDnsRunTargets \/ Loaded

Spec == Init /\ [][Next]_vars

-----------------------------------------------------------------------------
(* Properties *)

TypeOK ==
    /\ kind \in Kinds /\ file \in {"absent", "behind", "fits", "drifted"}
    /\ conn \in {"closed", "opened", "moving", "fresh", "ready"}
    /\ DOMAIN runs \subseteq Ids /\ Owners \subseteq Ids
    /\ rows \subseteq [id : Ids, write : 1..MaxWrites, place : 1..MaxRows, of : 1..MaxRows]
    /\ tx.open => tx.done \in 0..tx.of
    /\ load.pc \in {"none", "rows", "done"} /\ kept \subseteq 1..made /\ moved \subseteq 1..made

\* A transaction is there whole or not at all, whatever statement failed and
\* whenever the process ended, and no row is left without its run.
WritesWhole ==
    \A row \in rows :
        /\ row.id \in DOMAIN runs
        /\ {r.place : r \in {x \in rows : x.write = row.write}} = 1..row.of

\* A trace or a DNS run that is closed has its rows with it: its rows are those
\* of one transaction, or of none.
ClosedWithRows ==
    Closing => \A i \in DOMAIN runs : runs[i].ended = "no" => RowsOf(i) = {}

\* What nobody deleted is in the file or in a file that was moved away, also
\* when the process ends between the steps of connect().
NothingLost == kept \subseteq Owners \cup moved

\* A program that runs writes to a file that fits it.
FitsWhenReady == conn = "ready" => file = "fits"

\* What was loaded is of one run, with at least the rows its summary counted.
\* It needs ~DeleteRead: between the two queries the run may be deleted, and its
\* id be given to another.
LoadsOneRun ==
    load.pc = "done" =>
        /\ Cardinality(load.rows) >= load.count
        /\ load.owner # {} => load.of = load.owner
=============================================================================
