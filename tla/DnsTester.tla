------------------------------ MODULE DnsTester ------------------------------
(***************************************************************************)
(* The DNS tester: DnsManager (src-tauri/src/dns/manager.rs), the          *)
(* benchmark scheduler (dns/bench/) and the dns_runs and dns_run_targets   *)
(* tables.                                                                 *)
(*                                                                         *)
(* Jobs run side by side: nothing forbids two.  A lookup asks for several  *)
(* record types at once and is written to the history when it is over; a   *)
(* diagnostics report likewise; a benchmark has its row before its first   *)
(* query.  An answer's content is abstracted to answered or failed.        *)
(***************************************************************************)
EXTENDS Integers

CONSTANTS
    Jobs,        \* commands: one lookup, report or benchmark each
    MaxTypes,    \* bound on the record types of a lookup
    LookupSlots, \* permits of the lookup's semaphore (8 in the code)
    MaxQueries,  \* bound on the queries of a benchmark
    SampleCap,   \* sample_cap
    MaxDbErrors, \* bound on failing database calls
    DeleteBusy   \* may the user delete the row of a benchmark that still runs;
                 \* neither delete_dns_run nor the history tab refuses it

VARIABLES
    job,     \* per job: its command
    rows,    \* dns_runs table: id -> owner, kind, status
    targets, \* dns_run_targets table: id (run_id), owner, key
    dbErrors

vars == <<job, rows, targets, dbErrors>>

\* waiting, flying: queries not yet asked, and asked; ok, failed: results so
\* far; events: results shown; slots: how many may fly; samples: kept results.
Idle == [pc |-> "idle", kind |-> "none", id |-> 0, waiting |-> 0, flying |-> 0,
         ok |-> 0, failed |-> 0, events |-> 0, total |-> 0, slots |-> 0, samples |-> 0]

Init ==
    /\ job = [j \in Jobs |-> Idle]
    /\ rows = [i \in {} |-> Idle]
    /\ targets = {}
    /\ dbErrors = 0

ids == DOMAIN rows
NextId == 1 + (CHOOSE m \in ids \cup {0} : \A i \in ids : i <= m)

Goes(j, pc) == job' = [job EXCEPT ![j].pc = pc]

DbError == dbErrors < MaxDbErrors /\ dbErrors' = dbErrors + 1

Smaller(a, b) == IF a < b THEN a ELSE b

-----------------------------------------------------------------------------
(* Commands                                                                *)

\* run_dns_lookup: no record type is an error; a type that does not parse is a
\* failed event at once; the others are queued behind the semaphore.
StartLookup(j) ==
    /\ job[j].pc = "idle"
    /\ \E good, bad \in 0..MaxTypes :
         /\ good + bad <= MaxTypes
         /\ job' = [job EXCEPT ![j] =
                IF good + bad = 0 THEN [@ EXCEPT !.pc = "error", !.kind = "lookup"]
                ELSE [@ EXCEPT !.pc = "asking", !.kind = "lookup", !.total = good + bad,
                               !.waiting = good, !.failed = bad, !.events = bad,
                               !.slots = LookupSlots]]
    /\ UNCHANGED <<rows, targets, dbErrors>>

\* run_diagnostics fails, or its report goes to persist_diagnostics.
StartDiagnostics(j) ==
    /\ job[j].pc = "idle"
    /\ \E pc \in {"error", "create"} :
         job' = [job EXCEPT ![j].pc = pc, ![j].kind = "diagnostics"]
    /\ UNCHANGED <<rows, targets, dbErrors>>

\* run_benchmark: the scheduler's concurrency and the number of queries come
\* from the profile, where either may be 0.
StartBenchmark(j) ==
    /\ job[j].pc = "idle"
    /\ \E n \in 0..MaxQueries, c \in 0..2 :
         job' = [job EXCEPT ![j] = [@ EXCEPT !.pc = "create", !.kind = "benchmark",
                                             !.total = n, !.waiting = n, !.slots = c]]
    /\ UNCHANGED <<rows, targets, dbErrors>>

\* delete_dns_run: the targets go with their run.
Delete(i) ==
    /\ i \in ids
    /\ DeleteBusy \/ \A j \in Jobs : job[j].id = i => job[j].pc \in {"done", "error"}
    /\ rows' = [k \in ids \ {i} |-> rows[k]]
    /\ targets' = {t \in targets : t.id # i}
    /\ UNCHANGED <<job, dbErrors>>

-----------------------------------------------------------------------------
(* Queries                                                                 *)

\* A lookup's query gets its permit, or the scheduler tops up its in_flight set.
Ask(j) ==
    /\ job[j].pc = "asking" /\ job[j].waiting > 0 /\ job[j].flying < job[j].slots
    /\ job' = [job EXCEPT ![j].waiting = @ - 1, ![j].flying = @ + 1]
    /\ UNCHANGED <<rows, targets, dbErrors>>

\* query_once ends: one event (of a benchmark, a sample; the oldest one makes
\* room when the ring is full).
Answer(j) ==
    /\ job[j].pc = "asking" /\ job[j].flying > 0
    /\ \E good \in BOOLEAN :
         job' = [job EXCEPT ![j].flying = @ - 1, ![j].events = @ + 1,
                            ![j].ok = IF good THEN @ + 1 ELSE @,
                            ![j].failed = IF good THEN @ ELSE @ + 1,
                            ![j].samples = Smaller(SampleCap, @ + 1)]
    /\ UNCHANGED <<rows, targets, dbErrors>>

\* Nothing flies and nothing is left to start: a lookup is now written to the
\* history, a benchmark's row is closed.  Without slots a benchmark never starts
\* a query.
Answered(j) ==
    /\ job[j].pc = "asking" /\ job[j].flying = 0
    /\ job[j].waiting = 0 \/ (job[j].kind = "benchmark" /\ job[j].slots = 0)
    /\ Goes(j, IF job[j].kind = "lookup" THEN "create" ELSE "finish")
    /\ UNCHANGED <<rows, targets, dbErrors>>

-----------------------------------------------------------------------------
(* History                                                                 *)

\* A failing history write is a benchmark's failure and nobody else's.
Lost(j) == IF job[j].kind = "benchmark" THEN "error" ELSE "done"

\* create_dns_run
CreateRow(j) ==
    /\ job[j].pc = "create"
    /\ \/ /\ rows' = [i \in ids \cup {NextId} |->
                       IF i \in ids THEN rows[i]
                       ELSE [owner |-> j, kind |-> job[j].kind, status |-> "running"]]
          /\ job' = [job EXCEPT ![j].id = NextId,
                       ![j].pc = IF job[j].kind = "benchmark" THEN "asking" ELSE "finish"]
          /\ UNCHANGED dbErrors
       \/ DbError /\ Goes(j, Lost(j)) /\ UNCHANGED rows
    /\ UNCHANGED targets

Verdict(j) == IF job[j].kind = "lookup" /\ job[j].failed > 0 THEN "partial" ELSE "completed"

\* One row per record type, none for a report, one for a benchmark.
NewTargets(j) ==
    LET keys == CASE job[j].kind = "lookup" -> 1..job[j].events
                  [] job[j].kind = "benchmark" -> {1}
                  [] OTHER -> {}
    IN {[id |-> job[j].id, owner |-> j, key |-> k] : k \in keys}

\* Mutant: the verdict is written before the targets, outside the transaction.
FinishRowTwice(j) ==
    /\ job[j].pc = "finish"
    /\ \/ /\ NewTargets(j) = {} \/ job[j].id \in ids
          /\ targets' = targets \cup NewTargets(j)
          /\ Goes(j, "done")
          /\ UNCHANGED dbErrors
       \/ DbError /\ Goes(j, Lost(j)) /\ UNCHANGED targets
    /\ rows' = [i \in ids |-> IF i = job[j].id THEN [rows[i] EXCEPT !.status = Verdict(j)]
                              ELSE rows[i]]

\* finish_dns_run: verdict and targets in one transaction, which fails if there
\* are targets and the run is gone.
FinishRow(j) ==
    /\ job[j].pc = "finish"
    /\ \/ /\ NewTargets(j) = {} \/ job[j].id \in ids
          /\ rows' = [i \in ids |-> IF i = job[j].id
                                    THEN [rows[i] EXCEPT !.status = Verdict(j)] ELSE rows[i]]
          /\ targets' = targets \cup NewTargets(j)
          /\ Goes(j, "done")
          /\ UNCHANGED dbErrors
       \/ /\ NewTargets(j) # {} /\ job[j].id \notin ids
          /\ Goes(j, Lost(j))
          /\ UNCHANGED <<rows, targets, dbErrors>>
       \/ DbError /\ Goes(j, Lost(j)) /\ UNCHANGED <<rows, targets>>

Step(j) == Ask(j) \/ Answer(j) \/ Answered(j) \/ CreateRow(j) \/ FinishRow(j)

Next ==
    \/ \E j \in Jobs : StartLookup(j) \/ StartDiagnostics(j) \/ StartBenchmark(j) \/ Step(j)
    \/ \E i \in ids : Delete(i)

\* Every query has a timeout, and a command's future is polled.
Fairness == \A j \in Jobs : WF_vars(Step(j))

Spec == Init /\ [][Next]_vars /\ Fairness

-----------------------------------------------------------------------------
(* Properties.                                                             *)

TypeOK ==
    /\ \A j \in Jobs :
         /\ job[j].pc \in {"idle", "asking", "create", "finish", "done", "error"}
         /\ job[j].flying \in 0..job[j].slots
         /\ job[j].samples \in 0..SampleCap
    /\ \A t \in targets : t.id \in ids

\* A lookup that is over gave every requested type exactly one result, and a
\* benchmark that has slots at all asked every query it was to ask.
EveryQueryAnswered ==
    \A j \in Jobs :
        job[j].pc \in {"finish", "done"} /\ job[j].kind # "diagnostics" /\ job[j].slots > 0 =>
            job[j].ok + job[j].failed = job[j].total /\ job[j].events = job[j].total

\* The history is all or nothing: a run that is no longer "running" shows the
\* targets of the command that created it, all of them and nobody else's, and
\* its verdict is that command's.
HistoryWhole ==
    \A i \in ids :
        LET j == rows[i].owner IN
        IF rows[i].status = "running" THEN \A t \in targets : t.id # i
        ELSE /\ {t \in targets : t.id = i} = NewTargets(j)
             /\ rows[i].status = Verdict(j)

\* "A history write must never fail the lookup itself" (manager.rs:212), nor a
\* report: only a benchmark, whose result is then lost, fails with the history.
HistoryNeverCosts ==
    \A j \in Jobs :
        job[j].pc = "error" =>
            job[j].kind = "benchmark" \/ (job[j].id = 0 /\ job[j].events = 0)

\* A command that began ends.
CommandsEnd ==
    \A j \in Jobs : job[j].pc \in {"asking", "create", "finish"} ~> job[j].pc \in {"done", "error"}
=============================================================================
