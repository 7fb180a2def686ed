------------------------------ MODULE SpeedTests ------------------------------
(***************************************************************************)
(* Downloads, page speed tests and web benchmarks: src-tauri/src/          *)
(* download.rs, page_speed.rs, bench.rs, and the history that              *)
(* download_manager.rs keeps of them.  The view runs a test and, if it     *)
(* gave a result, asks for that result to be saved.                        *)
(*                                                                         *)
(* A request is abstracted to how it ends; times, sizes and headers are    *)
(* left out.                                                               *)
(***************************************************************************)
EXTENDS Integers, Sequences, FiniteSets

CONSTANTS
    Tests,        \* commands of the view
    MaxItems,     \* bound on the chunks of a file and the resources of a page
    PageSlots,    \* MAX_CONCURRENT of page_speed.rs
    MaxRuns,      \* bound on a benchmark's runs
    LoadSlots,    \* bound on its concurrency level
    LoadFactor,   \* requests per level (10 in the code)
    MaxDbErrors,  \* bound on failing database calls
    DeleteBusy    \* may the user delete a row that is being saved: a view that
                  \* was left and opened again does not know of its test

VARIABLES
    test,    \* per test: its command
    runs,    \* per test: what its benchmark measured so far
    rows,    \* download_speed_sessions table: id -> owner, status
    dbErrors

vars == <<test, runs, rows, dbErrors>>

\* waiting, flying: requests to start, and started; ok, failed: how they ended;
\* total: how many there are; shown: the last progress event's count.
Idle == [pc |-> "idle", mode |-> "none", id |-> 0, waiting |-> 0, flying |-> 0,
         slots |-> 0, ok |-> 0, failed |-> 0, total |-> 0, shown |-> 0]

\* version: of the protocol under test; client: "cold", "warm", or "none" when
\* none could be built; want: runs asked for; load: concurrency level, or 0.
Plan == [version : {"auto", "http3"}, mode : {"cold", "warm"}, want : 1..MaxRuns,
         load : 0..LoadSlots]

\* done: the runs of the protocol, one record each.
NoRuns == [plan |-> CHOOSE p \in Plan : TRUE, client |-> "cold", done |-> <<>>]

Init ==
    /\ test = [t \in Tests |-> Idle]
    /\ runs = [t \in Tests |-> NoRuns]
    /\ rows = [i \in {} |-> Idle]
    /\ dbErrors = 0

ids == DOMAIN rows
NextId == 1 + (CHOOSE m \in ids \cup {0} : \A i \in ids : i <= m)

Update(t, to) == test' = [test EXCEPT ![t] = to]

DbError == dbErrors < MaxDbErrors /\ dbErrors' = dbErrors + 1

Start(t, mode, pc) ==
    /\ test[t].pc = "idle"
    /\ Update(t, [test[t] EXCEPT !.mode = mode, !.pc = pc])
    /\ UNCHANGED <<runs, rows, dbErrors>>

-----------------------------------------------------------------------------
(* A single file                                                           *)

\* run_download_speed_test: a bad URL, a failing lookup or request is an error.
StartFile(t) == \E pc \in {"error", "reading"} : Start(t, "single", pc)

\* The stream breaks, or gives a chunk (shown if 100 ms have passed since the
\* last event), or ends; then the whole is shown.
Read(t) ==
    /\ test[t].pc = "reading"
    /\ \/ Update(t, [test[t] EXCEPT !.pc = "error"])
       \/ /\ test[t].ok < MaxItems
          /\ \E shown \in {test[t].shown, test[t].ok + 1} :
               Update(t, [test[t] EXCEPT !.ok = @ + 1, !.shown = shown])
       \/ Update(t, [test[t] EXCEPT !.pc = "save", !.total = test[t].ok,
                                   !.shown = test[t].ok])
    /\ UNCHANGED <<runs, rows, dbErrors>>

-----------------------------------------------------------------------------
(* A page                                                                  *)

StartPage(t) == \E pc \in {"error", "document"} : Start(t, "page", pc)

\* run_page_speed_test: without a document the result is one failed resource
\* (and no event); with one it is shown, and its resources are to be fetched.
Document(t) ==
    /\ test[t].pc = "document"
    /\ \/ Update(t, [test[t] EXCEPT !.pc = "save", !.total = 1, !.failed = 1])
       \/ \E found \in 0..MaxItems :
            Update(t, [test[t] EXCEPT !.pc = "fetching", !.total = found + 1,
                                      !.waiting = found, !.ok = 1, !.shown = 1,
                                      !.slots = PageSlots])
    /\ UNCHANGED <<runs, rows, dbErrors>>

\* Mutant: every resource is fetched at once.
SendUnbounded(t) ==
    /\ test[t].pc \in {"fetching", "loading"} /\ test[t].waiting > 0
    /\ Update(t, [test[t] EXCEPT !.waiting = @ - 1, !.flying = @ + 1])
    /\ UNCHANGED <<runs, rows, dbErrors>>

\* buffer_unordered tops up its set.
Send(t) ==
    /\ test[t].pc \in {"fetching", "loading"} /\ test[t].waiting > 0
    /\ test[t].flying < test[t].slots
    /\ Update(t, [test[t] EXCEPT !.waiting = @ - 1, !.flying = @ + 1])
    /\ UNCHANGED <<runs, rows, dbErrors>>

Completed(t) == test[t].ok + test[t].failed

\* A request that ended is counted as good or as failed.
Ended(t, good) ==
    IF good THEN [test[t] EXCEPT !.flying = @ - 1, !.ok = @ + 1]
    ELSE [test[t] EXCEPT !.flying = @ - 1, !.failed = @ + 1]

\* fetch_page_resource ends: counted as good or (no answer, a broken stream, a
\* status of 400 or more) failed; shown if 100 ms have passed or it is the last.
Fetched(t) ==
    /\ test[t].pc = "fetching" /\ test[t].flying > 0
    /\ \E shown \in {test[t].shown, Completed(t) + 1}, good \in BOOLEAN :
         /\ Completed(t) + 1 = test[t].total => shown = test[t].total
         /\ Update(t, [Ended(t, good) EXCEPT !.shown = shown])
    /\ UNCHANGED <<runs, rows, dbErrors>>

\* The pool is empty: the result is complete.
Drained(t) ==
    /\ test[t].pc \in {"fetching", "loading"} /\ test[t].waiting = 0 /\ test[t].flying = 0
    /\ Update(t, [test[t] EXCEPT !.pc = "save"])
    /\ UNCHANGED <<runs, rows, dbErrors>>

-----------------------------------------------------------------------------
(* A web benchmark (of one protocol; several run one after the other)      *)

\* A bad URL is an error; the plan is sanitized.
StartBenchmark(t) ==
    /\ test[t].pc = "idle"
    /\ \/ /\ Update(t, [test[t] EXCEPT !.mode = "benchmark", !.pc = "error"])
          /\ UNCHANGED runs
       \/ \E plan \in Plan :
            /\ Update(t, [test[t] EXCEPT !.mode = "benchmark", !.pc = "resolve"])
            /\ runs' = [runs EXCEPT ![t] = [plan |-> plan, client |-> plan.mode, done |-> <<>>]]
    /\ UNCHANGED <<rows, dbErrors>>

Run(success, warmup) == [success |-> success, warmup |-> warmup]

\* run_protocol_benchmark: a host that does not resolve is one failed run; in
\* warm mode a client that cannot be built is as many failed runs as there
\* would have been requests, the warmup among them.
Resolve(t) ==
    /\ test[t].pc = "resolve"
    /\ \/ /\ runs' = [runs EXCEPT ![t].done = <<Run(FALSE, FALSE)>>]
          /\ Update(t, [test[t] EXCEPT !.pc = "load"])
       \/ Update(t, [test[t] EXCEPT !.pc = "measure"]) /\ UNCHANGED runs
       \/ /\ runs[t].plan.mode = "warm"
          /\ runs' = [runs EXCEPT ![t].done =
                         [i \in 1..(runs[t].plan.want + 1) |-> Run(FALSE, FALSE)]]
          /\ Update(t, [test[t] EXCEPT !.pc = "load"])
    /\ UNCHANGED <<rows, dbErrors>>

Requests(t) == runs[t].plan.want + IF runs[t].plan.mode = "warm" THEN 1 ELSE 0

\* The first request of a warm benchmark.
IsWarmup(t) == runs[t].plan.mode = "warm" /\ runs[t].done = <<>>

\* with_error: no response, or none was asked for.
Unanswered(t) == Run(FALSE, IsWarmup(t))

\* finish_response: a run succeeds when its whole body was read, whatever the
\* status code says.
Answers(t) == {Run(whole, IsWarmup(t)) : whole \in BOOLEAN}

\* run_single_request: a client per run, and HTTP/3 is refused before anything
\* is asked.
ColdRuns(t) ==
    {Unanswered(t)} \cup (IF runs[t].plan.version = "http3" THEN {} ELSE Answers(t))

\* run_single_warm_request asks with whatever client it was given.
WarmRuns(t) == {Unanswered(t)} \cup Answers(t)

\* run_protocol_benchmark: the runs one after the other.
Measure(t) ==
    /\ test[t].pc = "measure"
    /\ IF Len(runs[t].done) = Requests(t)
       THEN Update(t, [test[t] EXCEPT !.pc = "load"]) /\ UNCHANGED runs
       ELSE /\ \E run \in IF runs[t].plan.mode = "cold" THEN ColdRuns(t) ELSE WarmRuns(t) :
                 runs' = [runs EXCEPT ![t].done = Append(@, run)]
            /\ UNCHANGED test
    /\ UNCHANGED <<rows, dbErrors>>

\* run_concurrency_benchmark: LoadFactor requests per level, level at a time;
\* an error (HTTP/3 in the settings, no address, no client) is kept beside the
\* result of the runs.
Load(t) ==
    /\ test[t].pc = "load"
    /\ \/ Update(t, [test[t] EXCEPT !.pc = "save"])
       \/ /\ runs[t].plan.load > 0
          /\ LET n == LoadFactor * runs[t].plan.load IN
                Update(t, [test[t] EXCEPT !.pc = "loading", !.total = n, !.waiting = n,
                                          !.slots = runs[t].plan.load])
    /\ UNCHANGED <<runs, rows, dbErrors>>

\* One of its requests ends.
Loaded(t) ==
    /\ test[t].pc = "loading" /\ test[t].flying > 0
    /\ \E good \in BOOLEAN : Update(t, Ended(t, good))
    /\ UNCHANGED <<runs, rows, dbErrors>>

\* summarize_protocol_runs: warmups are in neither count.
Chosen(t, success) ==
    {i \in DOMAIN runs[t].done :
        runs[t].done[i].success = success /\ ~runs[t].done[i].warmup}
Summary(t) == [successful |-> Cardinality(Chosen(t, TRUE)),
               failed |-> Cardinality(Chosen(t, FALSE))]

-----------------------------------------------------------------------------
(* History: save_session is create, finish, and a look at the list         *)

CreateRow(t) ==
    /\ test[t].pc = "save"
    /\ \/ /\ rows' = [i \in ids \cup {NextId} |->
                         IF i = NextId THEN [owner |-> t, status |-> "running"] ELSE rows[i]]
          /\ Update(t, [test[t] EXCEPT !.pc = "finish", !.id = NextId])
          /\ UNCHANGED dbErrors
       \/ DbError /\ Update(t, [test[t] EXCEPT !.pc = "unsaved"]) /\ UNCHANGED rows
    /\ UNCHANGED runs

FinishRow(t) ==
    /\ test[t].pc = "finish"
    /\ \/ /\ rows' = [i \in ids |-> IF i = test[t].id
                                    THEN [rows[i] EXCEPT !.status = "completed"] ELSE rows[i]]
          /\ Update(t, [test[t] EXCEPT !.pc = "summary"])
          /\ UNCHANGED dbErrors
       \/ DbError /\ Update(t, [test[t] EXCEPT !.pc = "unsaved"]) /\ UNCHANGED rows
    /\ UNCHANGED runs

\* Mutant: the summary is made from the request.
SummarizeBlindly(t) ==
    /\ test[t].pc = "summary"
    /\ Update(t, [test[t] EXCEPT !.pc = "saved"])
    /\ UNCHANGED <<runs, rows, dbErrors>>

\* load_session_summary: SessionNotFound if the row was deleted meanwhile.
Summarize(t) ==
    /\ test[t].pc = "summary"
    /\ Update(t, [test[t] EXCEPT !.pc = IF test[t].id \in ids THEN "saved" ELSE "unsaved"])
    /\ UNCHANGED <<runs, rows, dbErrors>>

\* delete_session: the view refuses while its own test runs.
Delete(i) ==
    /\ i \in ids
    /\ DeleteBusy \/ test[rows[i].owner].pc \in {"saved", "unsaved"}
    /\ rows' = [k \in ids \ {i} |-> rows[k]]
    /\ UNCHANGED <<test, runs, dbErrors>>

Step(t) ==
    \/ Read(t) \/ Document(t) \/ Send(t) \/ Fetched(t) \/ Drained(t)
    \/ Resolve(t) \/ Measure(t) \/ Load(t) \/ Loaded(t)
    \/ CreateRow(t) \/ FinishRow(t) \/ Summarize(t)

Next ==
    \/ \E t \in Tests : StartFile(t) \/ StartPage(t) \/ StartBenchmark(t) \/ Step(t)
    \/ \E i \in ids : Delete(i)

\* Requests have timeouts, and a command's future is polled.
Fairness == \A t \in Tests : WF_vars(Step(t))

Spec == Init /\ [][Next]_vars /\ Fairness

-----------------------------------------------------------------------------
(* Properties.                                                             *)

HasResult(t) == test[t].pc \in {"save", "finish", "summary", "saved", "unsaved"}

\* Type invariant: no pool has more requests under way than it may.
TypeOK ==
    \A t \in Tests :
        /\ test[t].pc \in {"idle", "error", "reading", "document", "fetching", "resolve",
                           "measure", "load", "loading", "save", "finish", "summary",
                           "saved", "unsaved"}
        /\ test[t].flying \in 0..test[t].slots
        /\ Len(runs[t].done) <= MaxRuns + 1

\* Every resource of a page and every request of a load test is counted once,
\* as good or as failed.
CountsAddUp == \A t \in Tests : HasResult(t) => Completed(t) = test[t].total

\* The last progress event of a file or a page shows all of it (a page whose
\* document failed shows nothing).
LastEventWhole ==
    \A t \in Tests :
        HasResult(t) /\ test[t].mode # "benchmark" =>
            test[t].shown = test[t].total \/ (test[t].mode = "page" /\ test[t].ok = 0)

\* Of a benchmark whose requests were made, the summary counts the runs that
\* were asked for: the warmup is in neither count.
SummaryExact ==
    \A t \in Tests :
        HasResult(t) /\ Len(runs[t].done) = Requests(t) /\ (\E i \in DOMAIN runs[t].done :
                                                             runs[t].done[i].success) =>
            Summary(t).successful + Summary(t).failed = runs[t].plan.want

\* What a test is told to have saved is its own row, and that row is complete.
\* (With DeleteBusy this holds for one test at a time: the id of a deleted row
\* may be given to the next test.)
SavedIsOwn ==
    [][\A t \in Tests :
          test[t].pc # "saved" /\ test'[t].pc = "saved" =>
              /\ test'[t].id \in ids
              /\ rows[test'[t].id] = [owner |-> t, status |-> "completed"]]_vars

\* A test that began gives a result or an error.
TestsEnd ==
    \A t \in Tests :
        test[t].pc # "idle" ~> test[t].pc \in {"error", "saved", "unsaved"}
=============================================================================
