---------------------------- MODULE PingSession ----------------------------
(***************************************************************************)
(* Ping sessions: SessionManager, the probe loop and the write-behind      *)
(* consumer of src-tauri/src/session.rs and engine/mod.rs, over the        *)
(* sessions and probes tables of db.rs.                                    *)
(*                                                                         *)
(* A run is one call of start() that got past engine selection.  It owns a *)
(* row of the sessions table, an entry in the manager's map of active      *)
(* sessions, a watch channel that tells its loop to stop, a bounded        *)
(* channel from the loop to the consumer, and the consumer's batch.  Each  *)
(* await point of the code is a point where other runs, the history view   *)
(* (delete_session) and a crash of the process interleave.                 *)
(*                                                                         *)
(* Row ids are SQLite rowids: INTEGER PRIMARY KEY without AUTOINCREMENT    *)
(* hands out one more than the largest id in the table, so the id of a     *)
(* deleted newest row is given to the next session.                        *)
(***************************************************************************)
EXTENDS Integers, Sequences, FiniteSets, TLC

CONSTANTS
    Runs,        \* start() calls
    ChannelCap,  \* PROBE_CHANNEL_CAPACITY
    FlushBatch,  \* FLUSH_BATCH_SIZE
    MaxProbes,   \* bound on the probes of a run
    MaxDbErrors, \* bound on failing database calls
    MaxCrashes,  \* bound on crashes of the process
    DeleteLive   \* may the history delete the row of a session still running

ASSUME SessionAssumption ==
    /\ IsFiniteSet(Runs)
    /\ ChannelCap \in Nat \ {0}
    /\ FlushBatch \in Nat \ {0}
    /\ MaxProbes \in Nat /\ MaxDbErrors \in Nat /\ MaxCrashes \in Nat
    /\ DeleteLive \in BOOLEAN

VARIABLES
    stage,    \* per run: where start() and stop() are
    sid,      \* per run: its session_id, 0 before the row exists
    active,   \* the runs whose ActiveSession is in Inner.active, under their sid
    watch,    \* per run: the stop channel: "live", "stop" (true sent), "dropped"
    loopPc,   \* per run: run_probe_loop
    seq,      \* per run: the loop's seq
    chan,     \* per run: the mpsc channel of probes
    consPc,   \* per run: consume_probes
    batch,    \* per run: the write-behind batch
    fed,      \* per run: probes fed to the StatsEngine
    rows,     \* sessions table: ids
    ended,    \* sessions table: ids whose ended_at is set
    probes,   \* probes table: id (session_id), seq, and the run it came from
    dropped,  \* history, per run: probes of batches that failed to persist
    forgotten,\* history: runs whose row was deleted
    dbErrors, crashes

db == <<rows, ended, probes>>
history == <<dropped, forgotten>>
tasks == <<loopPc, seq, chan, consPc, batch, fed>>
vars == <<stage, sid, active, watch, tasks, db, history, dbErrors, crashes>>

Entries(s) == {s[i] : i \in DOMAIN s}

\* Runs whose tasks may be running.
Running(r) == stage[r] \in {"live", "stopping", "joined", "displaced"}

\* The rowid SQLite gives to the next row.
NextId == 1 + (CHOOSE m \in rows \cup {0} : \A i \in rows : i <= m)

Init ==
    /\ stage = [r \in Runs |-> "idle"]
    /\ sid = [r \in Runs |-> 0]
    /\ active = {}
    /\ watch = [r \in Runs |-> "live"]
    /\ loopPc = [r \in Runs |-> "off"]
    /\ seq = [r \in Runs |-> 0]
    /\ chan = [r \in Runs |-> <<>>]
    /\ consPc = [r \in Runs |-> "off"]
    /\ batch = [r \in Runs |-> <<>>]
    /\ fed = [r \in Runs |-> 0]
    /\ rows = {} /\ ended = {} /\ probes = {}
    /\ dropped = [r \in Runs |-> {}]
    /\ forgotten = {}
    /\ dbErrors = 0 /\ crashes = 0

-----------------------------------------------------------------------------
(* start(): the row is inserted, and some time later the tasks are spawned *)
(* and the session enters the map.                                         *)

\* create_session
StartCreate(r) ==
    /\ stage[r] = "idle"
    /\ stage' = [stage EXCEPT ![r] = "created"]
    /\ sid' = [sid EXCEPT ![r] = NextId]
    /\ rows' = rows \cup {NextId}
    /\ UNCHANGED <<active, watch, tasks, ended, probes, dropped, forgotten,
                   dbErrors, crashes>>

\* create_session failed: nothing was started.
StartFails(r) ==
    /\ stage[r] = "idle"
    /\ dbErrors < MaxDbErrors
    /\ dbErrors' = dbErrors + 1
    /\ stage' = [stage EXCEPT ![r] = "failed"]
    /\ UNCHANGED <<sid, active, watch, tasks, db, history, crashes>>

\* Spawn the loop and the consumer, then insert into the map.  The entry an
\* insert replaces is dropped: its watch sender goes away and its tasks are
\* detached, not stopped.
StartRegister(r) ==
    /\ stage[r] = "created"
    /\ LET old == {q \in active : sid[q] = sid[r]} IN
         /\ active' = (active \ old) \cup {r}
         /\ stage' = [q \in Runs |-> IF q = r THEN "live"
                                     ELSE IF q \in old THEN "displaced" ELSE stage[q]]
         /\ watch' = [q \in Runs |-> IF q \in old THEN "dropped" ELSE watch[q]]
    /\ loopPc' = [loopPc EXCEPT ![r] = "check"]
    /\ consPc' = [consPc EXCEPT ![r] = "recv"]
    /\ UNCHANGED <<sid, seq, chan, batch, fed, db, history, dbErrors, crashes>>

-----------------------------------------------------------------------------
(* run_probe_loop                                                          *)

\* Top of the loop: leave if stop was requested, else send the next echo.
LoopCheck(r) ==
    /\ loopPc[r] = "check"
    /\ \/ watch[r] = "stop" /\ loopPc' = [loopPc EXCEPT ![r] = "ended"] /\ UNCHANGED seq
       \/ /\ watch[r] # "stop"
          /\ seq[r] < MaxProbes
          /\ loopPc' = [loopPc EXCEPT ![r] = "probe"]
          /\ seq' = [seq EXCEPT ![r] = @ + 1]
    /\ UNCHANGED <<stage, sid, active, watch, chan, consPc, batch, fed, db,
                   history, dbErrors, crashes>>

\* Mutant: the channel is unbounded.
LoopSendUnbounded(r) ==
    /\ loopPc[r] = "probe"
    /\ chan' = [chan EXCEPT ![r] = Append(@, seq[r])]
    /\ loopPc' = [loopPc EXCEPT ![r] = "wait"]
    /\ UNCHANGED <<stage, sid, active, watch, seq, consPc, batch, fed, db,
                   history, dbErrors, crashes>>

\* The probe came back and there is room for it in the channel.
LoopSend(r) ==
    /\ loopPc[r] = "probe"
    /\ Len(chan[r]) < ChannelCap
    /\ chan' = [chan EXCEPT ![r] = Append(@, seq[r])]
    /\ loopPc' = [loopPc EXCEPT ![r] = "wait"]
    /\ UNCHANGED <<stage, sid, active, watch, seq, consPc, batch, fed, db,
                   history, dbErrors, crashes>>

\* Between two probes: the interval passes, or the watch channel changes.  A
\* dropped sender makes changed() return at once without a stop request.
LoopWake(r) ==
    /\ loopPc[r] = "wait"
    /\ loopPc' = [loopPc EXCEPT ![r] = IF watch[r] = "stop" THEN "ended" ELSE "check"]
    /\ UNCHANGED <<stage, sid, active, watch, seq, chan, consPc, batch, fed, db,
                   history, dbErrors, crashes>>

LoopStep(r) == LoopCheck(r) \/ LoopSend(r) \/ LoopWake(r)

-----------------------------------------------------------------------------
(* consume_probes and flush_batch                                          *)

\* A probe is fed to the statistics, shown, and put into the batch, which is
\* flushed when it is full.
ConsumerRecv(r) ==
    /\ consPc[r] = "recv"
    /\ chan[r] # <<>>
    /\ chan' = [chan EXCEPT ![r] = Tail(@)]
    /\ fed' = [fed EXCEPT ![r] = @ + 1]
    /\ batch' = [batch EXCEPT ![r] = Append(@, Head(chan[r]))]
    /\ consPc' = [consPc EXCEPT ![r] =
                    IF Len(batch[r]) + 1 >= FlushBatch THEN "flush" ELSE "recv"]
    /\ UNCHANGED <<stage, sid, active, watch, loopPc, seq, db, history,
                   dbErrors, crashes>>

\* The ticker flushes what there is.
ConsumerTick(r) ==
    /\ consPc[r] = "recv"
    /\ batch[r] # <<>>
    /\ consPc' = [consPc EXCEPT ![r] = "flush"]
    /\ UNCHANGED <<stage, sid, active, watch, loopPc, seq, chan, batch, fed, db,
                   history, dbErrors, crashes>>

\* Mutant: the consumer ends without the final flush.
ConsumerClosedUnflushed(r) ==
    /\ consPc[r] = "recv"
    /\ chan[r] = <<>> /\ loopPc[r] = "ended"
    /\ consPc' = [consPc EXCEPT ![r] = "ended"]
    /\ UNCHANGED <<stage, sid, active, watch, loopPc, seq, chan, batch, fed, db,
                   history, dbErrors, crashes>>

\* Mutant: what is still in the channel when the loop ends is not received.
ConsumerClosedEarly(r) ==
    /\ consPc[r] = "recv"
    /\ loopPc[r] = "ended"
    /\ consPc' = [consPc EXCEPT ![r] = IF batch[r] = <<>> THEN "ended" ELSE "final"]
    /\ UNCHANGED <<stage, sid, active, watch, loopPc, seq, chan, batch, fed, db,
                   history, dbErrors, crashes>>

\* The loop is gone and the channel empty: one last flush.
ConsumerClosed(r) ==
    /\ consPc[r] = "recv"
    /\ chan[r] = <<>> /\ loopPc[r] = "ended"
    /\ consPc' = [consPc EXCEPT ![r] = IF batch[r] = <<>> THEN "ended" ELSE "final"]
    /\ UNCHANGED <<stage, sid, active, watch, loopPc, seq, chan, batch, fed, db,
                   history, dbErrors, crashes>>

AfterFlush(r) ==
    /\ consPc' = [consPc EXCEPT ![r] = IF @ = "final" THEN "ended" ELSE "recv"]
    /\ UNCHANGED <<stage, sid, active, watch, loopPc, seq, chan, fed, rows, ended,
                   forgotten, crashes>>

\* insert_probes_batch commits the whole batch; its foreign key needs the row.
FlushOk(r) ==
    /\ consPc[r] \in {"flush", "final"}
    /\ sid[r] \in rows
    /\ probes' = probes \cup {[id |-> sid[r], run |-> r, seq |-> s] : s \in Entries(batch[r])}
    /\ batch' = [batch EXCEPT ![r] = <<>>]
    /\ AfterFlush(r)
    /\ UNCHANGED <<dropped, dbErrors>>

\* A failed batch is reported as an Error status and dropped.
FlushFails(r) ==
    /\ consPc[r] \in {"flush", "final"}
    /\ \/ sid[r] \notin rows /\ UNCHANGED dbErrors
       \/ /\ sid[r] \in rows /\ dbErrors < MaxDbErrors
          /\ dbErrors' = dbErrors + 1
    /\ dropped' = [dropped EXCEPT ![r] = @ \cup Entries(batch[r])]
    /\ batch' = [batch EXCEPT ![r] = <<>>]
    /\ AfterFlush(r)
    /\ UNCHANGED probes

ConsumerStep(r) ==
    \/ ConsumerRecv(r) \/ ConsumerClosed(r)
    \/ FlushOk(r) \/ FlushFails(r)

-----------------------------------------------------------------------------
(* stop(), delete_session and the end of the process                       *)

\* stop(session_id): take the entry out of the map and raise the stop flag.
Stop(r) ==
    /\ r \in active
    /\ active' = active \ {r}
    /\ watch' = [watch EXCEPT ![r] = "stop"]
    /\ stage' = [stage EXCEPT ![r] = "stopping"]
    /\ UNCHANGED <<sid, tasks, db, history, dbErrors, crashes>>

\* Mutant: the tasks are not awaited.
StopJoinedAtOnce(r) ==
    /\ stage[r] = "stopping"
    /\ stage' = [stage EXCEPT ![r] = "joined"]
    /\ UNCHANGED <<sid, active, watch, tasks, db, history, dbErrors, crashes>>

\* Both task handles were awaited.
StopJoined(r) ==
    /\ stage[r] = "stopping"
    /\ loopPc[r] = "ended" /\ consPc[r] = "ended"
    /\ stage' = [stage EXCEPT ![r] = "joined"]
    /\ UNCHANGED <<sid, active, watch, tasks, db, history, dbErrors, crashes>>

\* finish_session stamps the row if it is still there, and SessionStopped is
\* emitted with the counts of the statistics.
StopFinish(r) ==
    /\ stage[r] = "joined"
    /\ ended' = ended \cup ({sid[r]} \cap rows)
    /\ stage' = [stage EXCEPT ![r] = "stopped"]
    /\ UNCHANGED <<sid, active, watch, tasks, rows, probes, history, dbErrors, crashes>>

\* finish_session failed: stop() returns the error, and emits nothing.
StopFails(r) ==
    /\ stage[r] = "joined"
    /\ dbErrors < MaxDbErrors
    /\ dbErrors' = dbErrors + 1
    /\ stage' = [stage EXCEPT ![r] = "failed"]
    /\ UNCHANGED <<sid, active, watch, tasks, db, history, crashes>>

StopStep(r) == StopJoined(r) \/ StopFinish(r) \/ StopFails(r)

\* A row in use: its session is between create_session and the end of stop().
InUse(i) == \E r \in Runs : sid[r] = i /\ (stage[r] = "created" \/ Running(r))

\* Mutant: the probes of a deleted session stay behind.
DeleteRowOnly(i) ==
    /\ i \in rows
    /\ DeleteLive \/ ~InUse(i)
    /\ rows' = rows \ {i}
    /\ ended' = ended \ {i}
    /\ forgotten' = forgotten \cup {r \in Runs : sid[r] = i}
    /\ UNCHANGED <<stage, sid, active, watch, tasks, probes, dropped,
                   dbErrors, crashes>>

\* delete_session: the row goes, and its probes with it (ON DELETE CASCADE).
\* The manager does not look at the map of active sessions.
Delete(i) ==
    /\ i \in rows
    /\ DeleteLive \/ ~InUse(i)
    /\ rows' = rows \ {i}
    /\ ended' = ended \ {i}
    /\ probes' = {p \in probes : p.id # i}
    /\ forgotten' = forgotten \cup {r \in Runs : sid[r] = i}
    /\ UNCHANGED <<stage, sid, active, watch, tasks, dropped, dbErrors, crashes>>

\* The process ends without stop(): everything but the database is lost.
Crash ==
    /\ crashes < MaxCrashes
    /\ crashes' = crashes + 1
    /\ stage' = [r \in Runs |-> IF stage[r] = "created" \/ Running(r)
                                THEN "dead" ELSE stage[r]]
    /\ active' = {}
    /\ loopPc' = [r \in Runs |-> "off"]
    /\ consPc' = [r \in Runs |-> "off"]
    /\ chan' = [r \in Runs |-> <<>>]
    /\ batch' = [r \in Runs |-> <<>>]
    /\ UNCHANGED <<sid, watch, seq, fed, db, history, dbErrors>>

Next ==
    \/ \E r \in Runs :
         \/ StartCreate(r) \/ StartFails(r) \/ StartRegister(r)
         \/ LoopStep(r) \/ ConsumerStep(r) \/ ConsumerTick(r)
         \/ Stop(r) \/ StopStep(r)
    \/ \E i \in rows : Delete(i)
    \/ Crash

\* Spawned tasks are polled, a probe has a timeout, a database call returns,
\* and the ticker ticks.  The user owes nothing.
Fairness ==
    \A r \in Runs :
        /\ WF_vars(StartRegister(r))
        /\ WF_vars(LoopStep(r))
        /\ WF_vars(ConsumerStep(r))
        /\ WF_vars(ConsumerTick(r))
        /\ WF_vars(StopStep(r))

Spec == Init /\ [][Next]_vars /\ Fairness

-----------------------------------------------------------------------------
(* Properties.                                                             *)

\* Probes whose result the loop has handed over.
SentCount(r) == IF loopPc[r] = "probe" THEN seq[r] - 1 ELSE seq[r]
Stored(r) == {p.seq : p \in {q \in probes : q.run = r}}

\* Probes that are only in memory: what a crash would lose now.
Unpersisted(r) == (1..SentCount(r)) \ (Stored(r) \cup dropped[r])

\* Type invariant.  The channel and the batch respect their capacities.
TypeOK ==
    /\ stage \in [Runs -> {"idle", "created", "live", "stopping", "joined",
                           "stopped", "failed", "displaced", "dead"}]
    /\ sid \in [Runs -> Nat]
    /\ active \subseteq Runs
    /\ watch \in [Runs -> {"live", "stop", "dropped"}]
    /\ loopPc \in [Runs -> {"off", "check", "probe", "wait", "ended"}]
    /\ seq \in [Runs -> 0..MaxProbes]
    /\ chan \in [Runs -> Seq(1..MaxProbes)]
    /\ consPc \in [Runs -> {"off", "recv", "flush", "final", "ended"}]
    /\ batch \in [Runs -> Seq(1..MaxProbes)]
    /\ \A r \in Runs : Len(chan[r]) <= ChannelCap /\ Len(batch[r]) <= FlushBatch
    /\ fed \in [Runs -> 0..MaxProbes]
    /\ rows \in SUBSET (Nat \ {0}) /\ ended \subseteq rows
    /\ probes \in SUBSET [id : Nat, run : Runs, seq : 1..MaxProbes]
    /\ dropped \in [Runs -> SUBSET (1..MaxProbes)]
    /\ forgotten \subseteq Runs
    /\ dbErrors \in 0..MaxDbErrors /\ crashes \in 0..MaxCrashes

\* Every probe of a running session is in exactly one place, in the order it
\* was sent: first the database or a batch reported as not persisted, then the
\* batch, then the channel.  Nothing is lost, reordered or written twice.
ProbesInOrder ==
    \A r \in Runs : Running(r) /\ r \notin forgotten =>
        LET settled == fed[r] - Len(batch[r]) IN
        /\ \A i \in 1..Len(batch[r]) : batch[r][i] = settled + i
        /\ \A i \in 1..Len(chan[r]) : chan[r][i] = fed[r] + i
        /\ fed[r] + Len(chan[r]) = SentCount(r)
        /\ Stored(r) \cap dropped[r] = {}
        /\ Stored(r) \cup dropped[r] = 1..settled

\* A clean stop loses nothing (doc of stop()): after SessionStopped the history
\* has every probe that was shown, but for batches reported as failed.
CleanStopComplete ==
    \A r \in Runs : stage[r] = "stopped" /\ r \notin forgotten =>
        /\ fed[r] = seq[r]
        /\ Stored(r) = (1..seq[r]) \ dropped[r]

\* Once a session row carries ended_at no probe is added to it: the final flush
\* precedes the stamp.
EndedRowsFrozen ==
    [][\A i \in ended : i \in ended' =>
         {p \in probes' : p.id = i} = {p \in probes : p.id = i}]_vars

\* The probes listed under a session are those of the run that created it.
ProbesBelongToSession ==
    \A p \in probes : p.id \in rows /\ p.id = sid[p.run] /\ p.run \notin forgotten

\* A probe loop that runs can be stopped: the map has an entry that leads to
\* it, or stop() is already waiting for it.
NoOrphanLoop ==
    \A r \in Runs : loopPc[r] \notin {"off", "ended"} =>
        stage[r] = "stopping" \/ r \in active

\* What a crash can lose: one batch and what waits in the channel behind it.
CrashWindow ==
    \A r \in Runs : Running(r) /\ r \notin forgotten =>
        Cardinality(Unpersisted(r)) <= FlushBatch + ChannelCap

\* What the history has of a session: all that was probed, in order, but for
\* batches reported as failed and, after a crash, at most one batch and what
\* waited behind it (doc of stop() and of the module).
HistoryTrue == ProbesInOrder /\ CleanStopComplete /\ CrashWindow

\* stop() returns, even when it comes while the channel is full, a flush is
\* failing or the row has been deleted.
StopReturns ==
    \A r \in Runs : stage[r] = "stopping" ~> stage[r] \in {"stopped", "failed", "dead"}

\* A probe does not stay in the batch: the ticker writes out small ones.
BatchIsFlushed ==
    \A r \in Runs : batch[r] # <<>> ~> batch[r] = <<>>

-----------------------------------------------------------------------------
(* Refinement: the session layer implements the log.                       *)

Log == INSTANCE SessionLog WITH
    status <- [r \in Runs |->
                 IF sid[r] = 0 THEN "new"
                 ELSE IF stage[r] \in {"stopped", "failed"} THEN "closed"
                 ELSE IF stage[r] = "dead" THEN "lost" ELSE "open"],
    produced <- [r \in Runs |-> IF stage[r] = "dead" THEN 0 ELSE SentCount(r)],
    settled <- [r \in Runs |-> IF stage[r] = "dead" THEN 0
                               ELSE fed[r] - Len(batch[r])],
    saved <- [r \in Runs |-> Stored(r)]

\* The probe loop, the channel, the consumer's batches, stop() and a crash
\* together keep the promises of SessionLog, as long as the history deletes
\* only sessions that are over.
ImplementsLog == Log!LogSpec

-----------------------------------------------------------------------------
(* A statement of a comment in the code.                                   *)

\* "Continuously probe at [`PING_INTERVAL_MS`] until the `stop` watch channel
\* flips to `true`" (run_probe_loop): a loop whose stop sender is gone does not
\* start the next probe without the interval.
PacedProbing ==
    [][\A r \in Runs : loopPc[r] = "wait" /\ loopPc'[r] = "check"
         => watch[r] # "dropped"]_vars

\* Sessions are interchangeable.
Symmetry == Permutations(Runs)
=============================================================================
