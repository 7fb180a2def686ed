----------------------------- MODULE MikrotikLogs -----------------------------
(***************************************************************************)
(* MikroTik log streams: LogStreamManager and run_log_stream of            *)
(* src-tauri/src/mikrotik/logs.rs.  RouterOS cannot stream, so a task      *)
(* polls the router's memory buffer and tells new entries from old by      *)
(* their monotonic id.  One router; its entries are numbered by their ids. *)
(***************************************************************************)
EXTENDS Integers, Sequences, SequencesExt

CONSTANTS
    Streams,        \* start() calls
    Nobody,         \* an empty slot
    Backlog,        \* LOG_BACKLOG
    MaxLogFailures, \* MAX_LOG_FAILURES
    BufferSize,     \* entries the router keeps (external)
    MaxEntries,     \* bound on the entries the router writes
    Odd,            \* entries whose id log_id_number cannot parse
    MaxFailures,    \* bound on failing polls
    Hasty           \* may a start() and a stop() of the same router be under
                    \* way at once: the manager takes them, the view waits

VARIABLES
    slot,    \* LogInner.active of the profile: a stream, or Nobody
    stream,  \* per stream: its start() call and task
    written, \* entries the router has written
    failed   \* failing polls so far

vars == <<slot, stream, written, failed>>

\* pc: start() and then the task; stop: stop_rx has changed, or its sender is
\* gone; asked: somebody wanted this stream stopped; last: last_id, 0 is None;
\* shown: the ids of the entries sent to the view; told: its last status.
Idle == [pc |-> "idle", stop |-> FALSE, asked |-> FALSE, stopper |-> "none",
         failures |-> 0, last |-> 0, shown |-> <<>>, told |-> "nothing"]

Init ==
    /\ slot = Nobody
    /\ stream = [s \in Streams |-> Idle]
    /\ written = 0
    /\ failed = 0

\* The task or start() goes on to pc.
Go(s, pc) == stream' = [stream EXCEPT ![s].pc = pc]

Larger(a, b) == IF a < b THEN b ELSE a

\* The router's buffer, oldest entry first.
oldest == Larger(1, written - BufferSize + 1)
buffer == [i \in 1..(written - oldest + 1) |-> oldest + i - 1]

Parses(id) == id \notin Odd

\* The largest id that parses, or what was there.
Newest(entries, before) ==
    LET ids == {before} \cup {e \in ToSet(entries) : Parses(e)} IN
    CHOOSE m \in ids : \A e \in ids : e <= m

-----------------------------------------------------------------------------
(* start() and stop()                                                      *)

\* Is the profile taken?  Otherwise the profile is read and the router called.
StartCheck(s) ==
    /\ stream[s].pc = "idle"
    /\ Hasty \/ \A t \in Streams : stream[t].stopper # "joining"
    /\ Go(s, IF slot = Nobody THEN "connect" ELSE "refused")
    /\ UNCHANGED <<slot, written, failed>>

Connect(s) ==
    /\ stream[s].pc = "connect"
    /\ \E pc \in {"claim", "failed"} : Go(s, pc)
    /\ UNCHANGED <<slot, written, failed>>

\* The second look, under the lock, and the task.
Claim(s) ==
    /\ stream[s].pc = "claim"
    /\ \/ slot # Nobody /\ Go(s, "refused") /\ UNCHANGED slot
       \/ /\ slot = Nobody
          /\ stream' = [stream EXCEPT ![s].pc = "backlog", ![s].told = "started"]
          /\ slot' = s
    /\ UNCHANGED <<written, failed>>

Stop(s) ==
    /\ slot = s
    /\ Hasty \/ \A t \in Streams : stream[t].pc \notin {"connect", "claim"}
    /\ slot' = Nobody
    /\ stream' = [stream EXCEPT ![s].stop = TRUE, ![s].asked = TRUE, ![s].stopper = "joining"]
    /\ UNCHANGED <<written, failed>>

StopReturn(s) ==
    /\ stream[s].stopper = "joining" /\ stream[s].pc = "ended"
    /\ stream' = [stream EXCEPT ![s].stopper = "returned"]
    /\ UNCHANGED <<slot, written, failed>>

-----------------------------------------------------------------------------
(* run_log_stream                                                          *)

\* backlog_of: the newest entries, oldest first.
BacklogOf(entries) ==
    SubSeq(entries, Larger(1, Len(entries) - Backlog + 1), Len(entries))

\* Mutant: a poll takes no more than the backlog does.
FreshBacklog(entries, last) == SelectSeq(BacklogOf(entries), LAMBDA e : Parses(e) /\ e > last)

\* fresh_entries: newer than the last one; ids that do not parse are dropped.
FreshEntries(entries, last) == SelectSeq(entries, LAMBDA e : Parses(e) /\ e > last)

\* A failing first poll ends the stream at once.
Open(s) ==
    /\ stream[s].pc = "backlog"
    /\ \/ /\ stream' = [stream EXCEPT ![s].pc = "tick", ![s].shown = BacklogOf(buffer),
                                      ![s].last = Newest(BacklogOf(buffer), 0)]
          /\ UNCHANGED failed
       \/ /\ failed < MaxFailures /\ failed' = failed + 1
          /\ stream' = [stream EXCEPT ![s].pc = "clear", ![s].told = "error"]
    /\ UNCHANGED <<slot, written>>

\* The select: stop_rx, which also changes when the slot is dropped, ...
Stopped(s) ==
    /\ stream[s].pc = "tick" /\ stream[s].stop
    /\ stream' = [stream EXCEPT ![s].pc = "clear", ![s].told = "stopped"]
    /\ UNCHANGED <<slot, written, failed>>

\* ... or the interval and a poll that answers ...
Poll(s) ==
    /\ stream[s].pc = "tick"
    /\ LET fresh == FreshEntries(buffer, stream[s].last) IN
       stream' = [stream EXCEPT ![s].failures = 0, ![s].shown = stream[s].shown \o fresh,
                                ![s].last = Newest(fresh, stream[s].last)]
    /\ UNCHANGED <<slot, written, failed>>

\* Mutant: one failure too many is let through.
PollFailsLater(s) ==
    LET n == stream[s].failures + 1 IN
    /\ stream[s].pc = "tick"
    /\ failed < MaxFailures /\ failed' = failed + 1
    /\ \/ /\ n <= MaxLogFailures
          /\ stream' = [stream EXCEPT ![s].failures = n, ![s].told = "warning"]
       \/ /\ ~(n <= MaxLogFailures)
          /\ stream' = [stream EXCEPT ![s].failures = n, ![s].told = "error", ![s].pc = "clear"]
    /\ UNCHANGED <<slot, written>>

\* ... or fails: a warning, or the end.
PollFails(s) ==
    LET n == stream[s].failures + 1 IN
    /\ stream[s].pc = "tick"
    /\ failed < MaxFailures /\ failed' = failed + 1
    /\ \/ /\ n < MaxLogFailures
          /\ stream' = [stream EXCEPT ![s].failures = n, ![s].told = "warning"]
       \/ /\ ~(n < MaxLogFailures)
          /\ stream' = [stream EXCEPT ![s].failures = n, ![s].told = "error", ![s].pc = "clear"]
    /\ UNCHANGED <<slot, written>>

\* clear_active goes by profile: whoever has the slot now loses it.
Clear(s) ==
    /\ stream[s].pc = "clear"
    /\ slot' = Nobody
    /\ stream' = [t \in Streams |->
           IF t = s THEN [stream[s] EXCEPT !.pc = "ended"]
           ELSE IF t = slot THEN [stream[t] EXCEPT !.stop = TRUE] ELSE stream[t]]
    /\ UNCHANGED <<written, failed>>

\* The router writes an entry.
Write ==
    /\ written < MaxEntries
    /\ written' = written + 1
    /\ UNCHANGED <<slot, stream, failed>>

Task(s) == Open(s) \/ Stopped(s) \/ Clear(s)

Next ==
    \/ \E s \in Streams :
         \/ StartCheck(s) \/ Connect(s) \/ Claim(s) \/ Stop(s) \/ StopReturn(s)
         \/ Task(s) \/ Poll(s) \/ PollFails(s)
    \/ Write

\* Calls have timeouts; a select whose flag is up is not passed over for ever.
Fairness == \A s \in Streams : WF_vars(Task(s)) /\ WF_vars(StopReturn(s))

Spec == Init /\ [][Next]_vars /\ Fairness

-----------------------------------------------------------------------------
(* Properties                                                              *)

TypeOK ==
    /\ slot \in Streams \cup {Nobody}
    /\ \A s \in Streams :
         /\ stream[s].failures \in 0..MaxLogFailures
         /\ stream[s].failures = MaxLogFailures => stream[s].told = "error"
         /\ stream[s].last \in 0..written
         /\ stream[s].pc \in {"idle", "refused", "failed", "connect", "claim", "backlog",
                              "tick", "clear", "ended"}

\* A stream sends no entry twice, and those it can tell apart in order, however
\* polls and the router's writes interleave.
OnceInOrder ==
    \A s \in Streams : LET shown == stream[s].shown IN
        \A i, j \in 1..Len(shown) : i < j =>
            /\ shown[i] # shown[j]
            /\ Parses(shown[i]) /\ Parses(shown[j]) => shown[i] < shown[j]

\* From its first entry on, a stream leaves out only entries whose id does not
\* parse and entries the router dropped before a poll could see them.
NothingSkipped ==
    \A s \in Streams : LET shown == stream[s].shown IN
        shown # <<>> =>
            \A e \in shown[1]..stream[s].last :
                e \in ToSet(shown) \/ ~Parses(e) \/ e < oldest

\* One stream per profile: one that nobody asked to stop has the slot, so it is
\* never "stopped" by somebody else's end.  It is, when a start comes before the
\* last stop returned: the old task's clear_active takes the new one's slot.
OnlyOwnStop ==
    \A s \in Streams :
        /\ stream[s].pc \in {"backlog", "tick"} /\ ~stream[s].asked => slot = s
        /\ stream[s].told = "stopped" => stream[s].asked

\* stop() returns, and a stream that ended gives its profile free.
StopReturns ==
    \A s \in Streams :
        /\ stream[s].stopper = "joining" ~> stream[s].stopper = "returned"
        /\ stream[s].pc = "clear" ~> slot # s
=============================================================================
