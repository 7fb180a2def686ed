-------------------------- MODULE MikrotikTerminals --------------------------
(***************************************************************************)
(* SSH terminals on MikroTik routers: TerminalManager of                   *)
(* src-tauri/src/mikrotik/terminal.rs.  An open reserves its place, shakes *)
(* hands without the lock, fills its slot and only then lets its reader    *)
(* run.  Terminal ids are never reused, so a terminal is its open() call.  *)
(***************************************************************************)
EXTENDS Integers, FiniteSets

CONSTANTS
    Terms,       \* open() calls
    MaxTerminals \* MAX_CONCURRENT_SESSIONS

VARIABLES
    active,   \* TerminalInner.active: ids that have a slot
    starting, \* TerminalInner.starting
    term      \* per open() call: itself, its connection and its reader

vars == <<active, starting, term>>

\* pc: the open() call; up: the SSH channel lives; sink: the view listens;
\* reader: the reader task.
Idle == [pc |-> "idle", up |-> FALSE, sink |-> TRUE, reader |-> "none"]

Init ==
    /\ active = {}
    /\ starting = 0
    /\ term = [t \in Terms |-> Idle]

-----------------------------------------------------------------------------
(* open()                                                                  *)

\* The reservation, or TooManySessions.
Open(t) ==
    /\ term[t].pc = "idle"
    /\ IF Cardinality(active) + starting >= MaxTerminals
       THEN term' = [term EXCEPT ![t].pc = "refused"] /\ UNCHANGED starting
       ELSE term' = [term EXCEPT ![t].pc = "connect"] /\ starting' = starting + 1
    /\ UNCHANGED active

\* connect_terminal up to the shell; any step may fail.
Connect(t) ==
    /\ term[t].pc = "connect"
    /\ \/ term' = [term EXCEPT ![t].pc = "insert", ![t].up = TRUE,
                               ![t].reader = "gated"]
       \/ term' = [term EXCEPT ![t].pc = "give up"]
    /\ UNCHANGED <<active, starting>>

\* The slot is filled and the gate opened, to a reader that waits at it.
Insert(t) ==
    /\ term[t].pc = "insert"
    /\ active' = active \cup {t}
    /\ term' = [term EXCEPT ![t].pc = "release",
                            ![t].reader = IF term[t].reader = "gated" THEN "reads" ELSE term[t].reader]
    /\ UNCHANGED starting

\* Mutant: only a successful open gives its reservation back.
ReleaseIfOpen(t) ==
    /\ term[t].pc \in {"release", "give up"}
    /\ starting' = IF term[t].pc = "release" THEN starting - 1 ELSE starting
    /\ term' = [term EXCEPT ![t].pc = IF term[t].pc = "release" THEN "open" ELSE "failed"]
    /\ UNCHANGED active

\* The reservation is given back on every path.
Release(t) ==
    /\ term[t].pc \in {"release", "give up"}
    /\ starting' = starting - 1
    /\ term' = [term EXCEPT ![t].pc = IF term[t].pc = "release" THEN "open" ELSE "failed"]
    /\ UNCHANGED active

-----------------------------------------------------------------------------
(* The reader, the server and the user                                     *)

\* Mutant: the reader does not wait for its slot.
ReaderEndsUngated(t) ==
    /\ term[t].reader \in {"gated", "reads"}
    /\ ~term[t].up \/ ~term[t].sink
    /\ active' = active \ {t}
    /\ term' = [term EXCEPT ![t].reader = "exited", ![t].up = FALSE]
    /\ UNCHANGED starting

\* The channel is closed or the view stopped listening: remove(), which drops
\* the connection.
ReaderEnds(t) ==
    /\ term[t].reader = "reads"
    /\ ~term[t].up \/ ~term[t].sink
    /\ active' = active \ {t}
    /\ term' = [term EXCEPT ![t].reader = "exited", ![t].up = FALSE]
    /\ UNCHANGED starting

\* The server ends the session, or the webview is reloaded.
Drop(t) ==
    /\ \/ term[t].up /\ term' = [term EXCEPT ![t].up = FALSE]
       \/ term[t].sink /\ term[t].pc # "idle" /\ term' = [term EXCEPT ![t].sink = FALSE]
    /\ UNCHANGED <<active, starting>>

\* write() or resize() to a dead channel drops the slot; to a live one it
\* changes nothing here.
Write(t) ==
    /\ term[t].pc = "open" /\ t \in active /\ ~term[t].up
    /\ active' = active \ {t}
    /\ UNCHANGED <<starting, term>>

\* close(): the slot, the connection and the reader.
Close(t) ==
    /\ term[t].pc = "open" /\ t \in active
    /\ active' = active \ {t}
    /\ term' = [term EXCEPT ![t].up = FALSE, ![t].reader = "exited"]
    /\ UNCHANGED starting

Step(t) == Connect(t) \/ Insert(t) \/ Release(t) \/ ReaderEnds(t)

Next == \E t \in Terms : Open(t) \/ Step(t) \/ Drop(t) \/ Write(t) \/ Close(t)

\* Connecting times out and tasks are polled.
Fairness == \A t \in Terms : WF_vars(Step(t))

Spec == Init /\ [][Next]_vars /\ Fairness

-----------------------------------------------------------------------------
(* Properties                                                              *)

TypeOK ==
    /\ active \subseteq Terms /\ starting \in 0..Cardinality(Terms)
    /\ \A t \in Terms :
         term[t].pc \in {"idle", "refused", "connect", "insert", "release", "give up",
                         "open", "failed"}

\* However many opens shake hands at once, the cap on open terminals holds.
CapHolds == Cardinality(active) <= MaxTerminals

\* A reservation is held by an open that is under way, and by nothing else: a
\* failing one cannot wear the cap down.
ReservationsExact ==
    starting = Cardinality({t \in Terms : term[t].pc \in {"connect", "insert", "release", "give up"}})

\* "would otherwise let the reader's cleanup no-op and then leak a dead terminal
\* into the map" (terminal.rs:165): a slot has a reader that will clean it up.
NoDeadSlot == \A t \in active : term[t].reader # "exited"

\* A terminal whose connection or view is gone loses its slot.
DeadOnesLeave ==
    \A t \in Terms : t \in active /\ (~term[t].up \/ ~term[t].sink) ~> t \notin active
=============================================================================
