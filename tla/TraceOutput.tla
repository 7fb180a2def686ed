----------------------------- MODULE TraceOutput -----------------------------
(* The output of the trace program (RawHopStream::next in                     *)
(* src-tauri/src/engine/trace_os.rs), read by a caller that may come late and *)
(* leave early, under two watchdogs: one for a program that is quiet, one for *)
(* the whole trace.  TraceRun is the caller; ProbeAnswers has the lines.      *)
EXTENDS Integers, FiniteSetsExt, SequencesExt

CONSTANTS
    Inactivity, \* TraceLimits.inactivity, 5 s
    Ceiling,    \* TraceLimits.ceiling, 120 s
    MaxClock,   \* bound on the time of a trace
    MaxLines    \* bound on the lines of a trace

VARIABLES
    prog,  \* the program: state, and for every line printed whether it is a hop
    clock, \* time since the start
    next   \* the stream: pc, last_line_at, the timer, lines read, hops given

vars == <<prog, clock, next>>

None == "none"
Init ==
    /\ prog = [state |-> "runs", lines |-> <<>>]
    /\ clock = 0
    /\ next = [pc |-> "away", last |-> 0, due |-> 0, read |-> 0, hops |-> <<>>, over |-> None]

-----------------------------------------------------------------------------
(* The program, external, and time *)

Prints ==
    /\ prog.state = "runs" /\ Len(prog.lines) < MaxLines
    /\ \E hop \in BOOLEAN : prog' = [prog EXCEPT !.lines = Append(@, hop)]
    /\ UNCHANGED <<clock, next>>

Exits ==
    prog.state = "runs" /\ prog' = [prog EXCEPT !.state = "exited"] /\ UNCHANGED <<clock, next>>

Passes == next.pc # "over" /\ clock < MaxClock /\ clock' = clock + 1 /\ UNCHANGED <<prog, next>>

-----------------------------------------------------------------------------
(* RawHopStream::next *)

Unread == Len(prog.lines) - next.read

\* start_kill, of a program that has not exited.
Over(how) ==
    /\ next' = [next EXCEPT !.pc = "over", !.over = how]
    /\ prog' = IF prog.state = "runs" THEN [prog EXCEPT !.state = "killed"] ELSE prog
    /\ UNCHANGED clock

Goes(pc) == next' = [next EXCEPT !.pc = pc] /\ UNCHANGED <<prog, clock>>

Asks == next.pc = "away" /\ Goes("head")

\* checked_sub, or zero.
Left(limit, since) == IF clock - since >= limit THEN 0 ELSE limit - (clock - since)

LeftAll == Left(Ceiling, 0)
LeftQuiet == Left(Inactivity, next.last)

\* The head of the loop: a watchdog that has run out is heard before a line is
\* read, also when one waits: the time of the caller counts.
Await ==
    /\ next.pc = "head"
    /\ IF LeftAll = 0 THEN Over("ceiling")
       ELSE IF LeftQuiet = 0 THEN Over("quiet")
       ELSE /\ next' = [next EXCEPT !.pc = "wait", !.due = clock + Min({LeftAll, LeftQuiet})]
            /\ UNCHANGED <<prog, clock>>

\* A line; one that is no hop is passed over.
Reads ==
    /\ next.pc = "wait" /\ Unread > 0
    /\ LET line == next.read + 1 IN
       /\ next' = [next EXCEPT !.read = line, !.last = clock,
                               !.pc = IF prog.lines[line] THEN "away" ELSE "head",
                               !.hops = IF prog.lines[line] THEN Append(@, line) ELSE @]
       /\ UNCHANGED <<prog, clock>>

\* The end of the output, or an error of the pipe.
Closes ==
    /\ next.pc = "wait" /\ Unread = 0 /\ prog.state # "runs"
    /\ next' = [next EXCEPT !.pc = "over", !.over = "end"]
    /\ UNCHANGED <<prog, clock>>
Breaks == next.pc = "wait" /\ Over("pipe")

\* The timer; a line or an end that is there is taken first.
Fires ==
    /\ next.pc = "wait" /\ clock >= next.due /\ Unread = 0 /\ prog.state = "runs"
    /\ Over(IF next.due = Ceiling THEN "ceiling" ELSE "quiet")

\* The caller's select takes another branch: the call is dropped, and no line.
Drops == next.pc = "wait" /\ Goes("away")

\* Drop of the stream.
Leaves == next.pc = "away" /\ Over("left")

Next ==
    \/ Prints \/ Exits \/ Passes \/ Asks \/ Await \/ Reads \/ Closes \/ Breaks \/ Fires
    \/ Drops \/ Leaves

Spec == Init /\ [][Next]_vars

-----------------------------------------------------------------------------
(* Properties *)

\* Type invariant.
TypeOK ==
    /\ prog.state \in {"runs", "exited", "killed"} /\ clock \in 0..MaxClock
    /\ next.pc \in {"away", "head", "wait", "over"} /\ next.read \in 0..Len(prog.lines)

\* The hops given are those among the lines read, in order and none left out,
\* however often the caller came and left; an end that is no error is the end
\* of the whole output of a program that was not killed.
HopsInOrder ==
    /\ next.hops = SelectSeq([i \in 1..next.read |-> i], LAMBDA i : prog.lines[i])
    /\ next.over = "end" => Unread = 0 /\ prog.state = "exited"

\* A trace is given up for the reason it names, and no program lives on.
WatchdogTrue ==
    /\ next.over = "ceiling" => clock >= Ceiling
    /\ next.over = "quiet" => clock - next.last >= Inactivity
    /\ next.pc = "over" => prog.state # "runs"
=============================================================================
