--------------------------- MODULE OpnsenseStreams ---------------------------
(***************************************************************************)
(* What the OPNsense client makes of a response that arrives in pieces:    *)
(* SseParser of src-tauri/src/opnsense/logs.rs, cpu_usage_sample_inner and *)
(* read_bounded_text of src-tauri/src/opnsense/client.rs.  The network     *)
(* cuts a response anywhere, inside a line as well as between frames.      *)
(*                                                                         *)
(* A response is a sequence of bytes; a line of kind k is Length[k] bytes  *)
(* and a newline.  The three readers get the same bytes in the same pieces.*)
(***************************************************************************)
EXTENDS Integers, Sequences, FiniteSets, SequencesExt

CONSTANTS
    MaxLines, \* bound on the lines of a response
    MaxFrame, \* MAX_FRAME_BYTES
    MaxBuffer,\* the cap on the buffer of the CPU stream
    MaxBody   \* MAX_JSON_BYTES

\* ":" is a comment, "x" and "y" are data lines with a record (and a sample),
\* "bad" is a data line whose payload is no JSON, "" ends a frame.
Kinds == {"", ":", "x", "y", "bad"}
Length == [k \in Kinds |-> CASE k = "" -> 0 [] k = ":" -> 1 [] OTHER -> 2]
Newline == "nl"
BytesOf(k) == [i \in 1..Length[k] |-> k] \o <<Newline>>
ResponseOf(lines) == FlattenSeq([i \in 1..Len(lines) |-> BytesOf(lines[i])])
DataKinds == {"x", "y", "bad"}

VARIABLES
    rest,   \* bytes that have not arrived
    seen,   \* bytes that have
    parser, \* SseParser and what it delivered
    cpu,    \* cpu_usage_sample_inner: buffer, first, result
    body,   \* read_bounded_text: bytes read, or too large
    closed  \* the firewall ended the response

vars == <<rest, seen, parser, cpu, body, closed>>

EmptyParser == [line |-> <<>>, data |-> <<>>, hasData |-> FALSE, events |-> <<>>, failed |-> FALSE]

Init ==
    /\ \E n \in 0..MaxLines : \E lines \in [1..n -> Kinds] : rest = ResponseOf(lines)
    /\ seen = <<>>
    /\ parser = EmptyParser
    /\ cpu = [buffer |-> <<>>, first |-> "none", result |-> "none"]
    /\ body = 0
    /\ closed = FALSE

-----------------------------------------------------------------------------
(* The log stream                                                          *)

\* Mutant: the frame after a heartbeat is taken for part of it.
EndFrameSticky(p) ==
    LET good == \A i \in 1..Len(p.data) : p.data[i] # "bad" IN
    IF ~p.hasData THEN p
    ELSE [p EXCEPT !.events = IF good THEN Append(@, p.data) ELSE @]

\* A frame with data is one event if its payload is JSON, and none if not.
EndFrame(p) ==
    LET good == \A i \in 1..Len(p.data) : p.data[i] # "bad" IN
    IF ~p.hasData THEN p
    ELSE [p EXCEPT !.hasData = FALSE, !.data = <<>>,
                   !.events = IF good THEN Append(@, p.data) ELSE @]

\* A blank line ends the frame, a comment does not, data lines join.
HandleLine(p) ==
    LET line == p.line
        taken == [p EXCEPT !.line = <<>>]
    IN
    CASE line = <<>> -> EndFrame(taken)
      [] line # <<>> /\ line[1] \in DataKinds ->
           [taken EXCEPT !.data = Append(@, line[1]), !.hasData = TRUE]
      [] OTHER -> taken

Buffered(p) == Len(p.line) + 2 * Len(p.data)

FeedByte(p, byte) ==
    CASE p.failed -> p
      [] byte = Newline /\ ~p.failed -> HandleLine(p)
      [] OTHER -> LET q == [p EXCEPT !.line = Append(@, byte)] IN
                  [q EXCEPT !.failed = Buffered(q) > MaxFrame]

\* feed: an oversized frame is fatal, and what the chunk had completed is lost.
Feed(p, chunk) ==
    LET q == FoldLeft(FeedByte, p, chunk) IN
    IF q.failed THEN [q EXCEPT !.events = p.events] ELSE q

-----------------------------------------------------------------------------
(* The CPU sample                                                          *)

\* The first sample is an average since boot; the second one is the answer.
CpuChunk(c, chunk) ==
    LET Take(d, byte) ==
            IF byte # Newline THEN [d EXCEPT !.buffer = Append(@, byte)]
            ELSE LET line == d.buffer
                     e == [d EXCEPT !.buffer = <<>>]
                 IN IF line # <<>> /\ line[1] \in {"x", "y"} /\ d.result = "none"
                    THEN IF d.first = "none" THEN [e EXCEPT !.first = line[1]]
                         ELSE [e EXCEPT !.result = line[1]]
                    ELSE e
    IN IF c.result # "none" THEN c
       ELSE IF Len(c.buffer) + Len(chunk) > MaxBuffer THEN [c EXCEPT !.result = "too large"]
       ELSE FoldLeft(Take, c, chunk)

\* The stream ended: one sample is better than none.
CpuClosed(c) ==
    IF c.result = "none" THEN [c EXCEPT !.result = IF c.first = "none" THEN "no sample" ELSE c.first]
    ELSE c

-----------------------------------------------------------------------------
(* The bounded body                                                        *)

\* -1 is TooLarge.
BodyChunk(b, chunk) ==
    IF b = -1 \/ b + Len(chunk) > MaxBody THEN -1 ELSE b + Len(chunk)

-----------------------------------------------------------------------------
Chunk(n) ==
    LET chunk == SubSeq(rest, 1, n) IN
    /\ ~closed
    /\ rest' = SubSeq(rest, n + 1, Len(rest))
    /\ seen' = seen \o chunk
    /\ parser' = IF parser.failed THEN parser ELSE Feed(parser, chunk)
    /\ cpu' = CpuChunk(cpu, chunk)
    /\ body' = BodyChunk(body, chunk)
    /\ UNCHANGED closed

Close ==
    /\ ~closed
    /\ closed' = TRUE
    /\ cpu' = CpuClosed(cpu)
    /\ UNCHANGED <<rest, seen, parser, body>>

Next == (\E n \in 1..Len(rest) : Chunk(n)) \/ Close

Spec == Init /\ [][Next]_vars

-----------------------------------------------------------------------------
(* Properties                                                              *)

\* The whole lines among the bytes that arrived.
Lines ==
    LET ends == {i \in 1..Len(seen) : seen[i] = Newline}
        start(i) == 1 + (CHOOSE j \in ends \cup {0} : j < i /\ \A k \in ends : k < i => k <= j)
    IN [n \in 1..Cardinality(ends) |->
           LET i == CHOOSE i \in ends : Cardinality({j \in ends : j <= i}) = n IN
           IF start(i) = i THEN "" ELSE seen[start(i)]]

\* The frames among those lines: data lines between two blank ones.
Frames ==
    LET blanks == {i \in 1..Len(Lines) : Lines[i] = ""}
        start(i) == CHOOSE j \in blanks \cup {0} : j < i /\ \A k \in blanks : k < i => k <= j
        frame(i) == SelectSeq(SubSeq(Lines, start(i) + 1, i), LAMBDA k : k \in DataKinds)
        whole == [n \in 1..Cardinality(blanks) |->
                     frame(CHOOSE i \in blanks : Cardinality({j \in blanks : j <= i}) = n)]
    IN SelectSeq(whole, LAMBDA f : f # <<>> /\ \A i \in 1..Len(f) : f[i] # "bad")

TypeOK ==
    /\ parser.failed \in BOOLEAN /\ Buffered(parser) <= MaxFrame + 1
    /\ cpu.result \in {"none", "x", "y", "too large", "no sample"}
    /\ body \in -1..MaxBody

\* "Frames may split across arbitrary chunk boundaries" (logs.rs:290): however
\* the response was cut, the view gets exactly its frames, in order; after an
\* oversized one it gets none that follow.
EventsAreFrames ==
    IF parser.failed THEN IsPrefix(parser.events, Frames) ELSE parser.events = Frames

Samples == SelectSeq(Lines, LAMBDA k : k \in {"x", "y"})

\* "Takes the first INTERVAL sample (the first event is a since-boot average)"
\* (client.rs:233), however the stream was cut; the buffer may be too small
\* only for a line and a piece that are longer than it.
SecondSample ==
    CASE cpu.result \in {"x", "y"} ->
           IF Len(Samples) >= 2 THEN cpu.result = Samples[2] ELSE closed /\ cpu.result = Samples[1]
      [] cpu.result = "no sample" -> Samples = <<>>
      [] cpu.result = "none" -> Len(Samples) < 2
      [] cpu.result = "too large" -> Len(seen) > MaxBuffer

\* A body that was accepted is whole and no longer than the cap.
BodyWhole == IF Len(seen) > MaxBody THEN body = -1 ELSE body = Len(seen)
=============================================================================
