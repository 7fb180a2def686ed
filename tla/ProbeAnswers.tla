---------------------------- MODULE ProbeAnswers ----------------------------
(* What the probe engines make of what the platform tells them                *)
(* (src-tauri/src/engine: osping.rs, winicmp.rs, trace_parse.rs,              *)
(* and src-tauri/src/mtu/engine.rs).  One thing happens to an echo; each      *)
(* platform says it in its own way, and the engines must say the same of it.  *)
(* A line of a trace is the tokens it is split into.                          *)
EXTENDS Integers, SequencesExt

VARIABLES
    got,   \* what happened, or was printed (of)
    shown  \* what the engine makes of it

vars == <<got, shown>>

None == "none"
Init == got = [of |-> None] /\ shown = [of |-> None]
Answer(a, s) == got' = a /\ shown' = s

-----------------------------------------------------------------------------
(* Echoes *)

\* What may happen to an echo that must not be fragmented: it is answered, the
\* own interface or a router on the way finds it too big, it or its answer is
\* lost, or it cannot be sent.
Events == {"answered", "local", "remote", "lost", "failed"}

\* The ping program: texts it prints, the time= token of its line, its exit.
\* A router's message names the MTU of the next hop, or not.  Output in another
\* language, or garbled, has no token, or none that is a number.
NoOutput == [frag |-> FALSE, mtu |-> None, long |-> FALSE, time |-> None, ok |-> FALSE,
             spawned |-> FALSE] \* not started, or stopped by the watchdog
Printed(event) ==
    LET out == [frag |-> FALSE, mtu |-> None, long |-> FALSE, time |-> None, ok |-> FALSE,
            spawned |-> TRUE] IN
    CASE event = "answered" -> {[out EXCEPT !.time = "number", !.ok = TRUE]}
      [] event = "local" -> {[out EXCEPT !.long = TRUE]}
      [] event = "remote" -> {[out EXCEPT !.frag = TRUE, !.mtu = m] : m \in {None, "1462"}}
      [] event = "lost" -> {out}
      [] event = "failed" -> {NoOutput}
Garbled ==
    {[frag |-> FALSE, mtu |-> None, long |-> FALSE, time |-> t, ok |-> TRUE,
      spawned |-> TRUE] : t \in {None, "text"}}

\* The echo call of Windows: its replies, and the status of the first reply or
\* the last error.
Status(event) ==
    CASE event = "answered" -> {[replies |-> 1, status |-> "success"]}
      [] event \in {"local", "remote"} -> {[replies |-> r, status |-> "too big"] : r \in 0..1}
      [] event = "lost" -> {[replies |-> r, status |-> "timed out"] : r \in 0..1}
      [] event = "failed" -> {[replies |-> r, status |-> "other"] : r \in 0..1}
                              \cup {[replies |-> 0, status |-> "no handle"]}

\* classify_osping_output, over both outputs.
Classified(out) ==
    CASE out.frag -> [is |-> "too big", hint |-> out.mtu]
      [] ~out.frag /\ out.long -> [is |-> "too big", hint |-> None]
      [] OTHER -> [is |-> IF out.time = "number" THEN "ok" ELSE "timeout", hint |-> None]

\* OsPingDfEngine::probe and OsPinger::probe; the second reads the token only.
MtuByPing(out) == IF ~out.spawned THEN [is |-> "error", hint |-> None] ELSE Classified(out)
PingByPing(out) ==
    IF ~out.spawned THEN "error" ELSE IF out.time = "number" THEN "ok" ELSE "timeout"

\* A warning keeps the output that could not be read.
MtuWarns(out) ==
    out.spawned /\ ~out.frag /\ ~out.long /\ out.time = None /\ out.ok
PingWarns(out) == out.spawned /\ (out.time = "text" \/ (out.time = None /\ out.ok))

\* map_reply_status_df, last_error_df; a ping that is too big is an error.
MtuByCall(r) ==
    [is |-> CASE r.status = "success" -> "ok" [] r.status = "too big" -> "too big"
              [] r.status = "timed out" -> "timeout" [] OTHER -> "error",
     hint |-> None]
PingByCall(r) ==
    CASE r.status = "success" -> "ok" [] r.status = "timed out" -> "timeout" [] OTHER -> "error"

\* MtuProbeEngine::probe; IPv6 is refused before anything is sent.
Echo ==
    \E event \in Events, v6 \in BOOLEAN :
    \E out \in Printed(event), reply \in Status(event) :
        Answer([of |-> "echo", event |-> event, v6 |-> v6],
               IF v6 THEN [unix |-> [is |-> "error", hint |-> None],
                           windows |-> [is |-> "error", hint |-> None],
                           ping |-> {PingByPing(out), PingByCall(reply)}]
               ELSE [unix |-> MtuByPing(out), windows |-> MtuByCall(reply),
                     ping |-> {PingByPing(out), PingByCall(reply)}])

Unreadable ==
    \E out \in Garbled :
        Answer([of |-> "garbled", out |-> out],
               [unix |-> Classified(out), ping |-> PingByPing(out),
                warned |-> [mtu |-> MtuWarns(out), ping |-> PingWarns(out)]])

-----------------------------------------------------------------------------
(* Lines of a trace *)

\* What a trace program knows of a hop: the results of its probes, the address
\* that answered, if one did, and a remark.  Windows prints the address last,
\* or a text, and no remark.
Results == {"*", "5 ms", "<1 ms", "< 1 ms", "5ms"}
Hops ==
    {h \in [probes : UNION {[1..n -> Results] : n \in 1..3},
            address : {None, "10.0.0.1", "fe80::1"}, remark : {None, "!H"}] :
        /\ (h.address = None) = (Range(h.probes) = {"*"})
        /\ h.remark # None => h.address # None}

Tokens(result) ==
    CASE result = "5 ms" -> <<"5", "ms">> [] result = "<1 ms" -> <<"<1", "ms">>
      [] result = "< 1 ms" -> <<"<", "1", "ms">> [] OTHER -> <<result>>
Texts(x) == IF x = None THEN <<>> ELSE <<x>>
LineOf(flavor, hop) ==
    LET results == FlattenSeq([i \in DOMAIN hop.probes |-> Tokens(hop.probes[i])]) IN
    IF flavor = "windows"
    THEN results \o (IF hop.address = None THEN <<"Request", "timed", "out.">> ELSE <<hop.address>>)
    ELSE Texts(hop.address) \o results \o Texts(hop.remark)

\* parse_rtt_tokens: how many tokens the result takes; a number needs a unit.
TakenAt(tokens, i) ==
    LET at(k) == IF i + k <= Len(tokens) THEN tokens[i + k] ELSE "" IN
    CASE at(0) \in {"*", "5ms"} -> 1
      [] at(0) \in {"5", "<1"} /\ at(1) = "ms" -> 2
      [] at(0) = "<" /\ at(1) = "1" /\ at(2) = "ms" -> 3
      [] OTHER -> 0
Rtt(token) == CASE token = "*" -> "lost" [] token \in {"<1", "<"} -> "half" [] OTHER -> "five"

\* is_numeric_endpoint: also a number that has no unit is one.
IsAddress(token) == token \in {"10.0.0.1", "fe80::1", "5", "1"}

NoHop == [rtts |-> <<>>, address |-> None, remark |-> None, skip |-> 0]

\* parse_windows_hop takes three results at most and no remark.
ParseToken(flavor, tokens, hop, i) ==
    LET taken == TakenAt(tokens, i) IN
    CASE hop.skip > 0 -> [hop EXCEPT !.skip = @ - 1]
      [] hop.skip = 0 /\ taken > 0 /\ (flavor = "posix" \/ Len(hop.rtts) < 3) ->
            [hop EXCEPT !.rtts = Append(@, Rtt(tokens[i])), !.skip = taken - 1]
      [] OTHER ->
            IF flavor = "posix" /\ hop.remark = None /\ tokens[i] = "!H"
            THEN [hop EXCEPT !.remark = tokens[i]]
            ELSE IF hop.address = None /\ IsAddress(tokens[i])
            THEN [hop EXCEPT !.address = tokens[i]] ELSE hop

\* A line that tells nothing of a hop is none (NoHop).
ParseHop(flavor, tokens) ==
    FoldLeft(LAMBDA hop, i : ParseToken(flavor, tokens, hop, i), NoHop,
             [i \in DOMAIN tokens |-> i])

Line ==
    \E flavor \in {"posix", "windows"}, hop \in Hops :
        /\ flavor = "windows" => hop.remark = None
        /\ Answer([of |-> "line", flavor |-> flavor, hop |-> hop],
                  ParseHop(flavor, LineOf(flavor, hop)))

\* A hop that has no results, for example a text of the program's.
OtherLine ==
    \E flavor \in {"posix", "windows"}, tokens \in {<<>>, <<"General", "failure.">>} :
        Answer([of |-> "other line"], ParseHop(flavor, tokens))

\* One event per behaviour.
Next == got.of = None /\ (Echo \/ Unreadable \/ Line \/ OtherLine)

Spec == Init /\ [][Next]_vars

-----------------------------------------------------------------------------
(* Properties *)

\* Type invariant.
TypeOK == got.of \in {None, "echo", "garbled", "line", "other line"}

\* Every platform reports what happened to an echo: only an answer is a
\* success, only a message that says so is "too big", and a hint is only ever
\* the MTU a router named; a ping is a success or a loss on both alike.
EnginesAgree ==
    /\ got.of = "echo" =>
         LET meant == CASE got.event = "answered" -> "ok"
                        [] got.event \in {"local", "remote"} -> "too big"
                        [] got.event = "lost" -> "timeout" [] got.event = "failed" -> "error"
         IN /\ ~got.v6 => shown.unix.is = meant /\ shown.windows.is = meant
            /\ shown.unix.hint # None => got.event = "remote"
            /\ ("ok" \in shown.ping) = (got.event = "answered")
            /\ "ok" \in shown.ping => shown.ping = {"ok"}
    /\ got.of = "garbled" =>
         shown.unix.is = "timeout" /\ shown.ping = "timeout" /\ shown.warned.ping

\* What a line says of a hop is read back: every result, in order, the address
\* and the remark.
HopsRead ==
    /\ got.of = "line" =>
         /\ shown.rtts = [i \in DOMAIN got.hop.probes |-> Rtt(Tokens(got.hop.probes[i])[1])]
         /\ shown.address = got.hop.address /\ shown.remark = got.hop.remark
    /\ got.of = "other line" => shown = NoHop
=============================================================================
