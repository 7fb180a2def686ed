---------------------------- MODULE Calculations ----------------------------
(* The figures of a ping session (src-tauri/src/stats.rs), kept probe by      *)
(* probe and never computed from the history again, and those of a DNS        *)
(* benchmark (src-tauri/src/dns/bench/stats.rs), computed from its samples.   *)
(*                                                                            *)
(* Floating point is exact here: round trips are multiples of Unit, which the *)
(* means of up to four divide; jitter is in 1/Fine, percentiles in 1/100.     *)
EXTENDS Integers, SequencesExt

VARIABLES
    history, \* outcomes of the probes
    stats,   \* StatsEngine
    bench    \* samples of a benchmark cell and their figures

vars == <<history, stats, bench>>

None == -1
Sum(s) == FoldLeft(LAMBDA n, x : n + x, 0, s)

NoStats == [count |-> 0, loss |-> 0, rtts |-> 0, min |-> None, max |-> None, mean |-> 0,
            m2 |-> 0, jitter |-> None, last |-> None]

Init == history = <<>> /\ stats = NoStats /\ bench = [samples |-> <<>>]

-----------------------------------------------------------------------------
(* StatsEngine *)

MaxPings == 4
Unit == 24
Fine == 16 ^ (MaxPings - 1)
Lost == -2      \* Timeout, or Error
Rtts == {0, Unit, 4 * Unit}

\* RFC 3550, from the round trip before, unless a loss lies between.
Jitter(ms) ==
    IF stats.last = None THEN stats.jitter
    ELSE LET d == ms - stats.last
             j == IF stats.jitter = None THEN 0 ELSE stats.jitter
         IN j + ((IF d < 0 THEN -d ELSE d) * Fine - j) \div 16

\* feed_rtt: Welford's step.
FeedRtt(ms) ==
    LET n == stats.rtts + 1
        mean == stats.mean + (ms - stats.mean) \div n
    IN [stats EXCEPT !.count = @ + 1, !.rtts = n, !.mean = mean,
                     !.m2 = @ + (ms - stats.mean) * (ms - mean),
                     !.min = IF @ = None \/ ms < @ THEN ms ELSE @,
                     !.max = IF ms > @ THEN ms ELSE @,
                     !.jitter = Jitter(ms), !.last = ms]

Feed ==
    /\ Len(history) < MaxPings /\ bench.samples = <<>>
    /\ \E outcome \in Rtts \cup {Lost} :
         /\ history' = Append(history, outcome)
         /\ stats' = IF outcome = Lost
                     THEN [stats EXCEPT !.count = @ + 1, !.loss = @ + 1, !.last = None]
                     ELSE FeedRtt(outcome)
    /\ UNCHANGED bench

-----------------------------------------------------------------------------
(* Benchmark figures *)

MinSamples == 3   \* MIN_PERCENTILE_SAMPLES, 1000
Sorted(samples) == SortSeq(samples, <)

\* percentile: between the two samples around its rank.
Percentile(sorted, p) ==
    LET rank == p * (Len(sorted) - 1)
        lower == rank \div 100 + 1
        upper == IF rank % 100 = 0 THEN lower ELSE lower + 1
    IN 100 * sorted[lower] + (sorted[upper] - sorted[lower]) * (rank % 100)

\* aggregate_with_elapsed; the latency of every sample counts, also of one that
\* failed.
Aggregate ==
    /\ history = <<>> /\ bench.samples = <<>>
    /\ \E n \in 1..5 : \E samples \in [1..n -> {0, 1, 4, 10}] :
         LET s == Sorted(samples) IN
         bench' = [samples |-> samples, min |-> 100 * s[1], max |-> 100 * s[n],
                   median |-> Percentile(s, 50), sum |-> Sum(samples),
                   tail |-> IF n < MinSamples THEN <<>>
                            ELSE <<Percentile(s, 90), Percentile(s, 95), Percentile(s, 99)>>]
    /\ UNCHANGED <<history, stats>>

Next == Feed \/ Aggregate

Spec == Init /\ [][Next]_vars

-----------------------------------------------------------------------------
(* Properties *)

\* Type invariant.
TypeOK == stats.count = Len(history) /\ stats.loss <= stats.count

\* What is kept is what the whole history gives: count, extremes, mean, the sum
\* of squared deviations, and the jitter over pairs of answers that follow each
\* other without a loss between, the last pair weighing a sixteenth.
KeptIsComputed ==
    LET answered == SelectSeq(history, LAMBDA x : x # Lost)
        n == Len(answered)
        squares == Sum([i \in 1..n |-> answered[i] * answered[i]])
        pairs == SelectSeq([i \in 1..Len(history) |-> i],
                           LAMBDA i : i > 1 /\ history[i] # Lost /\ history[i - 1] # Lost)
        k == Len(pairs)
        d(i) == LET x == history[pairs[i]] - history[pairs[i] - 1] IN IF x < 0 THEN -x ELSE x
    IN /\ stats.rtts = n /\ stats.loss = Len(history) - n
       /\ stats.mean * n = Sum(answered)
       /\ stats.m2 * n = n * squares - Sum(answered) * Sum(answered)
       /\ stats.min = (IF n = 0 THEN None ELSE Min(Range(answered)))
       /\ stats.max = (IF n = 0 THEN None ELSE Max(Range(answered)))
       /\ stats.jitter = (IF k = 0 THEN None ELSE
             Sum([i \in 1..k |-> (d(i) * 15 ^ (k - i) * Fine) \div 16 ^ (k - i + 1)]))

\* The percentiles are in order and within the samples, half of which are on
\* either side of the median; those of the tail need enough samples.
FiguresOrdered ==
    bench.samples # <<>> =>
        LET n == Len(bench.samples)
            figures == <<bench.min, bench.median>> \o bench.tail \o <<bench.max>>
        IN /\ \A i \in 1..Len(figures) - 1 : figures[i] <= figures[i + 1]
           /\ 2 * Len(SelectSeq(bench.samples, LAMBDA x : 100 * x <= bench.median)) >= n
           /\ 2 * Len(SelectSeq(bench.samples, LAMBDA x : 100 * x >= bench.median)) >= n
           /\ (bench.tail # <<>>) = (n >= MinSamples)
=============================================================================
