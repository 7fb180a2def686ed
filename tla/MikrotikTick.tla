----------------------------- MODULE MikrotikTick -----------------------------
(***************************************************************************)
(* What a tick of run_mikrotik_session (mikrotik/runtime.rs) shows: the    *)
(* core sample with its rates, and the enrichers that run every so many    *)
(* ticks and fail on their own.  A payload is the tick it was fetched on;  *)
(* a port's link is its negotiated rate; one bond spans all ports.         *)
(***************************************************************************)
EXTENDS Integers, FiniteSets, FiniteSetsExt

CONSTANTS
    Ports,           \* ether interfaces, all slaves of the bond
    Links,           \* rates a port may negotiate (naturals above 0)
    HealthEvery,     \* HEALTH_EVERY
    StatsEvery,      \* STATS_DETAIL_EVERY
    VlanEvery,       \* VLAN_EVERY and BONDING_EVERY
    MaxTicks         \* bound on the ticks of a session

VARIABLES
    phase,    \* "wait" for the interval, or "fetch"
    tick,     \* tick
    counters, \* RateState.last: port -> tick of its last byte counters
    kept,     \* EnricherState: sensors, vlans, bonding, the table and the links
    shown,    \* the Snapshot payload
    since     \* history: port -> tick since when each core sample had it

vars == <<phase, tick, counters, kept, shown, since>>

None == 0 \* Option::None; a link or a payload is above it

\* The enrichers that run on this tick: the want_* flags.
Due ==
    (IF tick % HealthEvery = 0 THEN {"health"} ELSE {})
    \cup (IF tick = 1 \/ tick % StatsEvery = 0 THEN {"stats"} ELSE {})
    \cup (IF tick = 1 \/ tick % VlanEvery = 0 THEN {"vlans", "bonding"} ELSE {})

NoLinks == [p \in Ports |-> None]
NoTable == [at |-> None, up |-> {}, link |-> NoLinks]

Init ==
    /\ phase = "wait"
    /\ tick = 0
    /\ counters = [p \in Ports |-> None]
    /\ kept = [sensors |-> None, vlans |-> None, bonding |-> FALSE, table |-> NoTable,
               links |-> NoLinks]
    /\ shown = [table |-> NoTable, bond |-> None, rates |-> NoLinks, sensors |-> None,
                vlans |-> None, warning |-> FALSE]
    /\ since = [p \in Ports |-> None]

-----------------------------------------------------------------------------
(* Rates                                                                   *)

\* Mutant: prune_rates is not called.
NextCountersUnpruned(present) ==
    [p \in Ports |-> IF p \in present THEN tick ELSE counters[p]]

\* compute_rates of a present port remembers its counters; prune_rates forgets
\* the ports that disappeared.
NextCounters(present) == [p \in Ports |-> IF p \in present THEN tick ELSE None]

\* compute_rates: the number of ticks the shown rate is the average of.
Rates(present) ==
    [p \in Ports |-> IF p \in present /\ counters[p] # None THEN tick - counters[p] ELSE None]

-----------------------------------------------------------------------------
(* Links                                                                   *)

\* retain_link_params fills the remembered link into a port that runs.
Retained(up, link) ==
    [p \in Ports |-> IF link[p] = None /\ p \in up THEN kept.links[p] ELSE link[p]]

\* retain_link_params, learned: what a monitor told is remembered.
Learned(link) == [p \in Ports |-> IF link[p] = None THEN kept.links[p] ELSE link[p]]

\* apply_bonding_link: the sum of the running slaves' links, if any is known.
BondLink(table) == MapThenSumSet(LAMBDA p : table.link[p], table.up)

-----------------------------------------------------------------------------
(* One tick                                                                *)

Fire ==
    /\ phase = "wait" /\ tick < MaxTicks
    /\ phase' = "fetch"
    /\ tick' = tick + 1
    /\ UNCHANGED <<counters, kept, shown, since>>

\* A core call fails: a warning, and the tick shows nothing.
Missed ==
    /\ phase = "fetch"
    /\ phase' = "wait"
    /\ UNCHANGED <<tick, counters, kept, shown, since>>

\* An enricher that succeeds (a router without sensors counts) brings this
\* tick's payload; one that fails leaves the last one.
After(enricher, old, ok) == IF enricher \in ok THEN tick ELSE old

\* A due stats enricher that fails shows the last table it completed, if any.
TableOut(table, ok) ==
    IF "stats" \in Due \ ok /\ kept.table.at # None THEN kept.table ELSE table

\* The core sample, then the merges in their order.  present, up: interfaces
\* that exist and run; told: links the monitors of running ports told of.
Sampled(present, up, told, ok) ==
    LET table == [at |-> tick, up |-> up, link |-> Retained(up, told)]
        out == TableOut(table, ok)
        after == [sensors |-> After("health", kept.sensors, ok),
                  vlans |-> After("vlans", kept.vlans, ok),
                  bonding |-> kept.bonding \/ "bonding" \in ok,
                  table |-> IF "stats" \in ok THEN table ELSE kept.table,
                  links |-> Learned(told)]
    IN
    /\ phase = "fetch"
    /\ phase' = "wait"
    /\ kept' = after
    /\ shown' = [table |-> out,
                 bond |-> IF after.bonding THEN BondLink(out) ELSE None,
                 rates |-> Rates(present),
                 sensors |-> after.sensors,
                 vlans |-> IF "vlans" \in Due THEN after.vlans ELSE None,
                 warning |-> Due # ok]
    /\ counters' = NextCounters(present)
    /\ since' = [p \in Ports |-> IF p \notin present THEN None
                                 ELSE IF since[p] = None THEN tick ELSE since[p]]
    /\ UNCHANGED tick

\* run_stats_enrich asks for details and driver counters together, then for the
\* link of one running port after another; the other enrichers run beside it.
Answered ==
    \E present \in SUBSET Ports : \E up \in SUBSET present, ok \in SUBSET Due :
    \E told \in [Ports -> {None} \cup (IF "stats" \in ok THEN Links ELSE {})] :
        /\ \A p \in Ports \ up : told[p] = None
        /\ Sampled(present, up, told, ok)

Next == Fire \/ Missed \/ Answered

Spec == Init /\ [][Next]_vars

-----------------------------------------------------------------------------
(* Properties                                                              *)

TypeOK ==
    /\ tick \in 0..MaxTicks
    /\ \A p \in Ports : kept.links[p] \in Links \cup {None}
    /\ shown.table.at \in 0..tick /\ kept.table.at \in 0..tick

\* The rate column averages over ticks in which the interface was there: an
\* interface that went away and came back starts over.
RatesSpanPresence ==
    \A p \in Ports : shown.rates[p] # None => shown.rates[p] <= counters[p] - since[p]

\* A link "never resurrects for an interface that is currently down"
\* (runtime.rs:236): in any table shown, also one put together from memory.
NoDeadLink ==
    \A p \in Ports : shown.table.link[p] # None => p \in shown.table.up

\* Monitors run on few ticks, "the UI keeps showing the last known values in
\* between": a port that runs and whose link was ever told shows one.
LinkNotBlank ==
    \A p \in Ports :
        p \in shown.table.up /\ shown.table.at > 0 /\ kept.links[p] # None
        /\ shown.table.link[p] = None => shown.table.at < kept.table.at

\* An old table is shown only under a warning.
OldTableWarned == [][shown'.table.at # shown.table.at \/ shown' = shown \/ shown'.warning]_vars

\* Failing enrichers never take a payload away ("null only before the first
\* success"), neither from what is shown nor from what is kept for the next
\* tick that shows it.
PayloadsKept == [][shown'.sensors >= shown.sensors /\ kept'.vlans >= kept.vlans]_vars
=============================================================================
