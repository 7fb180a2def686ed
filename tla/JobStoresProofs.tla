---------------------------- MODULE JobStoresProofs ----------------------------
(***************************************************************************)
(* Proofs about the parts of JobStores, each from its own Init and Next.   *)
(* JobsProofs has what follows for Jobs.                                   *)
(***************************************************************************)
EXTENDS JobStores, Sequences, FiniteSetTheorems, WellFoundedInduction, TLAPS

-----------------------------------------------------------------------------
(* The TCP prober *)

PeerTypes ==
    /\ DOMAIN peer = {"owed", "unread", "eof", "sent", "good"}
    /\ peer.unread \in Int /\ peer.sent \in Int /\ peer.good \in Int

ProberInv == PeerTypes /\ Prober!ConfirmedByPeer

\* A step that fails keeps the connection or makes a fresh one.
LEMMA ProberFails ==
    ASSUME Prober!Fails
    PROVE  peer' \in {peer, Prober!Fresh}
BY DEF Prober!Fails, Prober!ErrorOnce

\* A success of the prober has an answer or the end of the connection behind it.
THEOREM ConfirmedByPeerHolds ==
    ASSUME AnswerSize \in Nat
    PROVE  Prober!Init /\ [][Prober!Next]_(Prober!vars) => []Prober!ConfirmedByPeer
<1> USE DEF ProberInv, PeerTypes, Prober!ConfirmedByPeer
<1>1. Prober!Init => ProberInv
  BY DEF Prober!Init, Prober!Fresh
<1>2. ProberInv /\ [Prober!Next]_(Prober!vars) => ProberInv'
  <2> SUFFICES ASSUME ProberInv, [Prober!Next]_(Prober!vars) PROVE ProberInv'
    OBVIOUS
  <2>0. peer' \in {peer, Prober!Fresh} => ProberInv'
    <3>1. CASE peer' = peer
      BY <3>1
    <3>2. CASE peer' = Prober!Fresh
      BY <3>2 DEF Prober!Fresh
    <3> QED
      BY <3>1, <3>2
  <2>1. CASE Prober!Probe
    BY <2>0, <2>1 DEF Prober!Probe
  <2>2. CASE Prober!Write
    BY <2>0, <2>2, ProberFails DEF Prober!Write
  <2>3. CASE Prober!Read
    <3>1. CASE peer' = [peer EXCEPT !.unread = @ - 1, !.good = @ + 1]
      BY <3>1
    <3>2. CASE peer.eof /\ peer' = [peer EXCEPT !.good = @ + 1]
      BY <3>2
    <3> QED
      BY <2>0, <2>3, <3>1, <3>2, ProberFails DEF Prober!Read
  <2>4. CASE Prober!PeerAnswers
    <3>1. PICK n \in 1..AnswerSize :
            peer' = [peer EXCEPT !.owed = @ - 1, !.unread = @ + n, !.sent = @ + n]
      BY <2>4 DEF Prober!PeerAnswers
    <3> QED
      BY <3>1
  <2>5. CASE Prober!PeerCloses
    BY <2>5 DEF Prober!PeerCloses
  <2>6. CASE UNCHANGED Prober!vars
    BY <2>0, <2>6 DEF Prober!vars
  <2> QED
    BY <2>1, <2>2, <2>3, <2>4, <2>5, <2>6 DEF Prober!Next
<1> QED
  BY <1>1, <1>2, PTL

-----------------------------------------------------------------------------
(* The output of the trace program *)

ProgTypes == [state : {"runs", "exited", "killed"}, lines : Seq(BOOLEAN)]
NextTypes == [pc : {"away", "head", "wait", "over"}, last : Nat, due : Nat, read : Nat,
              hops : Seq(Int), over : {"none", "ceiling", "quiet", "end", "pipe", "left"}]

\* The timer is set for the watchdog that runs out first, and time does not pass
\* once the stream is over.
OutputInv ==
    /\ prog \in ProgTypes /\ next \in NextTypes /\ clock \in Nat /\ next.last <= clock
    /\ next.pc # "over" => next.over = "none"
    /\ next.pc = "wait" => next.due \in {Ceiling, next.last + Inactivity}
    /\ Output!WatchdogTrue

LEMMA MinOfTwo ==
    ASSUME NEW a \in Int, NEW b \in Int
    PROVE  Output!Min({a, b}) \in {a, b}
<1>1. \E x \in {a, b} : \A y \in {a, b} : x <= y
  <2>1. CASE a <= b
    BY <2>1
  <2>2. CASE ~(a <= b)
    BY <2>2
  <2> QED
    BY <2>1, <2>2
<1> QED
  BY <1>1 DEF Output!Min

\* What ends the stream ends the program.
LEMMA OutputOver ==
    ASSUME OutputInv, NEW how \in {"ceiling", "quiet", "pipe", "left"}, Output!Over(how),
           how = "ceiling" => clock >= Ceiling,
           how = "quiet" => clock - next.last >= Inactivity
    PROVE  OutputInv'
BY DEF OutputInv, ProgTypes, NextTypes, Output!Over, Output!WatchdogTrue

\* A trace is given up for the reason it names, and no program lives on.
THEOREM WatchdogTrueHolds ==
    ASSUME Ceiling \in Nat, Inactivity \in Nat
    PROVE  Output!Init /\ [][Output!Next]_(Output!vars) => []Output!WatchdogTrue
<1> USE DEF OutputInv, ProgTypes, NextTypes, Output!WatchdogTrue
<1>1. Output!Init => OutputInv
  BY DEF Output!Init, Output!None
<1>2. OutputInv /\ [Output!Next]_(Output!vars) => OutputInv'
  <2> SUFFICES ASSUME OutputInv, [Output!Next]_(Output!vars) PROVE OutputInv'
    OBVIOUS
  <2>1. CASE Output!Prints
    <3>1. PICK hop \in BOOLEAN : prog' = [prog EXCEPT !.lines = Append(@, hop)]
      BY <2>1 DEF Output!Prints
    <3>2. Append(prog.lines, hop) \in Seq(BOOLEAN)
      OBVIOUS
    <3> QED
      BY <2>1, <3>1, <3>2 DEF Output!Prints
  <2>2. CASE Output!Exits
    BY <2>2 DEF Output!Exits
  <2>3. CASE Output!Passes
    BY <2>3 DEF Output!Passes
  <2>4. CASE Output!Asks
    BY <2>4 DEF Output!Asks, Output!Goes
  <2>5. CASE Output!Await
    <3>1. Output!LeftAll \in Int /\ Output!LeftQuiet \in Int
          /\ (Output!LeftAll = 0 => clock >= Ceiling)
          /\ (Output!LeftQuiet = 0 => clock - next.last >= Inactivity)
          /\ (Output!LeftAll # 0 => clock + Output!LeftAll = Ceiling)
          /\ (Output!LeftQuiet # 0 => clock + Output!LeftQuiet = next.last + Inactivity)
      BY DEF Output!LeftAll, Output!LeftQuiet, Output!Left
    <3>2. CASE Output!LeftAll = 0
      BY <2>5, <3>1, <3>2, OutputOver DEF Output!Await
    <3>3. CASE Output!LeftAll # 0 /\ Output!LeftQuiet = 0
      BY <2>5, <3>1, <3>3, OutputOver DEF Output!Await
    <3>4. CASE Output!LeftAll # 0 /\ Output!LeftQuiet # 0
      <4> DEFINE m == Output!Min({Output!LeftAll, Output!LeftQuiet})
      <4>1. m \in {Output!LeftAll, Output!LeftQuiet}
        BY <3>1, MinOfTwo
      <4>2. next' = [next EXCEPT !.pc = "wait", !.due = clock + m] /\ UNCHANGED <<prog, clock>>
            /\ next.pc = "head"
        BY <2>5, <3>4 DEF Output!Await
      <4> HIDE DEF m
      <4> QED
        BY <3>1, <3>4, <4>1, <4>2, clock + m \in Nat
    <3> QED
      BY <3>2, <3>3, <3>4
  <2>6. CASE Output!Reads
    <3> DEFINE line == next.read + 1
               hop == prog.lines[line]
    <3>1. next' = [next EXCEPT !.read = line, !.last = clock,
                               !.pc = IF hop THEN "away" ELSE "head",
                               !.hops = IF hop THEN Append(@, line) ELSE @]
          /\ UNCHANGED <<prog, clock>> /\ next.pc = "wait"
      BY <2>6 DEF Output!Reads
    <3>2. line \in Nat /\ Append(next.hops, line) \in Seq(Int)
      OBVIOUS
    <3> HIDE DEF line, hop
    <3>3. /\ next'.read = line /\ next'.last = clock /\ next'.due = next.due
          /\ next'.over = next.over /\ next'.pc \in {"away", "head"}
          /\ next' \in NextTypes
      BY <3>1, <3>2, ZenonT(40)
    <3> QED
      BY <3>1, <3>3
  <2>7. CASE Output!Closes
    BY <2>7 DEF Output!Closes
  <2>8. CASE Output!Breaks
    BY <2>8, OutputOver DEF Output!Breaks
  <2>9. CASE Output!Fires
    BY <2>9, OutputOver DEF Output!Fires
  <2>10. CASE Output!Drops
    BY <2>10 DEF Output!Drops, Output!Goes
  <2>11. CASE Output!Leaves
    BY <2>11, OutputOver DEF Output!Leaves
  <2>12. CASE UNCHANGED Output!vars
    BY <2>12 DEF Output!vars
  <2> QED
    BY <2>1, <2>2, <2>3, <2>4, <2>5, <2>6, <2>7, <2>8, <2>9, <2>10, <2>11, <2>12
    DEF Output!Next
<1> QED
  BY <1>1, <1>2, PTL

-----------------------------------------------------------------------------
(* The sweep of a scan *)

LEMMA SweepSize == \A S : Sweep!Cardinality(S) = Cardinality(S)
BY DEF Cardinality, Sweep!Cardinality

SweepFields == {"stage", "todo", "running", "ping", "tcp", "names", "found"}
PortsFields == {"pc", "next", "waiting", "running", "open", "result", "stop", "late"}

\* While pings run, a host that answers one has been heard or will be.
SweepInv ==
    /\ DOMAIN sweep = SweepFields /\ DOMAIN ports = PortsFields
    /\ Sweep!Probing => IsFiniteSet(sweep.running)
    /\ IsFiniteSet(ports.running)
    /\ sweep.stage = "ping" => net.ping \subseteq sweep.ping \cup sweep.todo \cup sweep.running
    /\ Sweep!ProbesBounded

\* One more probe where a permit is free, and one less.
LEMMA OneMore ==
    ASSUME NEW S, NEW a, NEW M \in Nat, IsFiniteSet(S), Cardinality(S) < M
    PROVE  IsFiniteSet(S \cup {a}) /\ Cardinality(S \cup {a}) <= M
<1>1. IsFiniteSet(S \cup {a}) /\ Cardinality(S) \in Nat
      /\ Cardinality(S \cup {a}) \in {Cardinality(S), Cardinality(S) + 1}
  BY FS_AddElement, FS_CardinalityType
<1> QED
  BY <1>1

LEMMA OneLess ==
    ASSUME NEW S, NEW a, NEW M \in Nat, IsFiniteSet(S), Cardinality(S) <= M
    PROVE  IsFiniteSet(S \ {a}) /\ Cardinality(S \ {a}) <= M
BY FS_RemoveElement, FS_CardinalityType

\* Probes stay within their permits, and TCP asks no host that answered a ping.
THEOREM ProbesBoundedHolds ==
    ASSUME PingSlots \in Nat, PortSlots \in Nat
    PROVE  Sweep!Init /\ [][Sweep!Next]_(Sweep!vars) => []Sweep!ProbesBounded
<1> USE DEF SweepInv, SweepFields, PortsFields, Sweep!ProbesBounded, Sweep!Probing
<1>1. Sweep!Init => SweepInv
  <2>1. IsFiniteSet({}) /\ Cardinality({}) = 0
    BY FS_EmptySet
  <2> QED
    BY <2>1, SweepSize DEF Sweep!Init, Sweep!AtRest, Sweep!NoPorts, Sweep!Nets
<1>2. SweepInv /\ [Sweep!Next]_(Sweep!vars) => SweepInv'
  <2> SUFFICES ASSUME SweepInv, [Sweep!Next]_(Sweep!vars) PROVE SweepInv'
    OBVIOUS
  <2>0. IsFiniteSet({}) /\ Cardinality({}) = 0
    BY FS_EmptySet
  <2>1. CASE Sweep!ProbeStart
    <3>1. PICK a \in sweep.todo :
            sweep' = [sweep EXCEPT !.todo = @ \ {a}, !.running = @ \cup {a}]
      BY <2>1 DEF Sweep!ProbeStart
    <3>2. IsFiniteSet(sweep.running \cup {a}) /\ Cardinality(sweep.running \cup {a}) <= PingSlots
      BY <2>1, SweepSize, OneMore DEF Sweep!ProbeStart
    <3>3. /\ DOMAIN sweep' = SweepFields /\ UNCHANGED <<net, ports>>
          /\ sweep'.stage = sweep.stage /\ sweep'.ping = sweep.ping
          /\ sweep'.todo = sweep.todo \ {a} /\ sweep'.running = sweep.running \cup {a}
      BY <2>1, <3>1 DEF Sweep!ProbeStart
    <3> QED
      BY <3>2, <3>3, SweepSize
  <2>2. CASE Sweep!ProbeEnd
    <3>1. PICK a \in sweep.running :
            sweep' = [sweep EXCEPT !.running = @ \ {a},
                                   !.ping = IF sweep.stage = "ping" /\ Sweep!Alive(a)
                                            THEN @ \cup {a} ELSE @,
                                   !.tcp = IF sweep.stage = "tcp" /\ Sweep!Alive(a)
                                           THEN @ \cup {a} ELSE @]
      BY <2>2 DEF Sweep!ProbeEnd
    <3>2. IsFiniteSet(sweep.running \ {a}) /\ Cardinality(sweep.running \ {a}) <= PingSlots
      BY <2>2, SweepSize, OneLess DEF Sweep!ProbeEnd
    <3> QED
      BY <2>2, <3>1, <3>2, SweepSize DEF Sweep!ProbeEnd, Sweep!Alive
  <2>3. CASE Sweep!PingOver
    BY <2>0, <2>3, SweepSize DEF Sweep!PingOver, Sweep!StageOver, Sweep!TcpTodo
  <2>4. CASE Sweep!TcpOver
    BY <2>4 DEF Sweep!TcpOver
  <2>5. CASE Sweep!ReadArp \/ Sweep!NameStart \/ Sweep!NameEnd \/ Sweep!NamesOver
    <3>1. /\ DOMAIN sweep' = DOMAIN sweep /\ UNCHANGED <<net, ports>>
          /\ sweep'.stage \notin {"ping", "tcp"}
      BY <2>5 DEF Sweep!ReadArp, Sweep!NameStart, Sweep!NameEnd, Sweep!NamesOver
    <3> QED
      BY <3>1
  <2>6. CASE Sweep!Stop \/ Sweep!PortsBegin \/ Sweep!PortStart \/ Sweep!PortPause
             \/ Sweep!PortsOver
    <3>1. /\ DOMAIN ports' = DOMAIN ports /\ UNCHANGED <<net, sweep>>
          /\ ports'.running = ports.running
      BY <2>6 DEF Sweep!Stop, Sweep!PortsBegin, Sweep!PortStart, Sweep!PortPause, Sweep!PortsOver
    <3> QED
      BY <3>1
  <2>7. CASE Sweep!PortPermit
    <3>1. PICK p \in ports.waiting :
            ports' = [ports EXCEPT !.waiting = @ \ {p}, !.running = @ \cup {p}]
      BY <2>7 DEF Sweep!PortPermit
    <3>2. IsFiniteSet(ports.running \cup {p}) /\ Cardinality(ports.running \cup {p}) <= PortSlots
      BY <2>7, SweepSize, OneMore DEF Sweep!PortPermit
    <3> QED
      BY <2>7, <3>1, <3>2, SweepSize DEF Sweep!PortPermit
  <2>8. CASE Sweep!PortEnd
    <3>1. PICK p \in ports.running :
            ports' = [ports EXCEPT !.running = @ \ {p},
                                   !.open = IF p \in net.open THEN @ \cup {p} ELSE @]
      BY <2>8 DEF Sweep!PortEnd
    <3>2. IsFiniteSet(ports.running \ {p}) /\ Cardinality(ports.running \ {p}) <= PortSlots
      BY SweepSize, OneLess
    <3> QED
      BY <2>8, <3>1, <3>2, SweepSize DEF Sweep!PortEnd
  <2>9. CASE UNCHANGED Sweep!vars
    BY <2>9 DEF Sweep!vars
  <2> QED
    BY <2>1, <2>2, <2>3, <2>4, <2>5, <2>6, <2>7, <2>8, <2>9 DEF Sweep!Next
<1> QED
  BY <1>1, <1>2, PTL

-----------------------------------------------------------------------------
(* Row ids *)

\* A bounded set of row ids has a largest one (0 when it is empty).
LEMMA LargestId ==
    ASSUME NEW S, S \subseteq Nat \ {0}, \E n \in Nat : \A i \in S : i <= n
    PROVE  \E m \in S \cup {0} : \A i \in S : i <= m
<1> DEFINE bounds == {n \in Nat : \A i \in S : i <= n}
<1>1. bounds # {} /\ bounds \subseteq Nat
  OBVIOUS
<1>2. PICK m \in bounds : \A n \in bounds : ~(<<n, m>> \in OpToRel(<, Nat))
  <2> HIDE DEF bounds
  <2>1. IsWellFoundedOn(OpToRel(<, Nat), bounds)
    BY <1>1, NatLessThanWellFounded, IsWellFoundedOnSubset, Zenon
  <2> QED
    BY <1>1, <2>1, WFMin, Zenon
<1>3. \A n \in bounds : ~(n < m)
  BY <1>1, <1>2 DEF OpToRel
<1>4. m \in S \cup {0}
  <2> SUFFICES ASSUME m \notin S, m # 0
               PROVE  FALSE
    OBVIOUS
  <2>1. m - 1 \in Nat /\ \A i \in S : i <= m - 1
    OBVIOUS
  <2> QED
    BY <1>3, <2>1
<1> QED
  BY <1>4

-----------------------------------------------------------------------------
(* The DNS tester *)

DnsKinds == {"none", "lookup", "diagnostics", "benchmark"}
JobTypes ==
    [pc : {"idle", "asking", "create", "finish", "done", "error"}, kind : DnsKinds,
     id : Nat, waiting : Nat, flying : Nat, ok : Nat, failed : Nat, events : Nat,
     total : Nat, slots : Nat, samples : Nat]
DnsRowTypes == [owner : DnsJobs, kind : DnsKinds,
                status : {"running", "partial", "completed"}]

\* The sizes of a lookup and a benchmark are numbers.
DnsAssumption ==
    MaxTypes \in Nat /\ LookupSlots \in Nat /\ MaxQueries \in Nat /\ SampleCap \in Nat

\* A job whose queries have all ended, so far as it had slots to ask them.
Asked(r) ==
    r.pc \in {"finish", "done"} \/ (r.pc = "create" /\ r.kind = "lookup")
        => r.kind = "diagnostics" \/ r.slots = 0 \/ (r.waiting = 0 /\ r.flying = 0)

\* No query is lost or counted twice, and what fails with the history is a
\* benchmark.  A job without a row has no id.
JobFlow(r) ==
    /\ r \in JobTypes
    /\ r.waiting + r.flying + r.ok + r.failed = r.total /\ r.events = r.ok + r.failed
    /\ r.flying <= r.slots /\ r.samples <= SampleCap
    /\ r.pc \in {"idle", "create"} => r.id = 0
    /\ r.pc = "idle" => r.events = 0 /\ r.total = 0
    /\ r.pc # "idle" => r.kind # "none"
    /\ r.pc = "asking" => r.kind = "benchmark" \/ (r.kind = "lookup" /\ r.id = 0)
    /\ r.pc = "error" => r.kind = "benchmark" \/ (r.id = 0 /\ r.events = 0)
    /\ Asked(r)

\* A job that will write into its row.
Writes(r) == r.pc = "finish" \/ (r.pc = "asking" /\ r.kind = "benchmark")

DnsTypeInv ==
    /\ job \in [DnsJobs -> JobTypes]
    /\ \A j \in DnsJobs : JobFlow(job[j])
    /\ Dns!ids \subseteq Nat \ {0} /\ \E n \in Nat : \A i \in Dns!ids : i <= n
    /\ dnsRows \in [Dns!ids -> DnsRowTypes]

\* A job that will write into its row still has it.
HasRow(j) ==
    Writes(job[j]) =>
        /\ job[j].id \in Dns!ids /\ dnsRows[job[j].id].owner = j
        /\ dnsRows[job[j].id].status = "running"

\* A row has the id of its job, and a verdict when the job has written it.
RowOf(i) ==
    LET j == dnsRows[i].owner IN
    /\ job[j].id = i
    /\ IF dnsRows[i].status = "running" THEN \A t \in targets : t.id # i
       ELSE /\ job[j].pc = "done" /\ {t \in targets : t.id = i} = Dns!NewTargets(j)
            /\ dnsRows[i].status = Dns!Verdict(j)

DnsInv ==
    /\ DnsTypeInv
    /\ \A j \in DnsJobs : HasRow(j)
    /\ \A i \in Dns!ids : RowOf(i)
    /\ \A t \in targets : t.id \in Dns!ids

LEMMA DnsNextId ==
    ASSUME DnsTypeInv
    PROVE  Dns!NextId \in Nat \ {0} /\ \A i \in Dns!ids : i < Dns!NextId
<1> DEFINE m == CHOOSE m \in Dns!ids \cup {0} : \A i \in Dns!ids : i <= m
<1>1. m \in Dns!ids \cup {0} /\ \A i \in Dns!ids : i <= m
  <2>1. \E n \in Dns!ids \cup {0} : \A i \in Dns!ids : i <= n
    BY LargestId DEF DnsTypeInv
  <2> QED
    BY <2>1
<1>2. Dns!NextId = 1 + m
  BY DEF Dns!NextId
<1> HIDE DEF m
<1> QED
  BY <1>1, <1>2 DEF DnsTypeInv

\* A step of job j that touches no table.
Moves(j) ==
    /\ Dns!StartLookup(j) \/ Dns!StartDiagnostics(j) \/ Dns!StartBenchmark(j)
       \/ Dns!Ask(j) \/ Dns!Answer(j) \/ Dns!Answered(j)

LEMMA MovesEffect ==
    ASSUME DnsAssumption, DnsTypeInv, NEW j \in DnsJobs, Moves(j)
    PROVE  /\ UNCHANGED <<dnsRows, targets, dnsDbErrors>>
           /\ job[j].pc \in {"idle", "asking"}
           /\ \E r : /\ job' = [job EXCEPT ![j] = r] /\ JobFlow(r)
                     /\ r.id = job[j].id /\ (Writes(r) => Writes(job[j]))
<1> DEFINE q == job[j]
<1>0. q \in JobTypes /\ JobFlow(q)
  BY DEF DnsTypeInv
<1>7. /\ q.waiting \in Nat /\ q.flying \in Nat /\ q.ok \in Nat /\ q.failed \in Nat
      /\ q.events \in Nat /\ q.total \in Nat /\ q.slots \in Nat /\ q.samples \in Nat
  BY <1>0 DEF JobTypes
<1>1. CASE Dns!StartLookup(j)
  <2>0. q.pc = "idle" /\ UNCHANGED <<dnsRows, targets, dnsDbErrors>>
    BY <1>1 DEF Dns!StartLookup, Dns!Goes
  <2>1. PICK good \in 0..MaxTypes, bad \in 0..MaxTypes : job' = [job EXCEPT ![j] =
             IF good + bad = 0 THEN [q EXCEPT !.pc = "error", !.kind = "lookup"]
             ELSE [q EXCEPT !.pc = "asking", !.kind = "lookup", !.total = good + bad,
                            !.waiting = good, !.failed = bad, !.events = bad,
                            !.slots = LookupSlots]]
    BY <1>1 DEF Dns!StartLookup, Dns!Goes
  <2> DEFINE r == IF good + bad = 0 THEN [q EXCEPT !.pc = "error", !.kind = "lookup"]
             ELSE [q EXCEPT !.pc = "asking", !.kind = "lookup", !.total = good + bad,
                            !.waiting = good, !.failed = bad, !.events = bad,
                            !.slots = LookupSlots]
  <2>6. good + bad \in Nat /\ good \in Nat /\ bad \in Nat /\ LookupSlots \in Nat
    BY <1>7, <2>0, <2>1 DEF DnsAssumption
  <2>2. r \in JobTypes
    BY <1>0, <2>6, Zenon DEF JobTypes, DnsKinds
  <2>3. /\ r.id = q.id /\ r.flying = q.flying /\ r.ok = q.ok /\ r.samples = q.samples
        /\ r.kind = "lookup" /\ good \in Nat /\ bad \in Nat
        /\ \/ /\ r.pc = "error" /\ r.waiting = q.waiting /\ r.failed = q.failed
              /\ r.events = q.events /\ r.total = q.total /\ r.slots = q.slots
           \/ /\ r.pc = "asking" /\ r.total = good + bad /\ r.waiting = good
              /\ r.failed = bad /\ r.events = bad /\ r.slots = LookupSlots
    BY <1>0, <2>1 DEF JobTypes
  <2>4. job' = [job EXCEPT ![j] = r]
    BY <2>1
  <2> HIDE DEF r, q
  <2>7. q.waiting = 0 /\ q.total = 0 /\ q.flying = 0 /\ q.ok = 0 /\ q.failed = 0 /\ q.events = 0 /\ q.id = 0
        /\ q.samples <= SampleCap
    BY <1>0, <1>7, <2>0 DEF JobFlow
  <2>5. JobFlow(r) /\ ~Writes(r)
    BY <1>7, <2>2, <2>3, <2>6, <2>7 DEF JobFlow, Asked, Writes, DnsAssumption
  <2> QED
    BY <2>0, <2>3, <2>4, <2>5 DEF q
<1>2. CASE Dns!StartDiagnostics(j)
  <2>0. q.pc = "idle" /\ UNCHANGED <<dnsRows, targets, dnsDbErrors>>
    BY <1>2 DEF Dns!StartDiagnostics, Dns!Goes
  <2>1. PICK pc \in {"error", "create"} :
          job' = [job EXCEPT ![j] = [q EXCEPT !.pc = pc, !.kind = "diagnostics"]]
    BY <1>2 DEF Dns!StartDiagnostics, Dns!Goes
  <2> DEFINE r == [q EXCEPT !.pc = pc, !.kind = "diagnostics"]
  <2>2. r \in JobTypes
    BY <1>0, <2>1 DEF JobTypes, DnsKinds, DnsAssumption
  <2>3. /\ r.pc = pc /\ r.kind = "diagnostics" /\ r.id = q.id
        /\ r.waiting = q.waiting /\ r.flying = q.flying /\ r.ok = q.ok /\ r.failed = q.failed
        /\ r.events = q.events /\ r.total = q.total /\ r.slots = q.slots
        /\ r.samples = q.samples
    BY <1>0, <2>1 DEF JobTypes
  <2>4. job' = [job EXCEPT ![j] = r]
    BY <2>1
  <2> HIDE DEF r, q
  <2>5. JobFlow(r) /\ ~Writes(r)
    BY <1>0, <1>7, <2>0, <2>2, <2>3 DEF JobFlow, Asked, Writes, DnsAssumption
  <2> QED
    BY <2>0, <2>3, <2>4, <2>5 DEF q
<1>3. CASE Dns!StartBenchmark(j)
  <2>0. q.pc = "idle" /\ UNCHANGED <<dnsRows, targets, dnsDbErrors>>
    BY <1>3 DEF Dns!StartBenchmark, Dns!Goes
  <2>1. PICK n \in 0..MaxQueries, c \in 0..2 :
          job' = [job EXCEPT ![j] = [q EXCEPT !.pc = "create", !.kind = "benchmark", !.total = n,
                            !.waiting = n, !.slots = c]]
    BY <1>3 DEF Dns!StartBenchmark, Dns!Goes
  <2> DEFINE r == [q EXCEPT !.pc = "create", !.kind = "benchmark", !.total = n,
                            !.waiting = n, !.slots = c]
  <2>6. n \in Nat /\ c \in Nat
    BY <1>7, <2>0, <2>1 DEF DnsAssumption
  <2>2. r \in JobTypes
    BY <1>0, <2>6, Zenon DEF JobTypes, DnsKinds
  <2>3. /\ r.pc = "create" /\ r.kind = "benchmark" /\ r.id = q.id /\ n \in Nat /\ c \in Nat
        /\ r.waiting = n /\ r.flying = q.flying /\ r.ok = q.ok /\ r.failed = q.failed
        /\ r.events = q.events /\ r.total = n /\ r.slots = c /\ r.samples = q.samples
    BY <1>0, <2>1 DEF JobTypes
  <2>4. job' = [job EXCEPT ![j] = r]
    BY <2>1
  <2> HIDE DEF r, q
  <2>7. q.waiting = 0 /\ q.total = 0 /\ q.flying = 0 /\ q.ok = 0 /\ q.failed = 0 /\ q.events = 0 /\ q.id = 0
        /\ q.samples <= SampleCap
    BY <1>0, <1>7, <2>0 DEF JobFlow
  <2>5. JobFlow(r) /\ ~Writes(r)
    BY <2>2, <2>3, <2>6, <2>7 DEF JobFlow, Asked, Writes, DnsAssumption
  <2> QED
    BY <2>0, <2>3, <2>4, <2>5 DEF q
<1>4. CASE Dns!Ask(j)
  <2>0. q.pc = "asking" /\ q.waiting > 0 /\ q.flying < q.slots /\ UNCHANGED <<dnsRows, targets, dnsDbErrors>>
    BY <1>4 DEF Dns!Ask, Dns!Goes
  <2>1. job' = [job EXCEPT ![j] = [q EXCEPT !.waiting = @ - 1, !.flying = @ + 1]]
    BY <1>4 DEF Dns!Ask, Dns!Goes
  <2> DEFINE r == [q EXCEPT !.waiting = @ - 1, !.flying = @ + 1]
  <2>6. q.waiting - 1 \in Nat /\ q.flying + 1 \in Nat
    BY <1>7, <2>0, <2>1 DEF DnsAssumption
  <2>2. r \in JobTypes
    BY <1>0, <2>6, Zenon DEF JobTypes, DnsKinds
  <2>3. /\ r.pc = q.pc /\ r.kind = q.kind /\ r.id = q.id
        /\ r.waiting = q.waiting - 1 /\ r.flying = q.flying + 1 /\ r.ok = q.ok
        /\ r.failed = q.failed /\ r.events = q.events /\ r.total = q.total
        /\ r.slots = q.slots /\ r.samples = q.samples
    BY <1>0, <2>1 DEF JobTypes
  <2>4. job' = [job EXCEPT ![j] = r]
    BY <2>1
  <2> HIDE DEF r, q
  <2>7. r.waiting + r.flying + r.ok + r.failed = r.total /\ r.events = r.ok + r.failed
        /\ r.flying <= r.slots
    BY <1>0, <1>7, <2>0, <2>3 DEF JobFlow
  <2>5. JobFlow(r) /\ (Writes(r) => Writes(q))
    BY <1>0, <2>0, <2>2, <2>3, <2>7 DEF JobFlow, Asked, Writes
  <2> QED
    BY <2>0, <2>3, <2>4, <2>5 DEF q
<1>5. CASE Dns!Answer(j)
  <2>0. q.pc = "asking" /\ q.flying > 0 /\ UNCHANGED <<dnsRows, targets, dnsDbErrors>>
    BY <1>5 DEF Dns!Answer, Dns!Goes
  <2>1. PICK good \in BOOLEAN : job' = [job EXCEPT ![j] =
                [q EXCEPT !.flying = @ - 1, !.events = @ + 1,
                          !.ok = IF good THEN @ + 1 ELSE @,
                          !.failed = IF good THEN @ ELSE @ + 1,
                          !.samples = Dns!Smaller(SampleCap, @ + 1)]]
    BY <1>5 DEF Dns!Answer, Dns!Goes
  <2> DEFINE r == [q EXCEPT !.flying = @ - 1, !.events = @ + 1,
                            !.ok = IF good THEN @ + 1 ELSE @,
                            !.failed = IF good THEN @ ELSE @ + 1,
                            !.samples = Dns!Smaller(SampleCap, @ + 1)]
  <2>6. /\ q.flying - 1 \in Nat /\ q.events + 1 \in Nat /\ q.ok + 1 \in Nat
        /\ q.failed + 1 \in Nat /\ Dns!Smaller(SampleCap, q.samples + 1) \in Nat
    BY <1>7, <2>0, <2>1 DEF DnsAssumption, Dns!Smaller
  <2>2. r \in JobTypes
    BY <1>0, <2>6, Zenon DEF JobTypes, DnsKinds
  <2>3. /\ r.pc = q.pc /\ r.kind = q.kind /\ r.id = q.id
        /\ r.waiting = q.waiting /\ r.flying = q.flying - 1
        /\ r.ok = (IF good THEN q.ok + 1 ELSE q.ok)
        /\ r.failed = (IF good THEN q.failed ELSE q.failed + 1)
        /\ r.events = q.events + 1 /\ r.total = q.total
        /\ r.slots = q.slots /\ r.samples <= SampleCap
    BY <1>0, <1>7, <2>1 DEF JobTypes, Dns!Smaller, DnsAssumption
  <2>4. job' = [job EXCEPT ![j] = r]
    BY <2>1
  <2> HIDE DEF r, q
  <2>5. JobFlow(r) /\ (Writes(r) => Writes(q))
    BY <1>0, <1>7, <2>0, <2>2, <2>3 DEF JobFlow, Asked, Writes, DnsAssumption
  <2> QED
    BY <2>0, <2>3, <2>4, <2>5 DEF q
<1>6. CASE Dns!Answered(j)
  <2>0. q.pc = "asking" /\ q.flying = 0
        /\ (q.waiting = 0 \/ (q.kind = "benchmark" /\ q.slots = 0)) /\ UNCHANGED <<dnsRows, targets, dnsDbErrors>>
    BY <1>6 DEF Dns!Answered, Dns!Goes
  <2>1. job' = [job EXCEPT ![j] = [q EXCEPT !.pc = IF q.kind = "lookup" THEN "create" ELSE "finish"]]
    BY <1>6 DEF Dns!Answered, Dns!Goes
  <2> DEFINE r == [q EXCEPT !.pc = IF q.kind = "lookup" THEN "create" ELSE "finish"]
  <2>2. r \in JobTypes
    BY <1>0, <2>1 DEF JobTypes, DnsKinds, DnsAssumption
  <2>3. /\ r.pc = (IF q.kind = "lookup" THEN "create" ELSE "finish") /\ r.kind = q.kind
        /\ r.id = q.id /\ r.waiting = q.waiting /\ r.flying = q.flying /\ r.ok = q.ok
        /\ r.failed = q.failed /\ r.events = q.events /\ r.total = q.total
        /\ r.slots = q.slots /\ r.samples = q.samples
    BY <1>0, <2>1 DEF JobTypes
  <2>4. job' = [job EXCEPT ![j] = r]
    BY <2>1
  <2> HIDE DEF r, q
  <2>5. JobFlow(r) /\ (Writes(r) => Writes(q))
    BY <1>0, <1>7, <2>0, <2>2, <2>3 DEF JobFlow, Asked, Writes, DnsAssumption
  <2> QED
    BY <2>0, <2>3, <2>4, <2>5 DEF q
<1> QED
  BY <1>1, <1>2, <1>3, <1>4, <1>5, <1>6 DEF Moves

\* The tables are about jobs that have written or will write.
LEMMA MovesStep ==
    ASSUME DnsAssumption, DnsInv, NEW j \in DnsJobs, Moves(j)
    PROVE  DnsInv'
<1>1. PICK r : /\ job' = [job EXCEPT ![j] = r] /\ JobFlow(r)
               /\ r.id = job[j].id /\ (Writes(r) => Writes(job[j]))
  BY MovesEffect DEF DnsInv
<1>2. UNCHANGED <<dnsRows, targets, dnsDbErrors>> /\ job[j].pc \in {"idle", "asking"}
  BY MovesEffect DEF DnsInv
<1>3. Dns!ids' = Dns!ids
  BY <1>2 DEF Dns!ids
<1>4. DnsTypeInv'
  BY <1>1, <1>2, <1>3 DEF DnsInv, DnsTypeInv, JobFlow
<1>5. ASSUME NEW k \in DnsJobs PROVE HasRow(k)'
  BY <1>1, <1>2, <1>3 DEF DnsInv, DnsTypeInv, HasRow
<1>6. ASSUME NEW i \in Dns!ids' PROVE RowOf(i)'
  <2> DEFINE k == dnsRows[i].owner
  <2>1. k \in DnsJobs /\ RowOf(i)
    BY <1>3 DEF DnsInv, DnsTypeInv, DnsRowTypes
  <2>2. CASE k # j
    <3>1. job'[k] = job[k]
      BY <1>1, <2>1, <2>2 DEF DnsInv, DnsTypeInv
    <3> QED
      BY <1>2, <2>1, <3>1 DEF RowOf, Dns!NewTargets, Dns!Verdict
  <2>3. CASE k = j
    <3>1. dnsRows[i].status = "running"
      BY <1>2, <2>1, <2>3 DEF RowOf
    <3>2. job'[k].id = job[k].id
      BY <1>1, <2>1, <2>3 DEF DnsInv, DnsTypeInv
    <3> QED
      BY <1>2, <2>1, <3>1, <3>2 DEF RowOf
  <2> QED
    BY <2>2, <2>3
<1> QED
  BY <1>2, <1>3, <1>4, <1>5, <1>6 DEF DnsInv

\* A job that goes on after a failing write leaves the tables alone.
LEMMA LostStep ==
    ASSUME DnsAssumption, DnsInv, NEW j \in DnsJobs, Dns!Goes(j, Dns!Lost(j)),
           job[j].pc \in {"create", "finish"}, UNCHANGED <<dnsRows, targets>>
    PROVE  DnsInv'
<1> DEFINE q == job[j]  r == [q EXCEPT !.pc = Dns!Lost(j)]
<1>1. q \in JobTypes /\ JobFlow(q) /\ job \in [DnsJobs -> JobTypes]
  BY DEF DnsInv, DnsTypeInv
<1>2. job' = [job EXCEPT ![j] = r] /\ Dns!Lost(j) = IF q.kind = "benchmark" THEN "error" ELSE "done"
  BY DEF Dns!Goes, Dns!Lost
<1>3. /\ r \in JobTypes /\ r.pc = (IF q.kind = "benchmark" THEN "error" ELSE "done")
      /\ r.kind = q.kind /\ r.id = q.id /\ r.waiting = q.waiting /\ r.flying = q.flying
      /\ r.ok = q.ok /\ r.failed = q.failed /\ r.events = q.events /\ r.total = q.total
      /\ r.slots = q.slots /\ r.samples = q.samples
  BY <1>1, <1>2 DEF JobTypes
<1>4. q.kind # "none"
  BY <1>1 DEF JobFlow
<1>5. job'[j] = r /\ \A k \in DnsJobs \ {j} : job'[k] = job[k]
  BY <1>1, <1>2
<1> HIDE DEF r
<1>6. JobFlow(r) /\ ~Writes(r)
  BY <1>1, <1>3, <1>4 DEF JobFlow, Asked, Writes, JobTypes, DnsKinds
<1>7. Dns!ids' = Dns!ids
  BY DEF Dns!ids
<1>8. DnsTypeInv'
  BY <1>1, <1>2, <1>3, <1>5, <1>6, <1>7 DEF DnsInv, DnsTypeInv
<1>9. ASSUME NEW k \in DnsJobs PROVE HasRow(k)'
  BY <1>5, <1>6, <1>7 DEF DnsInv, HasRow
<1>10. ASSUME NEW i \in Dns!ids' PROVE RowOf(i)'
  <2> DEFINE k == dnsRows[i].owner
  <2>1. k \in DnsJobs /\ RowOf(i)
    BY <1>7 DEF DnsInv, DnsTypeInv, DnsRowTypes
  <2>2. CASE k # j
    BY <1>5, <2>1, <2>2 DEF RowOf, Dns!NewTargets, Dns!Verdict
  <2>3. CASE k = j
    <3>1. dnsRows[i].status = "running"
      BY <2>1, <2>3 DEF RowOf
    <3> QED
      BY <1>3, <1>5, <2>1, <2>3, <3>1 DEF RowOf
  <2> QED
    BY <2>2, <2>3
<1> QED
  BY <1>7, <1>8, <1>9, <1>10 DEF DnsInv

\* A new row is above all others and has nothing yet.
LEMMA CreateStep ==
    ASSUME DnsAssumption, DnsInv, NEW j \in DnsJobs, Dns!CreateRow(j)
    PROVE  DnsInv'
<1> DEFINE q == job[j]  n == Dns!NextId  pc == IF q.kind = "benchmark" THEN "asking" ELSE "finish"
           r == [q EXCEPT !.id = n, !.pc = pc]
<1>1. q \in JobTypes /\ JobFlow(q) /\ job \in [DnsJobs -> JobTypes] /\ q.pc = "create"
  BY DEF DnsInv, DnsTypeInv, Dns!CreateRow
<1>2. n \in Nat \ {0} /\ \A i \in Dns!ids : i < n
  BY DnsNextId DEF DnsInv
<1>3. CASE Dns!Goes(j, Dns!Lost(j)) /\ UNCHANGED <<dnsRows, targets>>
  BY <1>1, <1>3, LostStep
<1>4. CASE /\ dnsRows' = [i \in Dns!ids \cup {n} |->
                       IF i \in Dns!ids THEN dnsRows[i]
                       ELSE [owner |-> j, kind |-> q.kind, status |-> "running"]]
           /\ job' = [job EXCEPT ![j] = r] /\ UNCHANGED targets
  <2>1. r \in JobTypes
    BY <1>1, <1>2, Zenon DEF JobTypes
  <2>2. /\ r.pc = pc /\ r.kind = q.kind /\ r.id = n /\ r.waiting = q.waiting
        /\ r.flying = q.flying /\ r.ok = q.ok /\ r.failed = q.failed /\ r.events = q.events
        /\ r.total = q.total /\ r.slots = q.slots /\ r.samples = q.samples
    BY <1>1 DEF JobTypes
  <2>3. job'[j] = r /\ \A k \in DnsJobs \ {j} : job'[k] = job[k]
    BY <1>1, <1>4
  <2>4. /\ Dns!ids' = Dns!ids \cup {n} /\ n \notin Dns!ids /\ Dns!ids \subseteq Nat \ {0}
        /\ dnsRows'[n] = [owner |-> j, kind |-> q.kind, status |-> "running"]
        /\ \A i \in Dns!ids : dnsRows'[i] = dnsRows[i]
    <3>1. Dns!ids' = DOMAIN dnsRows'
      BY DEF Dns!ids
    <3>2. n \notin Dns!ids /\ Dns!ids \subseteq Nat \ {0}
      BY <1>2 DEF DnsInv, DnsTypeInv
    <3> QED
      BY <1>4, <3>1, <3>2
  <2>5. dnsRows' \in [Dns!ids' -> DnsRowTypes]
    <3>1. [owner |-> j, kind |-> q.kind, status |-> "running"] \in DnsRowTypes
      BY <1>1 DEF DnsRowTypes, JobTypes
    <3> QED
      BY <1>4, <2>4, <3>1 DEF DnsInv, DnsTypeInv
  <2> HIDE DEF r, n, q
  <2>6. JobFlow(r) /\ (Writes(r) => r.id = n)
    BY <1>1, <2>1, <2>2 DEF JobFlow, Asked, JobTypes, DnsKinds
  <2>7. DnsTypeInv'
    <3>1. \E m \in Nat : \A i \in Dns!ids' : i <= m
      <4>1. n \in Nat /\ \A i \in Dns!ids' : i <= n
        BY <1>2, <2>4
      <4> QED
        BY <4>1
    <3> QED
      BY <1>1, <1>2, <1>4, <2>1, <2>3, <2>4, <2>5, <2>6, <3>1 DEF DnsInv, DnsTypeInv
  <2>8. ASSUME NEW k \in DnsJobs PROVE HasRow(k)'
    <3>1. CASE k = j
      BY <2>2, <2>3, <2>4, <3>1 DEF HasRow
    <3>2. CASE k # j
      <4>1. HasRow(k)
        BY DEF DnsInv
      <4>2. job'[k] = job[k]
        BY <2>3, <3>2
      <4> QED
        BY <2>4, <4>1, <4>2 DEF HasRow
    <3> QED
      BY <3>1, <3>2
  <2>9. ASSUME NEW i \in Dns!ids' PROVE RowOf(i)'
    <3>1. CASE i = n
      <4>1. \A t \in targets : t.id # n
        BY <2>4 DEF DnsInv
      <4> QED
        BY <1>4, <2>2, <2>3, <2>4, <3>1, <4>1 DEF RowOf
    <3>2. CASE i # n
      <4> DEFINE k == dnsRows[i].owner
      <4>1. i \in Dns!ids /\ k \in DnsJobs /\ RowOf(i) /\ dnsRows'[i] = dnsRows[i]
        BY <2>4, <3>2 DEF DnsInv, DnsTypeInv, DnsRowTypes
      <4>2. q.id = 0 /\ i # 0
        BY <1>1, <2>4, <4>1 DEF JobFlow
      <4>3. job'[k] = job[k]
        BY <2>3, <4>1, <4>2 DEF RowOf, q
      <4> QED
        BY <1>4, <4>1, <4>3 DEF RowOf, Dns!NewTargets, Dns!Verdict
    <3> QED
      BY <3>1, <3>2
  <2>10. \A t \in targets' : t.id \in Dns!ids'
    BY <1>4, <2>4 DEF DnsInv
  <2> QED
    BY <2>7, <2>8, <2>9, <2>10 DEF DnsInv
<1> QED
  BY <1>3, <1>4 DEF Dns!CreateRow

\* The verdict and the targets are written together, into the job's own row.
LEMMA FinishStep ==
    ASSUME DnsAssumption, DnsInv, NEW j \in DnsJobs, Dns!FinishRow(j)
    PROVE  DnsInv'
<1> DEFINE q == job[j]  r == [q EXCEPT !.pc = "done"]  d == q.id
<1>1. q \in JobTypes /\ JobFlow(q) /\ job \in [DnsJobs -> JobTypes] /\ q.pc = "finish"
  BY DEF DnsInv, DnsTypeInv, Dns!FinishRow
<1>2. d \in Dns!ids /\ dnsRows[d].owner = j /\ dnsRows[d].status = "running"
  BY <1>1 DEF DnsInv, HasRow, Writes
<1>3. CASE Dns!Goes(j, Dns!Lost(j)) /\ UNCHANGED <<dnsRows, targets>>
  BY <1>1, <1>3, LostStep
<1>4. CASE /\ dnsRows' = [i \in Dns!ids |-> IF i = d
                            THEN [dnsRows[i] EXCEPT !.status = Dns!Verdict(j)] ELSE dnsRows[i]]
           /\ targets' = targets \cup Dns!NewTargets(j) /\ Dns!Goes(j, "done")
  <2>1. job' = [job EXCEPT ![j] = r]
    BY <1>4 DEF Dns!Goes
  <2>2. /\ r \in JobTypes /\ r.pc = "done" /\ r.kind = q.kind /\ r.id = d
        /\ r.waiting = q.waiting /\ r.flying = q.flying /\ r.ok = q.ok /\ r.failed = q.failed
        /\ r.events = q.events /\ r.total = q.total /\ r.slots = q.slots
        /\ r.samples = q.samples
    BY <1>1 DEF JobTypes
  <2>3. job'[j] = r /\ \A k \in DnsJobs \ {j} : job'[k] = job[k]
    BY <1>1, <2>1
  <2> HIDE DEF r
  <2>4. JobFlow(r) /\ ~Writes(r)
    BY <1>1, <2>2 DEF JobFlow, Asked, Writes
  <2>5. Dns!ids' = Dns!ids /\ dnsRows \in [Dns!ids -> DnsRowTypes]
    <3>1. Dns!ids' = DOMAIN dnsRows'
      BY DEF Dns!ids
    <3> QED
      BY <1>4, <3>1 DEF DnsInv, DnsTypeInv
  <2>6. Dns!Verdict(j) \in {"partial", "completed"}
    BY DEF Dns!Verdict
  <2>7. /\ dnsRows'[d] = [dnsRows[d] EXCEPT !.status = Dns!Verdict(j)]
        /\ \A i \in Dns!ids \ {d} : dnsRows'[i] = dnsRows[i]
    BY <1>2, <1>4
  <2>8. /\ dnsRows'[d].owner = j /\ dnsRows'[d].status = Dns!Verdict(j)
        /\ dnsRows'[d] \in DnsRowTypes
    BY <1>2, <2>5, <2>6, <2>7 DEF DnsRowTypes
  <2>9. dnsRows' \in [Dns!ids' -> DnsRowTypes]
    BY <1>2, <1>4, <2>5, <2>7, <2>8
  <2>10. DnsTypeInv'
    BY <1>1, <2>1, <2>2, <2>3, <2>4, <2>5, <2>9 DEF DnsInv, DnsTypeInv
  <2>11. ASSUME NEW k \in DnsJobs PROVE HasRow(k)'
    <3>1. CASE k = j
      BY <2>3, <2>4, <3>1 DEF HasRow
    <3>2. CASE k # j
      <4>1. job'[k] = job[k] /\ (Writes(job[k]) => job[k].id # d)
        BY <1>2, <2>3, <3>2 DEF DnsInv, HasRow
      <4> QED
        BY <2>5, <2>7, <4>1 DEF DnsInv, HasRow
    <3> QED
      BY <3>1, <3>2
  <2>12. /\ Dns!NewTargets(j)' = Dns!NewTargets(j) /\ Dns!Verdict(j)' = Dns!Verdict(j)
         /\ \A t \in Dns!NewTargets(j) : t.id = d
    BY <2>2, <2>3 DEF Dns!NewTargets, Dns!Verdict
  <2>13. ASSUME NEW i \in Dns!ids' PROVE RowOf(i)'
    <3>1. CASE i = d
      <4>1. \A t \in targets : t.id # d
        BY <1>2 DEF DnsInv, RowOf
      <4>2. {t \in targets' : t.id = d} = Dns!NewTargets(j)
        BY <1>4, <2>12, <4>1
      <4> QED
        BY <2>2, <2>3, <2>6, <2>8, <2>12, <3>1, <4>2 DEF RowOf
    <3>2. CASE i # d
      <4> DEFINE k == dnsRows[i].owner
      <4>1. i \in Dns!ids /\ k \in DnsJobs /\ RowOf(i) /\ dnsRows'[i] = dnsRows[i]
        BY <2>5, <2>7, <3>2 DEF DnsInv, DnsTypeInv, DnsRowTypes
      <4>2. job'[k] = job[k]
        BY <2>3, <3>2, <4>1 DEF RowOf
      <4>3. {t \in targets' : t.id = i} = {t \in targets : t.id = i}
        BY <1>4, <2>12, <3>2
      <4> QED
        BY <4>1, <4>2, <4>3 DEF RowOf, Dns!NewTargets, Dns!Verdict
    <3> QED
      BY <3>1, <3>2
  <2>14. \A t \in targets' : t.id \in Dns!ids'
    BY <1>2, <1>4, <2>5, <2>12 DEF DnsInv
  <2> QED
    BY <2>10, <2>11, <2>13, <2>14 DEF DnsInv
<1> QED
  BY <1>1, <1>3, <1>4 DEF Dns!FinishRow

\* Only the row of a job that is over goes.
LEMMA DnsDeleteStep ==
    ASSUME DeleteRunning = FALSE, DnsInv, NEW d \in Dns!ids, Dns!Delete(d)
    PROVE  DnsInv'
<1>1. /\ dnsRows' = [k \in Dns!ids \ {d} |-> dnsRows[k]]
      /\ targets' = {t \in targets : t.id # d} /\ UNCHANGED <<job, dnsDbErrors>>
      /\ \A j \in DnsJobs : job[j].id = d => job[j].pc \in {"done", "error"}
  BY DEF Dns!Delete
<1>2. Dns!ids' = Dns!ids \ {d} /\ \A i \in Dns!ids' : dnsRows'[i] = dnsRows[i]
  <2>1. Dns!ids' = DOMAIN dnsRows'
    BY DEF Dns!ids
  <2> QED
    BY <1>1, <2>1
<1>3. DnsTypeInv'
  BY <1>1, <1>2 DEF DnsInv, DnsTypeInv
<1>4. ASSUME NEW j \in DnsJobs PROVE HasRow(j)'
  BY <1>1, <1>2 DEF DnsInv, HasRow, Writes
<1>5. ASSUME NEW i \in Dns!ids' PROVE RowOf(i)'
  <2>1. RowOf(i) /\ i # d /\ dnsRows'[i] = dnsRows[i]
    BY <1>2 DEF DnsInv
  <2>2. {t \in targets' : t.id = i} = {t \in targets : t.id = i}
    BY <1>1, <2>1
  <2>3. \A t \in targets' : t \in targets
    BY <1>1
  <2> QED
    BY <1>1, <2>1, <2>2, <2>3 DEF RowOf, Dns!NewTargets, Dns!Verdict
<1>6. \A t \in targets' : t.id \in Dns!ids'
  BY <1>1, <1>2 DEF DnsInv
<1> QED
  BY <1>3, <1>4, <1>5, <1>6 DEF DnsInv

LEMMA DnsInvHolds ==
    ASSUME DnsAssumption, DeleteRunning = FALSE
    PROVE  Dns!Init /\ [][Dns!Next]_(Dns!vars) => []DnsInv
<1>1. Dns!Init => DnsInv
  <2> SUFFICES ASSUME Dns!Init PROVE DnsInv
    OBVIOUS
  <2>1. job = [j \in DnsJobs |-> Dns!Idle] /\ targets = {} /\ Dns!ids = {}
        /\ dnsRows = [i \in {} |-> Dns!Idle]
    BY DEF Dns!Init, Dns!ids
  <2>2. Dns!Idle \in JobTypes
    BY DEF Dns!Idle, JobTypes, DnsKinds
  <2>3. JobFlow(Dns!Idle) /\ ~Writes(Dns!Idle)
    BY <2>2 DEF Dns!Idle, JobFlow, Asked, Writes, DnsAssumption
  <2> QED
    BY <2>1, <2>2, <2>3 DEF DnsInv, DnsTypeInv, HasRow
<1>2. DnsInv /\ [Dns!Next]_(Dns!vars) => DnsInv'
  <2> SUFFICES ASSUME DnsInv, [Dns!Next]_(Dns!vars) PROVE DnsInv'
    OBVIOUS
  <2>1. ASSUME NEW j \in DnsJobs, Moves(j) PROVE DnsInv'
    BY <2>1, MovesStep
  <2>2. ASSUME NEW j \in DnsJobs, Dns!CreateRow(j) PROVE DnsInv'
    BY <2>2, CreateStep
  <2>3. ASSUME NEW j \in DnsJobs, Dns!FinishRow(j) PROVE DnsInv'
    BY <2>3, FinishStep
  <2>4. ASSUME NEW i \in Dns!ids, Dns!Delete(i) PROVE DnsInv'
    BY <2>4, DnsDeleteStep
  <2>5. CASE UNCHANGED Dns!vars
    <3>1. UNCHANGED <<job, dnsRows, targets, dnsDbErrors>>
      BY <2>5 DEF Dns!vars
    <3> QED
      BY <3>1 DEF DnsInv, DnsTypeInv, HasRow, RowOf, Dns!ids, Dns!NewTargets, Dns!Verdict
  <2> QED
    BY <2>1, <2>2, <2>3, <2>4, <2>5 DEF Dns!Next, Dns!Step, Moves
<1> QED
  BY <1>1, <1>2, PTL

\* Every query of a lookup or benchmark that is over was asked and answered once;
\* a run that shows a verdict shows all the targets of the command that made
\* it, and nobody else's; and only a benchmark fails with the history.
THEOREM BenchmarksHold ==
    ASSUME DnsAssumption, DeleteRunning = FALSE
    PROVE  Dns!Init /\ [][Dns!Next]_(Dns!vars) =>
               [](Dns!EveryQueryAnswered /\ Dns!HistoryWhole /\ Dns!HistoryNeverCosts)
<1>1. DnsInv => Dns!EveryQueryAnswered
  <2> SUFFICES ASSUME DnsInv, NEW j \in DnsJobs, job[j].pc \in {"finish", "done"},
                      job[j].kind # "diagnostics", job[j].slots > 0
               PROVE  job[j].ok + job[j].failed = job[j].total /\ job[j].events = job[j].total
    BY DEF Dns!EveryQueryAnswered
  <2>1. JobFlow(job[j])
    BY DEF DnsInv, DnsTypeInv
  <2> QED
    BY <2>1 DEF JobFlow, Asked, JobTypes
<1>2. DnsInv => Dns!HistoryWhole
  BY DEF DnsInv, RowOf, Dns!HistoryWhole
<1>3. DnsInv => Dns!HistoryNeverCosts
  BY DEF DnsInv, DnsTypeInv, JobFlow, Dns!HistoryNeverCosts
<1> QED
  BY <1>1, <1>2, <1>3, DnsInvHolds, PTL

\* Type correctness of the tester: permits and the ring of samples are kept to,
\* and every target has its run.
THEOREM DnsTypeOKHolds ==
    ASSUME DnsAssumption, DeleteRunning = FALSE
    PROVE  Dns!Init /\ [][Dns!Next]_(Dns!vars) => []Dns!TypeOK
<1>1. DnsInv => Dns!TypeOK
  <2> SUFFICES ASSUME DnsInv PROVE Dns!TypeOK
    OBVIOUS
  <2>1. ASSUME NEW j \in DnsJobs
        PROVE  /\ job[j].pc \in {"idle", "asking", "create", "finish", "done", "error"}
               /\ job[j].flying \in 0..job[j].slots /\ job[j].samples \in 0..SampleCap
    BY DEF DnsInv, DnsTypeInv, JobFlow, JobTypes, DnsAssumption
  <2> QED
    BY <2>1 DEF DnsInv, Dns!TypeOK
<1> QED
  BY <1>1, DnsInvHolds, PTL

-----------------------------------------------------------------------------
(* Saved profiles and their secrets *)

SavedTypes == [tag : Nat, key : Nat, host : Int]
CallTypes ==
    [pc : {"idle", "write", "read_back", "store", "delete_row", "delete_secret", "fetch",
           "connected"},
     op : {"none", "update", "set_secret", "delete", "connect"}, id : Nat,
     profile : SavedTypes,
     answer : {"none", "ok", "not_found", "error", "deleted", "warned", "not_stored"},
     secret : Nat]
OwnedTypes == [no : Nat, profile : Nat, tag : Nat]

\* The bounds of the model are numbers.
StoredAssumption == MaxProfiles \in Nat /\ MaxOwned \in Nat /\ KeyringFaults \in Nat

\* A profile has the key that was made for it.
SavedInv ==
    /\ profilesMade \in Nat /\ profilesMade <= MaxProfiles
    /\ DOMAIN profiles \subseteq 1..profilesMade
    /\ profiles \in [DOMAIN profiles -> SavedTypes]
    /\ \A i \in DOMAIN profiles :
         profiles[i].key = profiles[i].tag /\ profiles[i].tag \in 1..profilesMade

\* A command has the row of a profile that was made, and the profile is still
\* there unless the command has deleted it.
CallOk(q) ==
    /\ q.profile.key = q.profile.tag /\ q.profile.tag <= profilesMade
    /\ q.pc = "idle" => q.id = 0 /\ q.op = "none"
    /\ q.pc # "idle" => q.id # 0 /\ q.profile.tag # 0
    /\ q.op = "delete" <=> q.pc \in {"delete_row", "delete_secret"}
    /\ q.pc = "connected" => q.secret = q.profile.tag
    /\ q.pc \notin {"idle", "delete_secret"} =>
         q.id \in DOMAIN profiles /\ profiles[q.id].tag = q.profile.tag

\* A deletion is alone with its profile.
DeletesAlone ==
    \A c, d \in Calls :
        c # d /\ call[c].id = call[d].id /\ call[c].id # 0 => call[c].op # "delete"

CallsInv ==
    /\ call \in [Calls -> CallTypes] /\ (\A c \in Calls : CallOk(call[c])) /\ DeletesAlone

\* A session has its profile, a backup its profile or none.
RowOwned(r) ==
    r.profile \in DOMAIN profiles /\ profiles[r.profile].tag = r.tag /\ r.tag \in 1..profilesMade

OwnedInv ==
    /\ rowsMade \in 0..MaxOwned
    /\ sessions \subseteq OwnedTypes /\ backups \subseteq OwnedTypes
    /\ \A r \in sessions : RowOwned(r)
    /\ \A r \in backups :
         RowOwned(r) \/ (r.profile = 0 /\ r.tag \in 1..profilesMade)

\* The secrets without a profile, but for those that are about to be deleted.
Lost == DOMAIN keyring \ {profiles[i].key : i \in DOMAIN profiles}
Deleting == {c \in Calls : call[c].pc = "delete_secret"}
LeftOver == Lost \ {call[c].profile.key : c \in Deleting}

\* A secret is under the key of its profile, and one that is left over has cost
\* a failure of the keyring.
SecretsInv ==
    /\ keyringFaults \in 0..KeyringFaults
    /\ DOMAIN keyring \subseteq 1..profilesMade
    /\ keyring = [k \in DOMAIN keyring |-> k]
    /\ Cardinality(LeftOver) <= keyringFaults

StoredInv == SavedInv /\ CallsInv /\ OwnedInv /\ SecretsInv

LEMMA StoredSize == \A S : Stored!Cardinality(S) = Cardinality(S)
BY DEF Cardinality, Stored!Cardinality

LEMMA StoredNextId ==
    ASSUME SavedInv
    PROVE  Stored!NextId \in 1..(profilesMade + 1) /\ Stored!NextId \notin DOMAIN profiles
<1> DEFINE S == DOMAIN profiles
           m == CHOOSE m \in S \cup {0} : \A i \in S : i <= m
<1>1. S \subseteq Nat \ {0} /\ \A i \in S : i <= profilesMade
  BY DEF SavedInv
<1>2. \E n \in S \cup {0} : \A i \in S : i <= n
  <2> HIDE DEF S
  <2> QED
    BY <1>1, LargestId DEF SavedInv
<1>3. m \in S \cup {0} /\ \A i \in S : i <= m
  <2> HIDE DEF S
  <2> QED
    BY <1>2
<1>4. Stored!NextId = 1 + m
  BY DEF Stored!NextId
<1> HIDE DEF m
<1> QED
  BY <1>1, <1>3, <1>4 DEF SavedInv

\* What is left over when less of the keyring is, more profiles are, or more
\* deletions are under way.
LEMMA LeftOverFinite ==
    ASSUME SavedInv, DOMAIN keyring \subseteq 1..profilesMade
    PROVE  IsFiniteSet(Lost) /\ IsFiniteSet(LeftOver)
<1>1. IsFiniteSet(1..profilesMade)
  BY FS_Interval DEF SavedInv
<1>2. Lost \in SUBSET (1..profilesMade) /\ LeftOver \in SUBSET (1..profilesMade)
  BY DEF Lost, LeftOver
<1> QED
  BY <1>1, <1>2, FS_Subset

LEMMA LeftOverShrinks ==
    ASSUME StoredInv, LeftOver' \subseteq LeftOver
    PROVE  Cardinality(LeftOver') <= Cardinality(LeftOver)
<1>1. IsFiniteSet(LeftOver) /\ LeftOver' \in SUBSET LeftOver
  BY LeftOverFinite DEF StoredInv, SecretsInv
<1> QED
  BY <1>1, FS_Subset

LEMMA LeftOverGrows ==
    ASSUME StoredInv, NEW k, LeftOver' \subseteq LeftOver \cup {k}
    PROVE  Cardinality(LeftOver') <= Cardinality(LeftOver) + 1
<1>1. IsFiniteSet(LeftOver) /\ LeftOver' \in SUBSET (LeftOver \cup {k})
  BY LeftOverFinite DEF StoredInv, SecretsInv
<1>2. IsFiniteSet(LeftOver \cup {k}) /\ Cardinality(LeftOver) \in Nat
      /\ Cardinality(LeftOver \cup {k}) \in {Cardinality(LeftOver), Cardinality(LeftOver) + 1}
  BY <1>1, FS_AddElement, FS_CardinalityType
<1>3. Cardinality(LeftOver') <= Cardinality(LeftOver \cup {k}) /\ IsFiniteSet(LeftOver')
  BY <1>1, <1>2, FS_Subset
<1>4. Cardinality(LeftOver') \in Nat
  BY <1>3, FS_CardinalityType
<1> QED
  BY <1>2, <1>3, <1>4

\* Profiles keep who they are.
Kept ==
    /\ profilesMade' \in Nat /\ profilesMade <= profilesMade'
    /\ \A i \in DOMAIN profiles :
         i \in DOMAIN profiles' /\ profiles'[i].tag = profiles[i].tag

\* A command that goes on with its profile, or ends.
LEMMA CallGoesOn ==
    ASSUME CallsInv, NEW c \in Calls, NEW r \in CallTypes, CallOk(r)',
           call' = [call EXCEPT ![c] = r],
           (r.id = 0 /\ r.op = "none") \/ (r.id = call[c].id /\ r.op = call[c].op),
           \A d \in Calls \ {c} : CallOk(call[d]) => CallOk(call[d])'
    PROVE  CallsInv'
<1>1. call'[c] = r /\ \A d \in Calls \ {c} : call'[d] = call[d]
  BY DEF CallsInv
<1>2. call' \in [Calls -> CallTypes]
  BY DEF CallsInv
<1>3. \A d \in Calls : CallOk(call[d])'
  BY <1>1 DEF CallsInv
<1>4. DeletesAlone'
  BY <1>1 DEF CallsInv, DeletesAlone
<1> QED
  BY <1>2, <1>3, <1>4 DEF CallsInv

LEMMA CallOkKept ==
    ASSUME NEW q, q.profile.tag \in Nat, CallOk(q), Kept, profilesMade \in Nat
    PROVE  CallOk(q)'
<1>1. q.profile.tag <= profilesMade'
  BY DEF CallOk, Kept
<1>2. q.pc \notin {"idle", "delete_secret"} =>
        q.id \in DOMAIN profiles' /\ profiles'[q.id].tag = q.profile.tag
  BY DEF CallOk, Kept
<1> QED
  BY <1>1, <1>2 DEF CallOk

LEMMA OthersKept ==
    ASSUME CallsInv, NEW c \in Calls, NEW r, call' = [call EXCEPT ![c] = r], Kept,
           profilesMade \in Nat
    PROVE  \A d \in Calls \ {c} : CallOk(call[d]) => CallOk(call[d])'
<1> SUFFICES ASSUME NEW d \in Calls \ {c}, CallOk(call[d]) PROVE CallOk(call[d])'
  OBVIOUS
<1>1. call'[d] = call[d] /\ call[d] \in CallTypes
  BY DEF CallsInv
<1>2. PICK q \in CallTypes : q = call[d] /\ q = call'[d]
  BY <1>1
<1>3. CallOk(q)'
  <2>1. q.profile.tag \in Nat
    BY DEF CallTypes, SavedTypes
  <2> QED
    BY <1>2, <2>1, CallOkKept
<1> QED
  BY <1>2, <1>3

LEMMA OwnedKept ==
    ASSUME OwnedInv, Kept, profilesMade \in Nat, UNCHANGED <<sessions, backups, rowsMade>>
    PROVE  OwnedInv'
BY DEF OwnedInv, RowOwned, Kept

\* A reply: the command is over.
LEMMA ReplyEffect ==
    ASSUME NEW c \in Calls,
           NEW answer \in {"none", "ok", "not_found", "error", "deleted", "warned",
                           "not_stored"},
           Stored!Reply(c, answer)
    PROVE  \E r \in CallTypes :
             /\ call' = [call EXCEPT ![c] = r] /\ r.pc = "idle" /\ r.id = 0 /\ r.op = "none"
             /\ r.profile.tag = 0 /\ r.profile.key = 0
<1> DEFINE r == [Stored!Idle EXCEPT !.answer = answer]
<1>1. Stored!Idle \in CallTypes
  BY DEF Stored!Idle, Stored!NoProfile, CallTypes, SavedTypes
<1>2. r \in CallTypes
  BY <1>1, Zenon DEF CallTypes
<1>3. r.pc = "idle" /\ r.id = 0 /\ r.op = "none" /\ r.profile.tag = 0 /\ r.profile.key = 0
  BY DEF Stored!Idle, Stored!NoProfile
<1>4. call' = [call EXCEPT ![c] = r]
  BY DEF Stored!Reply
<1> HIDE DEF r
<1> QED
  BY <1>2, <1>3, <1>4

\* A command that ends where the profiles are kept.
LEMMA CallEnds ==
    ASSUME CallsInv, NEW c \in Calls, Kept, profilesMade \in Nat,
           NEW answer \in {"none", "ok", "not_found", "error", "deleted", "warned",
                           "not_stored"},
           Stored!Reply(c, answer)
    PROVE  CallsInv'
<1>1. PICK r \in CallTypes :
             /\ call' = [call EXCEPT ![c] = r] /\ r.pc = "idle" /\ r.id = 0 /\ r.op = "none"
             /\ r.profile.tag = 0 /\ r.profile.key = 0
  BY ReplyEffect
<1>2. CallOk(r)'
  BY <1>1 DEF CallOk, Kept
<1> QED
  BY <1>1, <1>2, CallGoesOn, OthersKept

\* Who is deleting when command c moves and deletes neither before nor after.
LEMMA DeletingKept ==
    ASSUME CallsInv, NEW c \in Calls, NEW r, call' = [call EXCEPT ![c] = r],
           call[c].pc # "delete_secret", r.pc # "delete_secret"
    PROVE  /\ Deleting' = Deleting
           /\ {call[d].profile.key : d \in Deleting}' = {call[d].profile.key : d \in Deleting}
<1>1. call'[c] = r /\ \A d \in Calls \ {c} : call'[d] = call[d]
  BY DEF CallsInv
<1>2. Deleting' = Deleting /\ c \notin Deleting /\ Deleting \subseteq Calls
  BY <1>1 DEF Deleting
<1>3. \A d \in Deleting : call'[d] = call[d]
  BY <1>1, <1>2
<1> QED
  BY <1>2, <1>3

\* Nothing but a command moves.
LEMMA OnlyCall ==
    ASSUME StoredAssumption, StoredInv, NEW c \in Calls, NEW r, call' = [call EXCEPT ![c] = r],
           call[c].pc # "delete_secret", r.pc # "delete_secret", CallsInv',
           UNCHANGED <<profiles, profilesMade, sessions, backups, rowsMade>>,
           \/ UNCHANGED <<keyring, keyringFaults>>
           \/ UNCHANGED keyring /\ keyringFaults < KeyringFaults
              /\ keyringFaults' = keyringFaults + 1
    PROVE  StoredInv'
<1>1. SavedInv'
  BY DEF StoredInv, SavedInv
<1>2. OwnedInv'
  BY DEF StoredInv, OwnedInv, RowOwned
<1>3. LeftOver' = LeftOver
  BY DeletingKept DEF StoredInv, LeftOver, Lost
<1>4. Cardinality(LeftOver) \in Nat
  BY LeftOverFinite, FS_CardinalityType DEF StoredInv, SecretsInv
<1>5. keyringFaults' \in 0..KeyringFaults /\ keyringFaults <= keyringFaults'
      /\ keyringFaults \in Int /\ keyringFaults' \in Int
  BY DEF StoredInv, SecretsInv, StoredAssumption
<1>6. Cardinality(LeftOver') <= keyringFaults'
  BY <1>3, <1>4, <1>5 DEF StoredInv, SecretsInv
<1>7. SecretsInv'
  BY <1>5, <1>6 DEF StoredInv, SecretsInv
<1> QED
  BY <1>1, <1>2, <1>7 DEF StoredInv

\* The same where the command ends.
LEMMA OnlyReply ==
    ASSUME StoredAssumption, StoredInv, NEW c \in Calls, call[c].pc # "delete_secret",
           NEW answer \in {"none", "ok", "not_found", "error", "deleted", "warned",
                           "not_stored"},
           Stored!Reply(c, answer),
           UNCHANGED <<profiles, profilesMade, sessions, backups, rowsMade>>,
           \/ UNCHANGED <<keyring, keyringFaults>>
           \/ UNCHANGED keyring /\ keyringFaults < KeyringFaults
              /\ keyringFaults' = keyringFaults + 1
    PROVE  StoredInv'
<1>1. Kept /\ profilesMade \in Nat
  <2>1. profilesMade \in Nat
    BY DEF StoredInv, SavedInv
  <2> QED
    BY <2>1 DEF Kept
<1>2. PICK r \in CallTypes : call' = [call EXCEPT ![c] = r] /\ r.pc = "idle"
  BY ReplyEffect
<1>3. CallsInv'
  BY <1>1, CallEnds DEF StoredInv
<1> QED
  BY <1>2, <1>3, OnlyCall

\* A command that reads its row first.
LEMMA RequireStep ==
    ASSUME StoredAssumption, EditBusy = FALSE, StoredInv, NEW c \in Calls, NEW i \in Stored!Ids,
           NEW op \in {"update", "set_secret", "delete", "connect"},
           NEW goal \in {"write", "store", "delete_row", "fetch"},
           op = "delete" <=> goal = "delete_row", Stored!Require(c, op, i, goal)
    PROVE  StoredInv'
<1>1. /\ call[c].pc = "idle"
      /\ UNCHANGED <<profiles, keyring, sessions, backups, active, profilesMade, rowsMade,
                     keyringFaults>>
      /\ \A d \in Calls : call[d].id = i => op # "delete" /\ call[d].op # "delete"
  BY DEF Stored!Require
<1>2. CASE i \notin DOMAIN profiles
  <2>1. Stored!Reply(c, "not_found")
    BY <1>2 DEF Stored!Require, Stored!Present
  <2> QED
    BY <1>1, <2>1, OnlyReply
<1>3. CASE i \in DOMAIN profiles
  <2> DEFINE e == [Stored!Idle EXCEPT !.pc = goal, !.op = op, !.id = i, !.profile = profiles[i]]
  <2>1. call' = [call EXCEPT ![c] = e]
    BY <1>3 DEF Stored!Require, Stored!Present
  <2>2. profiles[i] \in SavedTypes /\ i \in Nat \ {0}
    BY <1>3 DEF StoredInv, SavedInv, Stored!Ids, StoredAssumption
  <2>3. /\ e \in CallTypes /\ e.pc = goal /\ e.op = op /\ e.id = i /\ e.profile = profiles[i]
    BY <2>2, Zenon DEF Stored!Idle, Stored!NoProfile, CallTypes, SavedTypes
  <2> HIDE DEF e
  <2>4. PICK r : r = e
    OBVIOUS
  <2>5. CallOk(r)'
    <3>1. /\ profiles[i].key = profiles[i].tag /\ profiles[i].tag # 0
          /\ profiles[i].tag <= profilesMade
      BY <1>3 DEF StoredInv, SavedInv
    <3> QED
      BY <1>1, <1>3, <2>2, <2>3, <2>4, <3>1 DEF CallOk
  <2>6. Kept
    <3>1. profilesMade \in Nat
      BY DEF StoredInv, SavedInv
    <3> QED
      BY <1>1, <3>1 DEF Kept
  <2>7. CallsInv'
    <3>1. call'[c] = r /\ \A d \in Calls \ {c} : call'[d] = call[d]
      BY <2>1, <2>4 DEF StoredInv, CallsInv
    <3>2. call' \in [Calls -> CallTypes]
      BY <2>1, <2>3 DEF StoredInv, CallsInv
    <3>3. \A d \in Calls \ {c} : CallOk(call[d])'
      BY <2>1, <2>4, <2>6, OthersKept DEF StoredInv, CallsInv, SavedInv
    <3>4. DeletesAlone'
      BY <1>1, <2>3, <2>4, <3>1 DEF StoredInv, CallsInv, DeletesAlone
    <3> QED
      BY <2>5, <3>1, <3>2, <3>3, <3>4 DEF CallsInv
  <2> QED
    BY <1>1, <2>1, <2>3, <2>4, <2>7, OnlyCall
<1> QED
  BY <1>2, <1>3

LEMMA CreateProfileStep ==
    ASSUME StoredAssumption, StoredInv, NEW c \in Calls, Stored!CreateProfile(c)
    PROVE  StoredInv'
<1> DEFINE n == Stored!NextId
           e == [tag |-> profilesMade + 1, key |-> profilesMade + 1, host |-> 1]
<1>1. /\ call[c].pc = "idle" /\ profilesMade < MaxProfiles
      /\ profilesMade' = profilesMade + 1 /\ Stored!Reply(c, "ok")
      /\ profiles' = [j \in DOMAIN profiles \cup {n} |-> IF j = n THEN e ELSE profiles[j]]
      /\ UNCHANGED <<keyring, sessions, backups, active, rowsMade, keyringFaults>>
  BY DEF Stored!CreateProfile, Stored!With, Stored!NewRow, Stored!NewKey
<1>2. n \in 1..(profilesMade + 1) /\ n \notin DOMAIN profiles
  BY StoredNextId DEF StoredInv
<1>3. profilesMade \in Nat /\ e \in SavedTypes /\ MaxProfiles \in Nat
  BY DEF StoredInv, SavedInv, SavedTypes, StoredAssumption
<1> HIDE DEF n
<1>4. /\ DOMAIN profiles' = DOMAIN profiles \cup {n} /\ profiles'[n] = e
      /\ \A i \in DOMAIN profiles : profiles'[i] = profiles[i]
  BY <1>1, <1>2
<1> DEFINE tag == profilesMade + 1
<1>5. e.tag = tag /\ e.key = tag
  OBVIOUS
<1> HIDE DEF e
<1>6. Kept
  BY <1>1, <1>3, <1>4 DEF Kept
<1>7. SavedInv'
  <2>1. profilesMade' \in Nat /\ profilesMade' <= MaxProfiles
    BY <1>1, <1>3
  <2>2. DOMAIN profiles' \subseteq 1..profilesMade'
    BY <1>1, <1>2, <1>3, <1>4 DEF StoredInv, SavedInv
  <2>3. profiles' \in [DOMAIN profiles' -> SavedTypes]
    BY <1>1, <1>3, <1>4 DEF StoredInv, SavedInv
  <2>4. ASSUME NEW i \in DOMAIN profiles'
        PROVE  profiles'[i].key = profiles'[i].tag /\ profiles'[i].tag \in 1..profilesMade'
    <3>1. CASE i = n
      BY <1>1, <1>3, <1>4, <1>5, <3>1
    <3>2. CASE i # n
      BY <1>1, <1>3, <1>4, <3>2 DEF StoredInv, SavedInv
    <3> QED
      BY <3>1, <3>2
  <2> QED
    BY <2>1, <2>2, <2>3, <2>4 DEF SavedInv
<1>8. CallsInv'
  BY <1>1, <1>3, <1>6, CallEnds DEF StoredInv
<1>9. OwnedInv'
  BY <1>1, <1>3, <1>6, OwnedKept DEF StoredInv
<1>10. LeftOver' \subseteq LeftOver
  <2>1. PICK r \in CallTypes : call' = [call EXCEPT ![c] = r] /\ r.pc = "idle"
    BY <1>1, ReplyEffect
  <2>2. {call[d].profile.key : d \in Deleting}' = {call[d].profile.key : d \in Deleting}
    BY <1>1, <2>1, DeletingKept DEF StoredInv
  <2>3. Lost' \subseteq Lost
    <3> SUFFICES ASSUME NEW x \in Lost', NEW i \in DOMAIN profiles, x = profiles[i].key
                 PROVE  FALSE
      BY <1>1 DEF Lost
    <3>1. i \in DOMAIN profiles' /\ profiles'[i].key = x
      BY <1>4
    <3> QED
      BY <3>1 DEF Lost
  <2> QED
    BY <2>2, <2>3 DEF LeftOver
<1>11. SecretsInv'
  <2>1. Cardinality(LeftOver') <= keyringFaults
    <3>1. Cardinality(LeftOver') \in Nat /\ Cardinality(LeftOver) \in Nat
      BY <1>1, <1>7, LeftOverFinite, LeftOverFinite, <1>10, FS_CardinalityType, FS_Subset
      DEF StoredInv, SecretsInv
    <3> QED
      BY <1>10, <3>1, LeftOverShrinks DEF StoredInv, SecretsInv
  <2> QED
    BY <1>1, <1>3, <2>1 DEF StoredInv, SecretsInv
<1> QED
  BY <1>7, <1>8, <1>9, <1>11 DEF StoredInv

LEMMA WriteProfileStep ==
    ASSUME StoredAssumption, StoredInv, NEW c \in Calls, Stored!WriteProfile(c)
    PROVE  StoredInv'
<1> DEFINE q == call[c]  i == q.id  r == [q EXCEPT !.pc = "read_back"]
<1>1. q \in CallTypes /\ CallOk(q) /\ q.pc = "write" /\ call' = [call EXCEPT ![c] = r]
      /\ UNCHANGED <<keyring, sessions, backups, active, profilesMade, rowsMade, keyringFaults>>
  BY DEF StoredInv, CallsInv, Stored!WriteProfile, Stored!GoOn
<1>2. i \in DOMAIN profiles
  BY <1>1 DEF CallOk
<1>3. profiles' = [profiles EXCEPT ![i] = [profiles[i] EXCEPT !.host = 3 - @]]
  BY <1>2 DEF Stored!WriteProfile, Stored!Present, Stored!Edited
<1>4. profiles \in [DOMAIN profiles -> SavedTypes]
  BY DEF StoredInv, SavedInv
<1>5. /\ profiles' \in [DOMAIN profiles -> SavedTypes] /\ DOMAIN profiles' = DOMAIN profiles
      /\ \A j \in DOMAIN profiles :
           profiles'[j].tag = profiles[j].tag /\ profiles'[j].key = profiles[j].key
  <2> DEFINE e == [profiles[i] EXCEPT !.host = 3 - @]
  <2>1. e \in SavedTypes /\ e.tag = profiles[i].tag /\ e.key = profiles[i].key
    BY <1>2, <1>4 DEF SavedTypes
  <2>2. profiles' = [profiles EXCEPT ![i] = e]
    BY <1>3
  <2> HIDE DEF e
  <2> QED
    BY <1>2, <1>4, <2>1, <2>2
<1>6. SavedInv'
  BY <1>1, <1>5 DEF StoredInv, SavedInv
<1>7. r \in CallTypes /\ r.pc = "read_back" /\ r.id = q.id /\ r.op = q.op /\ r.profile = q.profile
      /\ q.profile.tag \in Nat
  BY <1>1 DEF CallTypes, SavedTypes
<1>8. profilesMade \in Nat
  BY DEF StoredInv, SavedInv
<1>9. Kept
  BY <1>1, <1>5, <1>8 DEF Kept
<1> HIDE DEF r
<1>10. PICK x \in CallTypes : x = r
  BY <1>7
<1>11. CallOk(x)'
  <2>1. CallOk(x)
    BY <1>1, <1>7, <1>10 DEF CallOk
  <2>2. x.profile.tag \in Nat
    BY <1>7, <1>10
  <2> QED
    BY <1>8, <1>9, <2>1, <2>2, CallOkKept
<1>12. CallsInv'
  BY <1>1, <1>7, <1>8, <1>9, <1>10, <1>11, CallGoesOn, OthersKept DEF StoredInv
<1>13. OwnedInv'
  BY <1>1, <1>8, <1>9, OwnedKept DEF StoredInv
<1>14. LeftOver' = LeftOver
  <2>1. {call[d].profile.key : d \in Deleting}' = {call[d].profile.key : d \in Deleting}
    BY <1>1, <1>7, DeletingKept DEF StoredInv
  <2>2. {profiles[j].key : j \in DOMAIN profiles}' = {profiles[j].key : j \in DOMAIN profiles}
    BY <1>5
  <2> QED
    BY <1>1, <2>1, <2>2 DEF LeftOver, Lost
<1>15. SecretsInv'
  BY <1>1, <1>14 DEF StoredInv, SecretsInv
<1> QED
  BY <1>6, <1>12, <1>13, <1>15 DEF StoredInv

\* A secret is stored for a profile that is there.
LEMMA StoreSecretStep ==
    ASSUME StoredAssumption, StoredInv, NEW c \in Calls, Stored!StoreSecret(c)
    PROVE  StoredInv'
<1> DEFINE q == call[c]  t == q.profile.tag
<1>1. q \in CallTypes /\ CallOk(q) /\ q.pc = "store"
      /\ UNCHANGED <<profiles, sessions, backups, active, profilesMade, rowsMade>>
  BY DEF StoredInv, CallsInv, Stored!StoreSecret
<1>2. CASE /\ keyring' = Stored!With(keyring, q.profile.key, t) /\ UNCHANGED keyringFaults
           /\ Stored!Reply(c, "ok")
  <2>1. /\ q.id \in DOMAIN profiles /\ profiles[q.id].key = t /\ t \in 1..profilesMade
        /\ q.profile.key = t
    BY <1>1 DEF CallOk, StoredInv, SavedInv
  <2> HIDE DEF q, t
  <2>2. keyring' = [k \in DOMAIN keyring \cup {t} |-> k]
    BY <1>2, <2>1 DEF Stored!With, StoredInv, SecretsInv
  <2>3. DOMAIN keyring' = DOMAIN keyring \cup {t}
    BY <2>2
  <2>4. Kept /\ profilesMade \in Nat
    <3>1. profilesMade \in Nat
      BY DEF StoredInv, SavedInv
    <3> QED
      BY <1>1, <3>1 DEF Kept
  <2>5. SavedInv' /\ CallsInv' /\ OwnedInv'
    <3>1. SavedInv'
      BY <1>1 DEF StoredInv, SavedInv
    <3>2. CallsInv'
      BY <1>2, <2>4, CallEnds DEF StoredInv
    <3> QED
      BY <1>1, <2>4, <3>1, <3>2, OwnedKept DEF StoredInv
  <2>6. LeftOver' = LeftOver
    <3>1. PICK r \in CallTypes : call' = [call EXCEPT ![c] = r] /\ r.pc = "idle"
      BY <1>2, ReplyEffect
    <3>2. {call[d].profile.key : d \in Deleting}' = {call[d].profile.key : d \in Deleting}
      BY <1>1, <3>1, DeletingKept DEF StoredInv, q
    <3>3. Lost' = Lost
      BY <1>1, <2>1, <2>3 DEF Lost
    <3> QED
      BY <3>2, <3>3 DEF LeftOver
  <2>7. SecretsInv'
    BY <1>1, <1>2, <2>1, <2>2, <2>3, <2>6 DEF StoredInv, SecretsInv
  <2> QED
    BY <2>5, <2>7 DEF StoredInv
<1>3. CASE /\ keyringFaults < KeyringFaults /\ keyringFaults' = keyringFaults + 1
           /\ UNCHANGED keyring /\ Stored!Reply(c, "error")
  BY <1>1, <1>3, OnlyReply
<1> QED
  BY <1>2, <1>3 DEF Stored!StoreSecret, Stored!Keyring

\* What belongs to a profile goes with it, or forgets it.
LEMMA DeleteRowStep ==
    ASSUME StoredAssumption, StoredInv, NEW c \in Calls, Stored!DeleteRow(c)
    PROVE  StoredInv'
<1> DEFINE q == call[c]  i == q.id  r == [q EXCEPT !.pc = "delete_secret"]  t == q.profile.tag
<1>1. /\ q \in CallTypes /\ CallOk(q) /\ q.pc = "delete_row" /\ call' = [call EXCEPT ![c] = r]
      /\ profiles' = [j \in DOMAIN profiles \ {i} |-> profiles[j]]
      /\ sessions' = {s \in sessions : s.profile # i}
      /\ backups' = {IF b.profile = i THEN [b EXCEPT !.profile = 0] ELSE b : b \in backups}
      /\ UNCHANGED <<keyring, active, profilesMade, rowsMade, keyringFaults>>
  BY DEF StoredInv, CallsInv, Stored!DeleteRow, Stored!GoOn, Stored!Without
<1>2. /\ i \in DOMAIN profiles /\ profiles[i].key = t /\ i # 0 /\ i \in Nat
      /\ q.op = "delete" /\ q.profile.key = t
  BY <1>1 DEF CallOk, StoredInv, SavedInv, CallTypes
<1>3. /\ DOMAIN profiles' = DOMAIN profiles \ {i}
      /\ \A j \in DOMAIN profiles \ {i} : profiles'[j] = profiles[j]
  BY <1>1
<1>4. SavedInv'
  <2>1. profiles' \in [DOMAIN profiles' -> SavedTypes]
    BY <1>1, <1>3 DEF StoredInv, SavedInv
  <2> QED
    BY <1>1, <1>3, <2>1 DEF StoredInv, SavedInv
<1>5. /\ r \in CallTypes /\ r.pc = "delete_secret" /\ r.id = q.id /\ r.op = q.op
      /\ r.profile = q.profile
  BY <1>1 DEF CallTypes
<1> HIDE DEF r
<1>6. PICK x \in CallTypes : x = r
  BY <1>5
<1>7. CallOk(x)'
  BY <1>1, <1>2, <1>5, <1>6 DEF CallOk
<1>8. \A d \in Calls \ {c} : CallOk(call[d]) => CallOk(call[d])'
  <2> SUFFICES ASSUME NEW d \in Calls \ {c}, CallOk(call[d]) PROVE CallOk(call[d])'
    OBVIOUS
  <2>1. call'[d] = call[d]
    BY <1>1 DEF StoredInv, CallsInv
  <2>2. call[d].id # i
    BY <1>2 DEF StoredInv, CallsInv, DeletesAlone
  <2> QED
    BY <1>1, <1>3, <2>1, <2>2 DEF CallOk
<1>9. CallsInv'
  BY <1>1, <1>5, <1>6, <1>7, <1>8, CallGoesOn DEF StoredInv
<1>10. OwnedInv'
  <2>1. sessions' \subseteq OwnedTypes /\ \A s \in sessions' : RowOwned(s)'
    <3> SUFFICES ASSUME NEW s \in sessions' PROVE s \in OwnedTypes /\ RowOwned(s)'
      OBVIOUS
    <3>1. s \in sessions /\ s.profile # i
      BY <1>1
    <3> QED
      BY <1>1, <1>3, <3>1 DEF StoredInv, OwnedInv, RowOwned
  <2>2. ASSUME NEW b \in backups'
        PROVE  /\ b \in OwnedTypes
               /\ RowOwned(b)' \/ (b.profile = 0 /\ b.tag \in 1..profilesMade')
    <3>1. PICK a \in backups : b = IF a.profile = i THEN [a EXCEPT !.profile = 0] ELSE a
      BY <1>1
    <3>2. a \in OwnedTypes /\ (RowOwned(a) \/ (a.profile = 0 /\ a.tag \in 1..profilesMade))
      BY DEF StoredInv, OwnedInv
    <3>3. CASE a.profile = i
      <4>1. b \in OwnedTypes /\ b.profile = 0 /\ b.tag = a.tag
        BY <3>1, <3>2, <3>3 DEF OwnedTypes
      <4> QED
        BY <1>1, <3>2, <4>1 DEF RowOwned
    <3>4. CASE a.profile # i
      BY <1>1, <1>3, <3>1, <3>2, <3>4 DEF RowOwned
    <3> QED
      BY <3>3, <3>4
  <2> QED
    BY <1>1, <2>1, <2>2 DEF StoredInv, OwnedInv
<1>11. LeftOver' \subseteq LeftOver
  <2>1. call'[c] = r /\ \A d \in Calls \ {c} : call'[d] = call[d]
    BY <1>1 DEF StoredInv, CallsInv
  <2> SUFFICES ASSUME NEW k \in LeftOver' PROVE k \in LeftOver
    OBVIOUS
  <2>2. k \in DOMAIN keyring /\ \A j \in DOMAIN profiles \ {i} : k # profiles[j].key
    BY <1>1, <1>3 DEF LeftOver, Lost
  <2>3. \A d \in Calls : call'[d].pc = "delete_secret" => k # call'[d].profile.key
    BY DEF LeftOver, Deleting
  <2>4. k # t
    BY <1>2, <1>5, <2>1, <2>3
  <2>5. k \in Lost
    BY <1>2, <2>2, <2>4 DEF Lost
  <2>6. \A d \in Calls : call[d].pc = "delete_secret" => k # call[d].profile.key
    BY <1>1, <2>1, <2>3
  <2> QED
    BY <2>5, <2>6 DEF LeftOver, Deleting
<1>12. SecretsInv'
  <2>1. Cardinality(LeftOver') \in Nat /\ Cardinality(LeftOver) \in Nat
    BY <1>1, <1>4, <1>11, LeftOverFinite, FS_CardinalityType, FS_Subset
    DEF StoredInv, SecretsInv
  <2> QED
    BY <1>1, <1>11, <2>1, LeftOverShrinks DEF StoredInv, SecretsInv
<1> QED
  BY <1>4, <1>9, <1>10, <1>12 DEF StoredInv

\* Nothing happens to the profiles when a deletion is over, however it ends.
LEMMA DeleteSecretStep ==
    ASSUME StoredAssumption, StoredInv, NEW c \in Calls, Stored!DeleteSecret(c)
    PROVE  StoredInv'
<1> DEFINE key == call[c].profile.key
<1>1. /\ call[c].pc = "delete_secret"
      /\ UNCHANGED <<profiles, sessions, backups, active, profilesMade, rowsMade>>
      /\ \E answer \in {"deleted", "warned"} : Stored!Reply(c, answer)
      /\ \/ /\ keyring' = [k \in DOMAIN keyring \ {key} |-> keyring[k]]
            /\ UNCHANGED keyringFaults
         \/ /\ UNCHANGED keyring /\ keyringFaults < KeyringFaults
            /\ keyringFaults' = keyringFaults + 1
  BY DEF Stored!DeleteSecret, Stored!Keyring, Stored!Without
<1>2. PICK r \in CallTypes : call' = [call EXCEPT ![c] = r] /\ r.pc = "idle"
  BY <1>1, ReplyEffect
<1>3. call'[c] = r /\ \A d \in Calls \ {c} : call'[d] = call[d]
  BY <1>2 DEF StoredInv, CallsInv
<1>4. Kept /\ profilesMade \in Nat
  <2>1. profilesMade \in Nat
    BY DEF StoredInv, SavedInv
  <2> QED
    BY <1>1, <2>1 DEF Kept
<1>5. SavedInv' /\ CallsInv' /\ OwnedInv'
  <2>1. SavedInv'
    BY <1>1 DEF StoredInv, SavedInv
  <2>2. CallsInv'
    BY <1>1, <1>4, CallEnds DEF StoredInv
  <2> QED
    BY <1>1, <1>4, <2>1, <2>2, OwnedKept DEF StoredInv
<1>6. /\ DOMAIN keyring' \subseteq DOMAIN keyring
      /\ keyring' = [k \in DOMAIN keyring' |-> k]
  BY <1>1 DEF StoredInv, SecretsInv
<1>7. LeftOver' \subseteq LeftOver \cup {key} /\ (key \notin DOMAIN keyring' => LeftOver' \subseteq LeftOver)
  <2> SUFFICES ASSUME NEW k \in LeftOver', k # key PROVE k \in LeftOver
    BY DEF LeftOver, Lost
  <2>1. k \in Lost
    BY <1>1, <1>6 DEF LeftOver, Lost
  <2>2. \A d \in Calls : call'[d].pc = "delete_secret" => k # call'[d].profile.key
    BY DEF LeftOver, Deleting
  <2> QED
    BY <1>3, <2>1, <2>2 DEF LeftOver, Deleting
<1>8. Cardinality(LeftOver') \in Nat /\ Cardinality(LeftOver) \in Nat
  <2>1. DOMAIN keyring \subseteq 1..profilesMade /\ DOMAIN keyring' \subseteq 1..profilesMade'
    BY <1>1, <1>6 DEF StoredInv, SecretsInv
  <2>2. IsFiniteSet(LeftOver)
    BY <2>1, LeftOverFinite DEF StoredInv
  <2>3. IsFiniteSet(LeftOver')
    <3>1. IsFiniteSet(LeftOver \cup {key}) /\ LeftOver' \in SUBSET (LeftOver \cup {key})
      BY <1>7, <2>2, FS_AddElement
    <3> QED
      BY <3>1, FS_Subset
  <2> QED
    BY <2>2, <2>3, FS_CardinalityType
<1>9. keyringFaults \in Nat /\ keyringFaults <= KeyringFaults /\ KeyringFaults \in Nat
      /\ Cardinality(LeftOver) <= keyringFaults
  BY DEF StoredInv, SecretsInv, StoredAssumption
<1>10. SecretsInv'
  <2>1. DOMAIN keyring' \subseteq 1..profilesMade'
    BY <1>1, <1>6 DEF StoredInv, SecretsInv
  <2>2. CASE keyring' = [k \in DOMAIN keyring \ {key} |-> keyring[k]] /\ UNCHANGED keyringFaults
    <3>1. LeftOver' \subseteq LeftOver
      BY <1>7, <2>2
    <3>2. Cardinality(LeftOver') <= Cardinality(LeftOver)
      BY <3>1, LeftOverShrinks
    <3> QED
      BY <1>6, <1>8, <1>9, <2>1, <2>2, <3>2 DEF SecretsInv
  <2>3. CASE keyringFaults < KeyringFaults /\ keyringFaults' = keyringFaults + 1
    <3>1. Cardinality(LeftOver') <= Cardinality(LeftOver) + 1
      BY <1>7, LeftOverGrows
    <3> QED
      BY <1>6, <1>8, <1>9, <2>1, <2>3, <3>1 DEF SecretsInv
  <2> QED
    BY <1>1, <2>2, <2>3
<1> QED
  BY <1>5, <1>10 DEF StoredInv

\* The secret that is found is the profile's own.
LEMMA FetchSecretStep ==
    ASSUME StoredAssumption, StoredInv, NEW c \in Calls, Stored!FetchSecret(c)
    PROVE  StoredInv'
<1> DEFINE q == call[c]  t == q.profile.key  r == [q EXCEPT !.pc = "connected", !.secret = t]
<1>1. q \in CallTypes /\ CallOk(q) /\ q.pc = "fetch" /\ UNCHANGED keyring
      /\ UNCHANGED <<profiles, sessions, backups, active, profilesMade, rowsMade>>
  BY DEF StoredInv, CallsInv, Stored!FetchSecret, Stored!Keyring
<1>2. CASE UNCHANGED keyringFaults /\ t \in DOMAIN keyring
           /\ call' = [call EXCEPT ![c] = [q EXCEPT !.pc = "connected", !.secret = keyring[t]]]
  <2>1. keyring[t] = t
    BY <1>2 DEF StoredInv, SecretsInv
  <2>2. call' = [call EXCEPT ![c] = r]
    BY <1>2, <2>1
  <2>3. /\ r \in CallTypes /\ r.pc = "connected" /\ r.id = q.id /\ r.op = q.op
        /\ r.profile = q.profile /\ r.secret = t
    BY <1>1 DEF CallTypes, SavedTypes
  <2> HIDE DEF r
  <2>4. PICK x \in CallTypes : x = r
    BY <2>3
  <2>5. CallOk(x)'
    BY <1>1, <2>3, <2>4 DEF CallOk
  <2>6. Kept /\ profilesMade \in Nat
    <3>1. profilesMade \in Nat
      BY DEF StoredInv, SavedInv
    <3> QED
      BY <1>1, <3>1 DEF Kept
  <2>7. CallsInv'
    BY <2>2, <2>3, <2>4, <2>5, <2>6, CallGoesOn, OthersKept DEF StoredInv
  <2> QED
    BY <1>1, <1>2, <2>2, <2>3, <2>4, <2>7, OnlyCall
<1>3. CASE UNCHANGED keyringFaults /\ Stored!Reply(c, "not_stored")
  BY <1>1, <1>3, OnlyReply
<1>4. CASE keyringFaults < KeyringFaults /\ keyringFaults' = keyringFaults + 1
           /\ Stored!Reply(c, "error")
  BY <1>1, <1>4, OnlyReply
<1> QED
  BY <1>2, <1>3, <1>4 DEF Stored!FetchSecret, Stored!Keyring

\* A session or backup is filed under the profile it was made with.
LEMMA UseStep ==
    ASSUME StoredAssumption, StoredInv, NEW c \in Calls,
           NEW what \in {"session", "backup", "test"}, Stored!Use(c, what)
    PROVE  StoredInv'
<1> DEFINE q == call[c]
           e == [no |-> rowsMade + 1, profile |-> q.id, tag |-> q.profile.tag]
<1>1. q \in CallTypes /\ CallOk(q) /\ q.pc = "connected"
  BY DEF StoredInv, CallsInv, Stored!Use
<1>2. /\ q.id \in DOMAIN profiles /\ profiles[q.id].tag = q.profile.tag
      /\ q.profile.tag \in 1..profilesMade /\ q.id \in Nat /\ q.profile.tag \in Nat
  BY <1>1 DEF CallOk, StoredInv, SavedInv, CallTypes, SavedTypes
<1>3. /\ sessions' \in {sessions, sessions \cup {e}} /\ backups' \in {backups, backups \cup {e}}
      /\ rowsMade < MaxOwned /\ rowsMade' = rowsMade + 1
      /\ \E answer \in {"ok", "error"} : Stored!Reply(c, answer)
      /\ UNCHANGED <<profiles, keyring, profilesMade, keyringFaults>>
  BY DEF Stored!Use
<1>4. rowsMade \in Nat /\ MaxOwned \in Nat /\ profilesMade \in Nat
  BY DEF StoredInv, OwnedInv, SavedInv, StoredAssumption
<1>5. e \in OwnedTypes /\ RowOwned(e)
  BY <1>2, <1>4 DEF OwnedTypes, RowOwned
<1> HIDE DEF e
<1>6. OwnedInv'
  <2>1. sessions' \subseteq OwnedTypes /\ backups' \subseteq OwnedTypes
    BY <1>3, <1>5 DEF StoredInv, OwnedInv
  <2>2. \A x : RowOwned(x) => RowOwned(x)'
    BY <1>3 DEF RowOwned
  <2>3. \A x \in sessions' : RowOwned(x)
    BY <1>3, <1>5 DEF StoredInv, OwnedInv
  <2>4. \A x \in backups' : RowOwned(x) \/ (x.profile = 0 /\ x.tag \in 1..profilesMade')
    BY <1>3, <1>5 DEF StoredInv, OwnedInv
  <2>5. rowsMade' \in 0..MaxOwned
    BY <1>3, <1>4
  <2> QED
    BY <2>1, <2>2, <2>3, <2>4, <2>5 DEF OwnedInv
<1>7. Kept
  BY <1>3, <1>4 DEF Kept
<1>8. SavedInv' /\ CallsInv'
  <2>1. SavedInv'
    BY <1>3 DEF StoredInv, SavedInv
  <2>2. CallsInv'
    BY <1>3, <1>4, <1>7, CallEnds DEF StoredInv
  <2> QED
    BY <2>1, <2>2
<1>9. SecretsInv'
  <2>1. PICK r \in CallTypes : call' = [call EXCEPT ![c] = r] /\ r.pc = "idle"
    BY <1>3, ReplyEffect
  <2>2. LeftOver' = LeftOver
    BY <1>1, <1>3, <2>1, DeletingKept DEF StoredInv, LeftOver, Lost
  <2> QED
    BY <1>3, <2>2 DEF StoredInv, SecretsInv
<1> QED
  BY <1>6, <1>8, <1>9 DEF StoredInv

\* What no step of a command touches.
LEMMA StoredStutters ==
    ASSUME StoredInv,
           UNCHANGED <<profiles, keyring, sessions, backups, call, profilesMade, rowsMade,
                       keyringFaults>>
    PROVE  StoredInv'
<1>1. SavedInv'
  BY DEF StoredInv, SavedInv
<1>2. CallsInv'
  BY DEF StoredInv, CallsInv, CallOk, DeletesAlone
<1>3. OwnedInv'
  BY DEF StoredInv, OwnedInv, RowOwned
<1>4. SecretsInv'
  BY DEF StoredInv, SecretsInv, LeftOver, Lost, Deleting
<1> QED
  BY <1>1, <1>2, <1>3, <1>4 DEF StoredInv

LEMMA StoredInitHolds ==
    ASSUME StoredAssumption, Stored!Init
    PROVE  StoredInv
<1>1. /\ profiles = [x \in {} |-> x] /\ keyring = [x \in {} |-> x] /\ sessions = {}
      /\ backups = {} /\ call = [c \in Calls |-> Stored!Idle] /\ profilesMade = 0
      /\ rowsMade = 0 /\ keyringFaults = 0
  BY DEF Stored!Init, Stored!Empty
<1>2. DOMAIN profiles = {} /\ DOMAIN keyring = {}
  BY <1>1
<1>3. SavedInv
  BY <1>1, <1>2 DEF SavedInv, StoredAssumption
<1>4. CallsInv
  <2>1. Stored!Idle \in CallTypes
    BY DEF Stored!Idle, Stored!NoProfile, CallTypes, SavedTypes
  <2>2. CallOk(Stored!Idle)
    BY <1>1 DEF Stored!Idle, Stored!NoProfile, CallOk
  <2>3. Stored!Idle.op = "none"
    BY DEF Stored!Idle
  <2> QED
    BY <1>1, <2>1, <2>2, <2>3 DEF CallsInv, DeletesAlone
<1>5. OwnedInv
  BY <1>1 DEF OwnedInv, StoredAssumption
<1>6. SecretsInv
  <2>1. LeftOver = {}
    BY <1>2 DEF LeftOver, Lost
  <2>2. Cardinality(LeftOver) = 0
    BY <2>1, FS_EmptySet
  <2> QED
    BY <1>1, <1>2, <2>2 DEF SecretsInv, StoredAssumption
<1> QED
  BY <1>3, <1>4, <1>5, <1>6 DEF StoredInv

LEMMA StoredStep ==
    ASSUME StoredAssumption, EditBusy = FALSE, StoredInv, [Stored!Next]_(Stored!vars)
    PROVE  StoredInv'
<1>1. ASSUME NEW c \in Calls, Stored!CreateProfile(c) PROVE StoredInv'
  BY <1>1, CreateProfileStep
<1>2. ASSUME NEW c \in Calls, Stored!WriteProfile(c) PROVE StoredInv'
  BY <1>2, WriteProfileStep
<1>3. ASSUME NEW c \in Calls, Stored!ReadBack(c) PROVE StoredInv'
  <2>1. /\ call[c].pc = "read_back"
        /\ \E answer \in {"ok", "not_found"} : Stored!Reply(c, answer)
        /\ UNCHANGED <<profiles, keyring, sessions, backups, profilesMade, rowsMade,
                       keyringFaults>>
    BY <1>3 DEF Stored!ReadBack
  <2> QED
    BY <2>1, OnlyReply
<1>4. ASSUME NEW c \in Calls, Stored!StoreSecret(c) PROVE StoredInv'
  BY <1>4, StoreSecretStep
<1>5. ASSUME NEW c \in Calls, Stored!DeleteRow(c) PROVE StoredInv'
  BY <1>5, DeleteRowStep
<1>6. ASSUME NEW c \in Calls, Stored!DeleteSecret(c) PROVE StoredInv'
  BY <1>6, DeleteSecretStep
<1>7. ASSUME NEW c \in Calls, Stored!FetchSecret(c) PROVE StoredInv'
  BY <1>7, FetchSecretStep
<1>8. ASSUME NEW c \in Calls, NEW i \in Stored!Ids,
             Stored!UpdateProfile(c, i) \/ Stored!SetSecret(c, i) \/ Stored!DeleteProfile(c, i)
             \/ Stored!Connect(c, i)
      PROVE  StoredInv'
  <2>1. \E op \in {"update", "set_secret", "delete", "connect"},
           next_pc \in {"write", "store", "delete_row", "fetch"} :
             (op = "delete" <=> next_pc = "delete_row") /\ Stored!Require(c, op, i, next_pc)
    BY <1>8 DEF Stored!UpdateProfile, Stored!SetSecret, Stored!DeleteProfile, Stored!Connect
  <2> QED
    BY <2>1, RequireStep
<1>9. ASSUME NEW c \in Calls, NEW what \in {"session", "backup", "test"}, Stored!Use(c, what)
      PROVE  StoredInv'
  BY <1>9, UseStep
<1>10. ASSUME NEW i \in Stored!Ids, Stored!EndSession(i) PROVE StoredInv'
  BY <1>10, StoredStutters DEF Stored!EndSession
<1>11. CASE UNCHANGED Stored!vars
  BY <1>11, StoredStutters DEF Stored!vars
<1> QED
  BY <1>1, <1>2, <1>3, <1>4, <1>5, <1>6, <1>7, <1>8, <1>9, <1>10, <1>11 DEF Stored!Next

LEMMA StoredInvHolds ==
    ASSUME StoredAssumption, EditBusy = FALSE
    PROVE  Stored!Init /\ [][Stored!Next]_(Stored!vars) => []StoredInv
<1>1. Stored!Init => StoredInv
  BY StoredInitHolds
<1>2. StoredInv /\ [Stored!Next]_(Stored!vars) => StoredInv'
  BY StoredStep
<1> QED
  BY <1>1, <1>2, PTL

\* Every secret without a profile is one whose deletion is under way or failed.
LEMMA LostBounded ==
    ASSUME StoredInv, IsFiniteSet(Calls)
    PROVE  Cardinality(Lost) <= keyringFaults + Cardinality(Deleting)
<1> DEFINE K == {call[c].profile.key : c \in Deleting}
           f == [c \in Deleting |-> call[c].profile.key]
<1>1. IsFiniteSet(Deleting)
  <2>1. Deleting \in SUBSET Calls
    BY DEF Deleting
  <2> QED
    BY <2>1, FS_Subset
<1>2. IsFiniteSet(K) /\ Cardinality(K) <= Cardinality(Deleting)
  <2>1. f \in Surjection(Deleting, K)
    BY DEF Surjection
  <2> HIDE DEF f, K
  <2> QED
    BY <1>1, <2>1, FS_Surjection
<1>3. IsFiniteSet(LeftOver) /\ IsFiniteSet(Lost)
  BY LeftOverFinite DEF StoredInv, SecretsInv
<1>4. Lost \in SUBSET (LeftOver \cup K)
  BY DEF LeftOver
<1> HIDE DEF K
<1>5. /\ IsFiniteSet(LeftOver \cup K)
      /\ Cardinality(LeftOver \cup K)
           = Cardinality(LeftOver) + Cardinality(K) - Cardinality(LeftOver \cap K)
  BY <1>2, <1>3, FS_Union
<1>6. IsFiniteSet(LeftOver \cap K)
  BY <1>3, FS_Subset
<1>7. Cardinality(Lost) <= Cardinality(LeftOver \cup K)
  BY <1>4, <1>5, FS_Subset
<1>8. /\ Cardinality(Lost) \in Nat /\ Cardinality(LeftOver) \in Nat /\ Cardinality(K) \in Nat
      /\ Cardinality(LeftOver \cap K) \in Nat /\ Cardinality(Deleting) \in Nat
  BY <1>1, <1>2, <1>3, <1>6, FS_CardinalityType
<1>9. Cardinality(LeftOver) <= keyringFaults /\ keyringFaults \in Int
  BY DEF StoredInv, SecretsInv
<1> QED
  BY <1>2, <1>5, <1>7, <1>8, <1>9

\* A connection carries the secret that was entered for its own profile, rows are
\* filed under the profile they were made with and sessions go with it, and a
\* secret without a profile is one whose deletion failed.
THEOREM ProfilesHold ==
    ASSUME StoredAssumption, EditBusy = FALSE, IsFiniteSet(Calls)
    PROVE  Stored!Init /\ [][Stored!Next]_(Stored!vars) =>
               [](Stored!OwnSecret /\ Stored!OwnRows /\ Stored!SessionsOwned
                  /\ Stored!NoSecretLeft)
<1>1. StoredInv => Stored!OwnSecret
  BY DEF StoredInv, CallsInv, CallOk, Stored!OwnSecret
<1>2. StoredInv => Stored!OwnRows /\ Stored!SessionsOwned
  BY DEF StoredInv, OwnedInv, RowOwned, Stored!OwnRows, Stored!SessionsOwned
<1>3. StoredInv => Stored!NoSecretLeft
  BY LostBounded, StoredSize DEF Stored!NoSecretLeft, Lost, Deleting
<1> QED
  BY <1>1, <1>2, <1>3, StoredInvHolds, PTL

\* Backups outlive their profile.
THEOREM BackupsStayHolds ==
    ASSUME StoredAssumption, EditBusy = FALSE
    PROVE  Stored!Init /\ [][Stored!Next]_(Stored!vars) => Stored!BackupsStay
<1>1. ASSUME StoredInv, [Stored!Next]_(Stored!vars), NEW b \in backups
      PROVE  \E new \in backups' : new.no = b.no
  <2>1. CASE backups \subseteq backups'
    BY <1>1, <2>1
  <2>2. ASSUME NEW c \in Calls, Stored!DeleteRow(c)
        PROVE  \E new \in backups' : new.no = b.no
    <3> DEFINE i == call[c].id
               new == IF b.profile = i THEN [b EXCEPT !.profile = 0] ELSE b
    <3>1. backups' = {IF x.profile = i THEN [x EXCEPT !.profile = 0] ELSE x : x \in backups}
      BY <2>2 DEF Stored!DeleteRow
    <3>2. new \in backups'
      BY <1>1, <3>1
    <3>3. b \in OwnedTypes
      BY <1>1 DEF StoredInv, OwnedInv
    <3>4. new.no = b.no
      BY <3>3 DEF OwnedTypes
    <3> QED
      BY <3>2, <3>4
  <2>3. (\E c \in Calls : Stored!DeleteRow(c)) \/ backups \subseteq backups'
    BY <1>1
    DEF Stored!Next, Stored!vars, Stored!CreateProfile, Stored!WriteProfile, Stored!ReadBack,
        Stored!StoreSecret, Stored!DeleteSecret, Stored!FetchSecret, Stored!UpdateProfile,
        Stored!SetSecret, Stored!DeleteProfile, Stored!Connect, Stored!Require, Stored!Use,
        Stored!EndSession
  <2> QED
    BY <2>1, <2>2, <2>3
<1>2. StoredInv /\ [Stored!Next]_(Stored!vars)
        => [\A b \in backups : \E new \in backups' : new.no = b.no]_(Stored!vars)
  BY <1>1
<1> QED
  BY <1>2, StoredInvHolds, PTL DEF Stored!BackupsStay

\* Type correctness of the profiles: ids and keys are of profiles that were made.
THEOREM StoredTypeOKHolds ==
    ASSUME StoredAssumption, EditBusy = FALSE
    PROVE  Stored!Init /\ [][Stored!Next]_(Stored!vars) => []Stored!TypeOK
<1>1. StoredInv => Stored!TypeOK
  <2> SUFFICES ASSUME StoredInv PROVE Stored!TypeOK
    OBVIOUS
  <2>1. /\ profilesMade \in Nat /\ MaxProfiles \in Nat /\ profilesMade <= MaxProfiles
        /\ DOMAIN profiles \subseteq Stored!Ids /\ DOMAIN keyring \subseteq Stored!Ids
        /\ \A i \in DOMAIN profiles : profiles[i].tag \in 1..profilesMade
    BY DEF StoredInv, SavedInv, SecretsInv, StoredAssumption, Stored!Ids
  <2>2. \A r \in sessions \cup backups :
          r.profile \in Stored!Ids \cup {0} /\ r.tag \in 1..profilesMade
    BY <2>1 DEF StoredInv, OwnedInv, RowOwned
  <2>3. ASSUME NEW c \in Calls PROVE call[c].profile.tag \in 0..profilesMade
    <3>1. call[c] \in CallTypes /\ CallOk(call[c])
      BY DEF StoredInv, CallsInv
    <3>2. call[c].profile.tag \in Nat /\ call[c].profile.tag <= profilesMade
      BY <3>1 DEF CallOk, CallTypes, SavedTypes
    <3> QED
      BY <2>1, <3>2
  <2> QED
    BY <2>1, <2>2, <2>3 DEF StoredInv, OwnedInv, SecretsInv, Stored!TypeOK
<1> QED
  BY <1>1, StoredInvHolds, PTL
-----------------------------------------------------------------------------
(* The database file *)

StoreAssumption ==
    MaxStored \in Nat /\ MaxRows \in Nat \ {0} /\ MaxWrites \in Nat /\ StoreFaults \in Nat

FileRunTypes == [owner : Nat, ended : {"no", "by_itself", "with_its_rows"}]
LineTypes == [id : Nat, write : Nat, place : Nat, of : Nat]

StoreTypes ==
    /\ kind \in Store!Kinds
    /\ file \in {"absent", "behind", "fits", "drifted"}
    /\ conn \in {"closed", "opened", "moving", "fresh", "ready"}
    /\ made \in Nat /\ made <= MaxStored
    /\ writes \in Nat /\ writes <= MaxWrites
    /\ faults \in Nat
    /\ DOMAIN runs \subseteq 1..made /\ runs \in [DOMAIN runs -> FileRunTypes]
    /\ \A i \in DOMAIN runs : runs[i].owner \in 1..made
    /\ storeRows \subseteq LineTypes /\ IsFiniteSet(storeRows)
    /\ kept \subseteq 1..made /\ moved \subseteq 1..made

\* Rows are of a run that is there, and those of a transaction are of one run and
\* are all there.
LineInv ==
    /\ \A r \in storeRows : /\ r.id \in DOMAIN runs /\ r.write \in 1..writes
                            /\ r.of \in 1..MaxRows /\ r.place \in 1..r.of
    /\ \A r, s \in storeRows : r.write = s.write => r.id = s.id /\ r.of = s.of
    /\ \A r \in storeRows : \A k \in 1..r.of :
          \E s \in storeRows : s.write = r.write /\ s.place = k

\* What an open transaction will do to the runs: it may close its own.
TxInv ==
    /\ DOMAIN tx = {"open", "id", "of", "done", "runs"} /\ tx.open \in BOOLEAN
    /\ tx.open =>
          /\ conn = "ready"
          /\ tx.id \in Nat /\ tx.of \in 0..MaxRows /\ tx.done \in 0..tx.of
          /\ tx.done > 0 => tx.id \in DOMAIN runs
          /\ writes >= 1 /\ \A r \in storeRows : r.write < writes
          /\ tx.runs \in [DOMAIN runs -> FileRunTypes]
          /\ \A j \in DOMAIN runs :
                /\ tx.runs[j].owner = runs[j].owner
                /\ Store!Closing /\ tx.runs[j].ended = "no"
                     => runs[j].ended = "no" /\ j # tx.id

\* What is being read is still there: none of it is deleted meanwhile.
LoadInv ==
    /\ DOMAIN load = {"pc", "id", "owner", "count", "rows", "of"}
    /\ load.pc \in {"none", "rows", "done"}
    /\ load.pc # "none" => conn = "ready" /\ load.count \in Nat
    /\ load.pc = "rows" =>
          /\ load.count <= Cardinality(Store!RowsOf(load.id))
          /\ load.owner # {} => Store!OwnerOf(load.id) = load.owner
    /\ load.pc = "done" =>
          /\ load.count <= Cardinality(load.rows) /\ Cardinality(load.rows) \in Nat
          /\ load.owner # {} => load.of = load.owner

KeptInv ==
    /\ conn = "ready" => file = "fits"
    /\ \A o \in kept : o \in moved \/ \E i \in DOMAIN runs : runs[i].owner = o
    /\ Store!Closing =>
         \A r \in storeRows : runs[r.id].ended # "no"

StoreInv == StoreTypes /\ LineInv /\ TxInv /\ LoadInv /\ KeptInv

LEMMA StoreSize == \A S : Store!Cardinality(S) = Cardinality(S)
BY DEF Cardinality, Store!Cardinality

LEMMA LinesOf ==
    ASSUME IsFiniteSet(storeRows), NEW i
    PROVE  IsFiniteSet(Store!RowsOf(i)) /\ Cardinality(Store!RowsOf(i)) \in Nat
<1>1. Store!RowsOf(i) \subseteq storeRows
  BY DEF Store!RowsOf
<1> QED
  BY <1>1, FS_Subset, FS_CardinalityType

LEMMA StoreNextId ==
    ASSUME StoreTypes
    PROVE  Store!NextId \in 1..(made + 1) /\ Store!NextId \notin DOMAIN runs
<1> DEFINE S == DOMAIN runs
           m == CHOOSE k \in S \cup {0} : \A i \in S : i <= k
<1>1. S \subseteq Nat \ {0} /\ (\E n \in Nat : \A i \in S : i <= n) /\ S \subseteq 1..made
      /\ made \in Nat
  BY DEF StoreTypes
<1>2. \E k \in S \cup {0} : \A i \in S : i <= k
  <2> HIDE DEF S
  <2> QED
    BY <1>1, LargestId
<1>3. m \in S \cup {0} /\ \A i \in S : i <= m
  <2> HIDE DEF S
  <2> QED
    BY <1>2
<1>4. Store!NextId = 1 + m
  BY DEF Store!NextId
<1> HIDE DEF m
<1> QED
  BY <1>1, <1>3, <1>4

-----------------------------------------------------------------------------

\* What the actions that connect, begin and give up leave alone.
Untouched == UNCHANGED <<kind, runs, storeRows, kept, moved, made>>

\* Without a change of the stored rows what is read stays there.
LEMMA LoadKept ==
    ASSUME LoadInv, Untouched, UNCHANGED load, UNCHANGED conn
    PROVE  LoadInv'
BY DEF LoadInv, Untouched, Store!RowsOf, Store!OwnerOf

LEMMA LinesKept ==
    ASSUME StoreInv, Untouched, writes' \in Nat, writes <= writes'
    PROVE  LineInv'
BY DEF StoreInv, StoreTypes, LineTypes, LineInv, Untouched

\* Nothing is open and nothing is read while the program connects.
LEMMA ConnectStep ==
    ASSUME StoreAssumption, StoreInv,
           Store!Open \/ Store!Migrate \/ Store!MigrateFails \/ Store!FindDrift \/ Store!Crash
             \/ Store!OtherVersion
    PROVE  StoreInv'
<1>0. /\ Untouched /\ UNCHANGED writes
      /\ file' \in {"absent", "behind", "fits", "drifted"}
      /\ conn' \in {"closed", "opened", "moving", "fresh", "ready"}
      /\ faults' \in {faults, faults + 1}
      /\ conn' = "ready" => file' = "fits"
      /\ \/ tx' = Store!NoTx /\ load' = Store!NoLoad
         \/ conn # "ready" /\ UNCHANGED <<tx, load>>
         \/ conn \in {"opened", "fresh"} /\ UNCHANGED <<tx, load>>
  BY DEF Store!Open, Store!Migrate, Store!MigrateFails, Store!FindDrift, Store!Crash,
         Store!OtherVersion, Untouched, StoreInv, StoreTypes
<1>1. StoreTypes' /\ KeptInv'
  BY <1>0 DEF StoreInv, StoreTypes, KeptInv, Untouched, Store!Closing
<1>2. LineInv'
  BY <1>0, LinesKept DEF StoreInv, StoreTypes
<1>3. tx.open => conn = "ready"
  BY DEF StoreInv, TxInv
<1>4. load.pc # "none" => conn = "ready"
  BY DEF StoreInv, LoadInv
<1>5. /\ DOMAIN tx' = {"open", "id", "of", "done", "runs"}
      /\ tx'.open = FALSE
  BY <1>0, <1>3 DEF StoreInv, TxInv, Store!NoTx
<1>6. TxInv'
  BY <1>5 DEF TxInv
<1>7. DOMAIN load' = {"pc", "id", "owner", "count", "rows", "of"} /\ load'.pc = "none"
  BY <1>0, <1>4 DEF StoreInv, LoadInv, Store!NoLoad
<1>8. LoadInv'
  BY <1>7 DEF LoadInv
<1> QED
  BY <1>1, <1>2, <1>6, <1>8 DEF StoreInv

LEMMA MoveAwayStep ==
    ASSUME StoreAssumption, StoreInv, Store!MoveAway
    PROVE  StoreInv'
<1>0. /\ conn = "moving" /\ conn' = "fresh" /\ file' = "behind"
      /\ DOMAIN runs' = {} /\ runs' \in [DOMAIN runs' -> FileRunTypes] /\ storeRows' = {}
      /\ moved' = moved \cup Store!Owners
      /\ UNCHANGED <<kind, tx, load, kept, made, writes, faults>>
  BY DEF Store!MoveAway, Store!Nobody
<1>1. Store!Owners = {runs[i].owner : i \in DOMAIN runs}
  BY DEF Store!Owners
<1>2. StoreTypes'
  BY <1>0, <1>1, FS_EmptySet DEF StoreInv, StoreTypes
<1>3. KeptInv' /\ LineInv'
  BY <1>0, <1>1 DEF StoreInv, KeptInv, LineInv
<1>4. TxInv'
  BY <1>0 DEF StoreInv, TxInv
<1>5. LoadInv'
  BY <1>0 DEF StoreInv, LoadInv
<1> QED
  BY <1>2, <1>3, <1>4, <1>5 DEF StoreInv

LEMMA BeginStep ==
    ASSUME StoreAssumption, StoreInv, NEW i \in Store!Ids, NEW n \in 0..MaxRows,
           Store!Begin(i, n)
    PROVE  StoreInv'
<1>0. /\ conn = "ready" /\ writes < MaxWrites
      /\ tx' = [open |-> TRUE, id |-> i, of |-> n, done |-> 0, runs |-> tx'.runs]
      /\ tx'.runs = IF Store!Closing /\ i \in DOMAIN runs
                    THEN [runs EXCEPT ![i].ended = "with_its_rows"] ELSE runs
      /\ writes' = writes + 1
      /\ Untouched /\ UNCHANGED <<file, conn, load, faults>>
  BY DEF Store!Begin, Store!Ready, Untouched
<1>1. StoreTypes' /\ KeptInv'
  BY <1>0 DEF StoreInv, StoreTypes, KeptInv, Untouched, StoreAssumption, Store!Closing
<1>2. LineInv'
  BY <1>0, LinesKept DEF StoreInv, StoreTypes
<1>3. LoadInv'
  BY <1>0, LoadKept DEF StoreInv
<1>4. /\ DOMAIN tx' = {"open", "id", "of", "done", "runs"}
      /\ tx'.open = TRUE /\ tx'.id = i /\ tx'.of = n /\ tx'.done = 0
  BY <1>0
<1>5. runs \in [DOMAIN runs -> FileRunTypes]
  BY DEF StoreInv, StoreTypes
<1>6. tx'.runs \in [DOMAIN runs -> FileRunTypes]
  BY <1>0, <1>5 DEF FileRunTypes
<1>7. ASSUME NEW j \in DOMAIN runs
      PROVE  /\ tx'.runs[j].owner = runs[j].owner
             /\ Store!Closing /\ tx'.runs[j].ended = "no" => runs[j].ended = "no" /\ j # i
  BY <1>0, <1>5 DEF FileRunTypes
<1>8. \A r \in storeRows : r.write < writes'
  BY <1>0 DEF StoreInv, StoreTypes, LineTypes, LineInv
<1>9. kind' = kind
  BY <1>0 DEF Untouched
<1>10. TxInv'
  <2>1. i \in Nat /\ n \in Nat /\ writes' >= 1
    BY <1>0 DEF Store!Ids, StoreAssumption, StoreInv, StoreTypes
  <2>2. conn' = "ready" /\ runs' = runs /\ storeRows' = storeRows
    BY <1>0 DEF Untouched
  <2>3. 0 \in 0..n /\ n \in 0..MaxRows
    BY <2>1
  <2>4. \A j \in DOMAIN runs' :
          /\ tx'.runs[j].owner = runs'[j].owner
          /\ Store!Closing' /\ tx'.runs[j].ended = "no" => runs'[j].ended = "no" /\ j # tx'.id
    BY <1>4, <1>7, <1>9, <2>2 DEF Store!Closing
  <2>5. tx'.runs \in [DOMAIN runs' -> FileRunTypes] /\ \A r \in storeRows' : r.write < writes'
    BY <1>6, <1>8, <2>2
  <2>6. DOMAIN tx' = {"open", "id", "of", "done", "runs"} /\ tx'.open \in BOOLEAN
    BY <1>4
  <2>7. tx'.id \in Nat /\ tx'.of \in 0..MaxRows /\ tx'.done \in 0..tx'.of
    BY <1>4, <2>1, <2>3
  <2>8. ~(tx'.done > 0)
    BY <1>4
  <2> QED
    BY <2>1, <2>2, <2>4, <2>5, <2>6, <2>7, <2>8 DEF TxInv
<1> QED
  BY <1>1, <1>2, <1>3, <1>10 DEF StoreInv

LEMMA InsertStep ==
    ASSUME StoreAssumption, StoreInv, Store!Insert \/ Store!Rollback
    PROVE  StoreInv'
<1>0. /\ Untouched /\ UNCHANGED <<file, conn, load, writes>>
      /\ faults' \in {faults, faults + 1} /\ tx.open
      /\ \/ /\ tx.done < tx.of /\ tx.id \in DOMAIN runs
            /\ tx' = [tx EXCEPT !.done = @ + 1]
         \/ tx' = Store!NoTx
  BY DEF Store!Insert, Store!Rollback, Untouched
<1>1. StoreTypes' /\ KeptInv'
  BY <1>0 DEF StoreInv, StoreTypes, KeptInv, Untouched, Store!Closing
<1>2. LineInv'
  BY <1>0, LinesKept DEF StoreInv, StoreTypes
<1>3. LoadInv'
  BY <1>0, LoadKept DEF StoreInv
<1>4. TxInv'
  <2>1. CASE tx' = Store!NoTx
    BY <2>1 DEF TxInv, Store!NoTx
  <2>2. CASE tx.done < tx.of /\ tx.id \in DOMAIN runs /\ tx' = [tx EXCEPT !.done = @ + 1]
    <3>1. /\ DOMAIN tx' = DOMAIN tx /\ tx'.open = tx.open /\ tx'.id = tx.id
          /\ tx'.of = tx.of /\ tx'.done = tx.done + 1 /\ tx'.runs = tx.runs
      BY <2>2 DEF StoreInv, TxInv
    <3>2. tx'.done \in 0..tx.of
      BY <1>0, <2>2, <3>1 DEF StoreInv, TxInv, StoreAssumption
    <3> QED
      BY <1>0, <2>2, <3>1, <3>2 DEF StoreInv, TxInv, Untouched, Store!Closing
  <2> QED
    BY <1>0, <2>1, <2>2
<1> QED
  BY <1>1, <1>2, <1>3, <1>4 DEF StoreInv

\* A run gets an id that is free, and has no rows yet.
LEMMA CreateRunStep ==
    ASSUME StoreAssumption, StoreInv, Store!Create
    PROVE  StoreInv'
<1> DEFINE new == Store!NextId
<1>0. /\ conn = "ready" /\ ~tx.open /\ made < MaxStored
      /\ made' = made + 1 /\ kept' = kept \cup {made'}
      /\ runs' = [j \in DOMAIN runs \cup {new} |->
                    IF j = new THEN [owner |-> made', ended |-> "no"] ELSE runs[j]]
      /\ UNCHANGED <<kind, file, conn, storeRows, tx, load, moved, writes, faults>>
  BY DEF Store!Create, Store!Ready
<1>1. new \in 1..(made + 1) /\ new \notin DOMAIN runs
  BY StoreNextId DEF StoreInv
<1> HIDE DEF new
<1>2. /\ DOMAIN runs' = DOMAIN runs \cup {new}
      /\ \A j \in DOMAIN runs : runs'[j] = runs[j]
      /\ runs'[new] = [owner |-> made', ended |-> "no"]
  BY <1>0, <1>1
<1>3. [owner |-> made', ended |-> "no"] \in FileRunTypes
  BY <1>0 DEF StoreInv, StoreTypes, FileRunTypes
<1>4. runs' \in [DOMAIN runs' -> FileRunTypes]
  BY <1>0, <1>1, <1>2, <1>3 DEF StoreInv, StoreTypes
<1>5. \A j \in DOMAIN runs' : runs'[j].owner \in 1..made'
  BY <1>0, <1>1, <1>2 DEF StoreInv, StoreTypes
<1>6. StoreTypes'
  BY <1>0, <1>1, <1>2, <1>4, <1>5 DEF StoreInv, StoreTypes, StoreAssumption
<1>7. LineInv'
  BY <1>0, <1>2 DEF StoreInv, LineInv
<1>8. TxInv'
  BY <1>0 DEF StoreInv, TxInv
<1>9. KeptInv'
  <2>1. \A o \in kept : o \in moved \/ \E i \in DOMAIN runs' : runs'[i].owner = o
    BY <1>2 DEF StoreInv, KeptInv
  <2>2. runs'[new].owner = made'
    BY <1>2
  <2>3. \A r \in storeRows : r.id \in DOMAIN runs /\ runs'[r.id] = runs[r.id]
    BY <1>2 DEF StoreInv, LineInv
  <2>4. Store!Closing' => \A r \in storeRows' : runs'[r.id].ended # "no"
    BY <1>0, <2>3 DEF StoreInv, KeptInv, Store!Closing
  <2>5. \A o \in kept' : o \in moved' \/ \E i \in DOMAIN runs' : runs'[i].owner = o
    <3>1. new \in DOMAIN runs' /\ kept' = kept \cup {made'} /\ moved' = moved
      BY <1>0, <1>2
    <3> QED
      BY <2>1, <2>2, <3>1
  <2>6. conn' = "ready" => file' = "fits"
    BY <1>0 DEF StoreInv, KeptInv
  <2> QED
    BY <2>4, <2>5, <2>6 DEF KeptInv
<1>10. LoadInv'
  <2>1. Store!RowsOf(load.id)' = Store!RowsOf(load.id)
    BY <1>0 DEF Store!RowsOf
  <2>2. Store!OwnerOf(load.id) # {} => Store!OwnerOf(load.id)' = Store!OwnerOf(load.id)
    <3>1. Store!OwnerOf(load.id) # {} => load.id \in DOMAIN runs
      BY DEF Store!OwnerOf
    <3>2. load.id \in DOMAIN runs => DOMAIN runs' \cap {load.id} = DOMAIN runs \cap {load.id}
      BY <1>2
    <3>3. load' = load
      BY <1>0
    <3> QED
      BY <1>2, <3>1, <3>2, <3>3 DEF Store!OwnerOf
  <2>3. load' = load /\ conn' = conn
    BY <1>0
  <2> QED
    BY <2>1, <2>2, <2>3 DEF StoreInv, LoadInv
<1> QED
  BY <1>6, <1>7, <1>8, <1>9, <1>10 DEF StoreInv

\* Runs keep their ids and owners, and rows are only added: what is read stays.
LEMMA LoadGrows ==
    ASSUME StoreTypes, LoadInv, UNCHANGED <<load, conn>>,
           DOMAIN runs' = DOMAIN runs, \A j \in DOMAIN runs : runs'[j].owner = runs[j].owner,
           storeRows \subseteq storeRows', IsFiniteSet(storeRows')
    PROVE  LoadInv'
<1>1. Store!OwnerOf(load.id)' = Store!OwnerOf(load.id)
  BY DEF Store!OwnerOf
<1> DEFINE R == Store!RowsOf(load.id)
           R1 == {row \in storeRows' : row.id = load.id}
<1>2. R \subseteq R1 /\ R1 \subseteq storeRows' /\ Store!RowsOf(load.id)' = R1
  BY DEF Store!RowsOf
<1>3. IsFiniteSet(R1)
  BY <1>2, FS_Subset
<1>4. /\ Cardinality(R) <= Cardinality(R1)
      /\ Cardinality(R) \in Nat /\ Cardinality(R1) \in Nat
  BY <1>2, <1>3, FS_Subset, FS_CardinalityType
<1>5. load.pc = "rows" => load.count <= Cardinality(R) /\ load.count \in Nat
  BY DEF LoadInv
<1>6. load.pc = "rows" => load.count <= Cardinality(R1)
  BY <1>4, <1>5
<1> HIDE DEF R, R1
<1> QED
  BY <1>1, <1>2, <1>6 DEF LoadInv

\* The rows of the transaction come with what it did to the runs.
LEMMA CommitStep ==
    ASSUME StoreAssumption, StoreInv, Store!Commit
    PROVE  StoreInv'
<1> DEFINE line(k) == [id |-> tx.id, write |-> writes, place |-> k, of |-> tx.of]
           new == {line(k) : k \in 1..tx.of}
<1>0. /\ tx.open /\ tx.done = tx.of
      /\ runs' = tx.runs /\ storeRows' = storeRows \cup new
      /\ tx' = Store!NoTx
      /\ UNCHANGED <<kind, file, conn, load, kept, moved, made, writes, faults>>
  BY DEF Store!Commit
<1>1. /\ tx.id \in Nat /\ tx.of \in Nat /\ tx.of <= MaxRows /\ MaxRows \in Nat
      /\ (tx.of > 0 => tx.id \in DOMAIN runs)
      /\ writes \in Nat /\ writes >= 1
      /\ \A r \in storeRows : r.write < writes
  BY <1>0 DEF StoreInv, TxInv, StoreTypes, StoreAssumption
<1>2. ASSUME NEW k \in 1..tx.of
      PROVE  /\ line(k) \in LineTypes /\ line(k).id = tx.id /\ line(k).write = writes
             /\ line(k).place = k /\ line(k).of = tx.of
  BY <1>1 DEF LineTypes
<1>3. IsFiniteSet(new)
  <2> DEFINE f == [k \in 1..tx.of |-> line(k)]
  <2>1. f \in Surjection(1..tx.of, new)
    <3> HIDE DEF line
    <3> QED
      BY DEF Surjection
  <2>2. IsFiniteSet(1..tx.of)
    BY <1>1, FS_Interval
  <2> HIDE DEF f, new
  <2> QED
    BY <2>1, <2>2, FS_Surjection
<1>4. \A r \in new : /\ r \in LineTypes /\ r.id = tx.id /\ r.write = writes /\ r.of = tx.of
                     /\ r.place \in 1..tx.of
  <2> HIDE DEF line
  <2> QED
    BY <1>2
<1>5. \A k \in 1..tx.of : \E r \in new : r.place = k
  <2> HIDE DEF line
  <2> QED
    BY <1>2
<1>6. new # {} => tx.id \in DOMAIN runs
  BY <1>1
<1> HIDE DEF line, new
<1>7. /\ runs' \in [DOMAIN runs -> FileRunTypes] /\ DOMAIN runs' = DOMAIN runs
      /\ \A j \in DOMAIN runs :
            /\ runs'[j].owner = runs[j].owner
            /\ Store!Closing /\ runs'[j].ended = "no" => runs[j].ended = "no" /\ j # tx.id
  BY <1>0 DEF StoreInv, TxInv
<1>8. StoreTypes'
  <2>1. storeRows' \subseteq LineTypes
    BY <1>0, <1>4 DEF StoreInv, StoreTypes
  <2>2. IsFiniteSet(storeRows')
    BY <1>0, <1>3, FS_Union DEF StoreInv, StoreTypes
  <2>3. /\ DOMAIN runs' \subseteq 1..made /\ runs' \in [DOMAIN runs' -> FileRunTypes]
        /\ \A i \in DOMAIN runs' : runs'[i].owner \in 1..made
    BY <1>7 DEF StoreInv, StoreTypes
  <2> QED
    BY <1>0, <2>1, <2>2, <2>3 DEF StoreInv, StoreTypes
<1>9. LineInv'
  <2>1. \A r \in storeRows' : /\ r.id \in DOMAIN runs' /\ r.write \in 1..writes'
                               /\ r.of \in 1..MaxRows /\ r.place \in 1..r.of
    <3>1. \A r \in new : /\ r.id \in DOMAIN runs' /\ r.write \in 1..writes'
                          /\ r.of \in 1..MaxRows /\ r.place \in 1..r.of
      BY <1>0, <1>1, <1>4, <1>6, <1>7
    <3> QED
      BY <1>0, <1>7, <3>1 DEF StoreInv, LineInv
  <2>2. \A r, s \in storeRows' : r.write = s.write => r.id = s.id /\ r.of = s.of
    <3>1. \A r \in new : \A s \in storeRows : r.write # s.write
      BY <1>1, <1>4
    <3> QED
      BY <1>0, <1>4, <3>1 DEF StoreInv, LineInv
  <2>3. \A r \in storeRows' : \A k \in 1..r.of :
          \E s \in storeRows' : s.write = r.write /\ s.place = k
    BY <1>0, <1>4, <1>5 DEF StoreInv, LineInv
  <2> QED
    BY <2>1, <2>2, <2>3 DEF LineInv
<1>10. TxInv'
  BY <1>0 DEF TxInv, Store!NoTx
<1>11. LoadInv'
  <2>1. storeRows \subseteq storeRows' /\ IsFiniteSet(storeRows') /\ UNCHANGED <<load, conn>>
    BY <1>0, <1>8 DEF StoreTypes
  <2> QED
    BY <1>7, <2>1, LoadGrows DEF StoreInv
<1>12. KeptInv'
  <2>1. \A o \in kept' : o \in moved' \/ \E i \in DOMAIN runs' : runs'[i].owner = o
    BY <1>0, <1>7 DEF StoreInv, KeptInv
  <2>2. Store!Closing' => \A r \in storeRows' : runs'[r.id].ended # "no"
    <3> SUFFICES ASSUME Store!Closing', NEW r \in storeRows' PROVE runs'[r.id].ended # "no"
      OBVIOUS
    <3>1. Store!Closing
      BY <1>0 DEF Store!Closing
    <3>2. CASE r \in new
      BY <1>4, <1>6, <1>7, <3>1, <3>2
    <3>3. CASE r \in storeRows
      BY <1>7, <3>1, <3>3 DEF StoreInv, KeptInv, LineInv
    <3> QED
      BY <1>0, <3>2, <3>3
  <2> QED
    BY <1>0, <2>1, <2>2 DEF StoreInv, KeptInv
<1> QED
  BY <1>8, <1>9, <1>10, <1>11, <1>12 DEF StoreInv

LEMMA EndStep ==
    ASSUME StoreAssumption, StoreInv, NEW i \in Store!Ids, Store!End(i)
    PROVE  StoreInv'
<1>0. /\ ~tx.open
      /\ runs' = IF i \in DOMAIN runs THEN [runs EXCEPT ![i].ended = "by_itself"] ELSE runs
      /\ UNCHANGED <<kind, file, conn, storeRows, tx, load, kept, moved, made, writes, faults>>
  BY DEF Store!End
<1>1. runs \in [DOMAIN runs -> FileRunTypes]
  BY DEF StoreInv, StoreTypes
<1>2. runs' \in [DOMAIN runs -> FileRunTypes] /\ DOMAIN runs' = DOMAIN runs
  BY <1>0, <1>1 DEF FileRunTypes
<1>3. \A j \in DOMAIN runs :
         /\ runs'[j].owner = runs[j].owner
         /\ runs'[j].ended = "no" => runs[j].ended = "no"
  BY <1>0, <1>1 DEF FileRunTypes
<1>4. StoreTypes'
  BY <1>0, <1>2, <1>3 DEF StoreInv, StoreTypes
<1>5. LineInv' /\ KeptInv'
  BY <1>0, <1>2, <1>3 DEF StoreInv, LineInv, KeptInv, Store!Closing
<1>6. TxInv'
  BY <1>0 DEF StoreInv, TxInv
<1>7. LoadInv'
  <2>1. storeRows \subseteq storeRows' /\ IsFiniteSet(storeRows') /\ UNCHANGED <<load, conn>>
    BY <1>0, <1>4 DEF StoreTypes
  <2>2. DOMAIN runs' = DOMAIN runs /\ \A j \in DOMAIN runs : runs'[j].owner = runs[j].owner
    BY <1>2, <1>3
  <2>3. StoreTypes /\ LoadInv
    BY DEF StoreInv
  <2> QED
    BY <2>1, <2>2, <2>3, LoadGrows
<1> QED
  BY <1>4, <1>5, <1>6, <1>7 DEF StoreInv

\* The rows go with their run, and nobody reads it.
LEMMA DeleteRunStep ==
    ASSUME StoreAssumption, DeleteRead = FALSE, StoreInv, NEW i \in Store!Ids, Store!Delete(i)
    PROVE  StoreInv'
<1>0. /\ ~tx.open /\ i \in DOMAIN runs /\ load.pc # "rows"
      /\ runs' = [j \in DOMAIN runs \ {i} |-> runs[j]]
      /\ storeRows' = {r \in storeRows : r.id # i}
      /\ kept' = kept \ {runs[i].owner}
      /\ UNCHANGED <<kind, file, conn, tx, load, moved, made, writes, faults>>
  BY DEF Store!Delete, Store!RowsOf
<1>1. /\ DOMAIN runs' = DOMAIN runs \ {i}
      /\ \A j \in DOMAIN runs' : runs'[j] = runs[j]
  BY <1>0
<1>2. runs' \in [DOMAIN runs' -> FileRunTypes] /\ DOMAIN runs' \subseteq DOMAIN runs
  BY <1>1, <1>0 DEF StoreInv, StoreTypes
<1>3. IsFiniteSet(storeRows')
  <2>1. storeRows' \subseteq storeRows
    BY <1>0
  <2> QED
    BY <2>1, FS_Subset DEF StoreInv, StoreTypes
<1>4. StoreTypes'
  BY <1>0, <1>1, <1>2, <1>3 DEF StoreInv, StoreTypes
<1>5. LineInv'
  <2>1. \A r \in storeRows' : r \in storeRows /\ r.id \in DOMAIN runs'
    BY <1>0, <1>1 DEF StoreInv, LineInv
  <2>2. \A r \in storeRows' : \A k \in 1..r.of :
          \E s \in storeRows' : s.write = r.write /\ s.place = k
    <3> SUFFICES ASSUME NEW r \in storeRows', NEW k \in 1..r.of
                 PROVE  \E s \in storeRows' : s.write = r.write /\ s.place = k
      OBVIOUS
    <3>1. PICK s \in storeRows : s.write = r.write /\ s.place = k
      BY <2>1 DEF StoreInv, LineInv
    <3>2. s.id = r.id
      BY <2>1, <3>1 DEF StoreInv, LineInv
    <3> QED
      BY <1>0, <3>1, <3>2
  <2> QED
    BY <1>0, <2>1, <2>2 DEF StoreInv, LineInv
<1>6. TxInv'
  BY <1>0 DEF StoreInv, TxInv
<1>7. LoadInv'
  BY <1>0 DEF StoreInv, LoadInv
<1>8. KeptInv'
  BY <1>0, <1>1, <1>5 DEF StoreInv, KeptInv, LineInv, Store!Closing
<1> QED
  BY <1>4, <1>5, <1>6, <1>7, <1>8 DEF StoreInv

LEMMA ReadStep ==
    ASSUME StoreAssumption, StoreInv,
           (\E i \in Store!Ids : Store!Pick(i)) \/ Store!ReadRows \/ Store!Loaded
    PROVE  StoreInv'
<1>0. Untouched /\ UNCHANGED <<file, conn, tx, writes, faults>>
  BY DEF Store!Pick, Store!ReadRows, Store!Loaded, Untouched
<1>1. StoreTypes' /\ KeptInv'
  BY <1>0 DEF StoreInv, StoreTypes, KeptInv, Untouched, Store!Closing
<1>2. LineInv'
  BY <1>0, LinesKept DEF StoreInv, StoreTypes
<1>3. TxInv'
  BY <1>0 DEF StoreInv, TxInv, Untouched, Store!Closing
<1>4. \A i : Store!RowsOf(i)' = Store!RowsOf(i) /\ Store!OwnerOf(i)' = Store!OwnerOf(i)
  BY <1>0 DEF Untouched, Store!RowsOf, Store!OwnerOf
<1>5. ASSUME NEW i \in Store!Ids, Store!Pick(i)
      PROVE  LoadInv'
  <2>1. /\ conn = "ready" /\ conn' = conn
        /\ DOMAIN load' = {"pc", "id", "owner", "count", "rows", "of"}
        /\ load'.pc = "rows" /\ load'.id = i /\ load'.owner = Store!OwnerOf(i)
        /\ load'.count = Cardinality(Store!RowsOf(i))
    BY <1>5, StoreSize DEF Store!Pick, Store!Ready
  <2>2. Cardinality(Store!RowsOf(i)) \in Nat
    BY LinesOf DEF StoreInv, StoreTypes
  <2>3. load'.count <= Cardinality(Store!RowsOf(i)')
    BY <1>4, <2>1, <2>2
  <2>4. (Store!OwnerOf(load.id))' = load'.owner
    BY <1>4, <2>1 DEF Store!OwnerOf
  <2>5. (Store!RowsOf(load.id))' = Store!RowsOf(i)'
    BY <2>1 DEF Store!RowsOf
  <2> QED
    BY <2>1, <2>2, <2>3, <2>4, <2>5 DEF LoadInv
<1>6. ASSUME Store!ReadRows
      PROVE  LoadInv'
  <2>1. /\ load.pc = "rows" /\ conn' = conn
        /\ load' = [load EXCEPT !.pc = "done", !.rows = Store!RowsOf(load.id),
                                !.of = Store!OwnerOf(load.id)]
    BY <1>6 DEF Store!ReadRows
  <2>2. DOMAIN load = {"pc", "id", "owner", "count", "rows", "of"}
    BY DEF StoreInv, LoadInv
  <2>3. /\ DOMAIN load' = {"pc", "id", "owner", "count", "rows", "of"}
        /\ load'.pc = "done" /\ load'.count = load.count /\ load'.owner = load.owner
        /\ load'.rows = Store!RowsOf(load.id) /\ load'.of = Store!OwnerOf(load.id)
    BY <2>1, <2>2
  <2>4. Cardinality(Store!RowsOf(load.id)) \in Nat
    BY LinesOf DEF StoreInv, StoreTypes
  <2>5. /\ load.count <= Cardinality(Store!RowsOf(load.id)) /\ load.count \in Nat
        /\ conn = "ready" /\ (load.owner # {} => Store!OwnerOf(load.id) = load.owner)
    BY <2>1 DEF StoreInv, LoadInv
  <2> QED
    BY <2>1, <2>3, <2>4, <2>5 DEF LoadInv
<1>7. ASSUME Store!Loaded
      PROVE  LoadInv'
  BY <1>7 DEF Store!Loaded, Store!NoLoad, LoadInv
<1> QED
  BY <1>1, <1>2, <1>3, <1>5, <1>6, <1>7 DEF StoreInv

LEMMA StoreStep ==
    ASSUME StoreAssumption, DeleteRead = FALSE, StoreInv, [Store!Next]_(Store!vars)
    PROVE  StoreInv'
<1>1. CASE UNCHANGED (Store!vars)
  <2>1. Untouched /\ UNCHANGED <<file, conn, tx, load, writes, faults>>
    BY <1>1 DEF Store!vars, Untouched
  <2>2. StoreTypes' /\ KeptInv' /\ TxInv'
    BY <2>1 DEF StoreInv, StoreTypes, KeptInv, TxInv, Untouched, Store!Closing
  <2> QED
    BY <2>1, <2>2, LinesKept, LoadKept DEF StoreInv, StoreTypes
<1>2. CASE \/ Store!Open \/ Store!Migrate \/ Store!MigrateFails \/ Store!FindDrift
           \/ Store!Crash \/ Store!OtherVersion
  BY <1>2, ConnectStep
<1>3. CASE Store!MoveAway
  BY <1>3, MoveAwayStep
<1>4. CASE Store!Create
  BY <1>4, CreateRunStep
<1>5. ASSUME NEW i \in Store!Ids, NEW n \in 0..MaxRows, Store!Begin(i, n)
      PROVE  StoreInv'
  BY <1>5, BeginStep
<1>6. CASE Store!Insert \/ Store!Rollback
  BY <1>6, InsertStep
<1>7. CASE Store!Commit
  BY <1>7, CommitStep
<1>8. ASSUME NEW i \in Store!Ids, Store!End(i)
      PROVE  StoreInv'
  BY <1>8, EndStep
<1>9. ASSUME NEW i \in Store!Ids, Store!Delete(i)
      PROVE  StoreInv'
  BY <1>9, DeleteRunStep
<1>10. CASE (\E i \in Store!Ids : Store!Pick(i)) \/ Store!ReadRows \/ Store!Loaded
  BY <1>10, ReadStep
<1>11. ASSUME NEW i \in Store!Ids, Store!AddMtuProbe(i)
       PROVE  StoreInv'
  <2>1. 1 \in 0..MaxRows
    BY DEF StoreAssumption
  <2> QED
    BY <1>11, <2>1, BeginStep DEF Store!AddMtuProbe
<1>12. ASSUME NEW i \in Store!Ids, NEW n \in 0..MaxRows,
              \/ Store!InsertProbes(i, n) \/ Store!InsertScanHosts(i, n)
              \/ Store!CompleteTraceWithHops(i, n) \/ Store!FinishDnsRun(i, n)
       PROVE  StoreInv'
  BY <1>5, <1>12
  DEF Store!InsertProbes, Store!InsertScanHosts, Store!CompleteTraceWithHops,
      Store!FinishDnsRun
<1>13. ASSUME NEW i \in Store!Ids,
              \/ Store!FinishSession(i) \/ Store!FinishMtuRun(i) \/ Store!FinishScan(i)
              \/ Store!FinishDownload(i)
       PROVE  StoreInv'
  BY <1>8, <1>13
  DEF Store!FinishSession, Store!FinishMtuRun, Store!FinishScan, Store!FinishDownload
<1>14. ASSUME NEW i \in Store!Ids,
              \/ Store!ListSessions(i) \/ Store!ListTraces(i) \/ Store!ListMtuRuns(i)
              \/ Store!ListDownloads(i) \/ Store!LoadScan(i) \/ Store!LoadDnsRun(i)
       PROVE  StoreInv'
  BY <1>10, <1>14
  DEF Store!ListSessions, Store!ListTraces, Store!ListMtuRuns, Store!ListDownloads,
      Store!LoadScan, Store!LoadDnsRun
<1>15. ASSUME \/ Store!LoadProbes \/ Store!LoadTraceHops \/ Store!LoadMtuProbes
              \/ Store!LoadDownload \/ Store!LoadScanHosts \/ Store!LoadDnsRunTargets
       PROVE  StoreInv'
  BY <1>10, <1>15
  DEF Store!LoadProbes, Store!LoadTraceHops, Store!LoadMtuProbes, Store!LoadDownload,
      Store!LoadScanHosts, Store!LoadDnsRunTargets
<1> QED
  BY <1>1, <1>2, <1>3, <1>4, <1>6, <1>7, <1>9, <1>10, <1>11, <1>12, <1>13, <1>14, <1>15
  DEF Store!Next

LEMMA StoreInitHolds ==
    ASSUME StoreAssumption, Store!Init
    PROVE  StoreInv
<1>1. StoreTypes
  BY FS_EmptySet DEF Store!Init, Store!Nobody, StoreTypes, StoreAssumption
<1>2. LineInv /\ KeptInv
  BY DEF Store!Init, LineInv, KeptInv
<1>3. TxInv /\ LoadInv
  BY DEF Store!Init, Store!NoTx, Store!NoLoad, TxInv, LoadInv
<1> QED
  BY <1>1, <1>2, <1>3 DEF StoreInv

LEMMA StoreInvHolds ==
    ASSUME StoreAssumption, DeleteRead = FALSE
    PROVE  Store!Init /\ [][Store!Next]_(Store!vars) => []StoreInv
<1>1. Store!Init => StoreInv
  BY StoreInitHolds
<1>2. StoreInv /\ [Store!Next]_(Store!vars) => StoreInv'
  BY StoreStep
<1> QED
  BY <1>1, <1>2, PTL

\* A transaction is stored whole or not at all, a closed trace or DNS run has its
\* rows with it, what nobody deleted is in a file, a program that runs has a file
\* that fits, and what is read is one run.
THEOREM StoresHold ==
    ASSUME StoreAssumption, DeleteRead = FALSE
    PROVE  Store!Init /\ [][Store!Next]_(Store!vars) =>
               [](Store!WritesWhole /\ Store!ClosedWithRows /\ Store!NothingLost
                  /\ Store!FitsWhenReady /\ Store!LoadsOneRun)
<1>1. StoreInv => Store!WritesWhole
  <2> SUFFICES ASSUME StoreInv, NEW row \in storeRows
               PROVE  /\ row.id \in DOMAIN runs
                      /\ {r.place : r \in {x \in storeRows : x.write = row.write}} = 1..row.of
    BY DEF Store!WritesWhole
  <2>1. row.id \in DOMAIN runs
    BY DEF StoreInv, LineInv
  <2>2. \A x \in storeRows : x.write = row.write => x.place \in 1..row.of
    BY DEF StoreInv, LineInv
  <2>3. \A k \in 1..row.of : \E x \in storeRows : x.write = row.write /\ x.place = k
    BY DEF StoreInv, LineInv
  <2> QED
    BY <2>1, <2>2, <2>3
<1>2. StoreInv => Store!ClosedWithRows
  BY DEF StoreInv, KeptInv, LineInv, Store!ClosedWithRows, Store!RowsOf
<1>3. StoreInv => Store!NothingLost /\ Store!FitsWhenReady
  BY DEF StoreInv, KeptInv, Store!NothingLost, Store!FitsWhenReady, Store!Owners
<1>4. StoreInv => Store!LoadsOneRun
  BY StoreSize DEF StoreInv, LoadInv, Store!LoadsOneRun
<1> QED
  BY <1>1, <1>2, <1>3, <1>4, StoreInvHolds, PTL

\* Type correctness of the database file: ids and owners are of runs that were made.
THEOREM StoreTypeOKHolds ==
    ASSUME StoreAssumption, DeleteRead = FALSE
    PROVE  Store!Init /\ [][Store!Next]_(Store!vars) => []Store!TypeOK
<1>1. StoreInv => Store!TypeOK
  <2> SUFFICES ASSUME StoreInv PROVE Store!TypeOK
    OBVIOUS
  <2>1. 1..made \subseteq Store!Ids
    BY DEF StoreInv, StoreTypes, StoreAssumption, Store!Ids
  <2>2. DOMAIN runs \subseteq Store!Ids /\ Store!Owners \subseteq Store!Ids
    BY <2>1 DEF StoreInv, StoreTypes, Store!Owners
  <2>3. ASSUME NEW r \in storeRows
        PROVE  r \in [id : Store!Ids, write : 1..MaxWrites, place : 1..MaxRows, of : 1..MaxRows]
    <3>1. /\ r.id \in Store!Ids /\ r.write \in 1..MaxWrites
          /\ r.place \in 1..MaxRows /\ r.of \in 1..MaxRows
      BY <2>2 DEF StoreInv, StoreTypes, LineInv, StoreAssumption
    <3>2. r \in LineTypes
      BY DEF StoreInv, StoreTypes
    <3> QED
      BY <3>1, <3>2 DEF LineTypes
  <2>4. tx.open => tx.done \in 0..tx.of
    BY DEF StoreInv, TxInv
  <2>5. load.pc \in {"none", "rows", "done"}
    BY DEF StoreInv, LoadInv
  <2> QED
    BY <2>2, <2>3, <2>4, <2>5 DEF StoreInv, StoreTypes, Store!TypeOK
<1> QED
  BY <1>1, StoreInvHolds, PTL

-----------------------------------------------------------------------------
(* Downloads, page tests and benchmarks *)

\* A benchmark has a plan to choose, and counts are numbers; a row is deleted
\* while its test runs only where there is one test.
SpeedAssumption ==
    /\ MaxItems \in Nat /\ PageSlots \in Nat /\ MaxRuns \in Nat \ {0} /\ LoadSlots \in Nat
    /\ LoadFactor \in Nat
    /\ DeleteMeasured = FALSE \/ \A t, u \in Tests : t = u

Results == {"save", "finish", "summary", "saved", "unsaved"}
TestPcs ==
    {"idle", "error", "reading", "document", "fetching", "resolve", "measure", "load",
     "loading"} \cup Results
TestTypes ==
    [pc : TestPcs, mode : {"none", "single", "page", "benchmark"}, id : Nat,
     waiting : Int, flying : Int, slots : Int, ok : Int, failed : Int, total : Int, shown : Int]
MeasuredRows == [owner : Tests, status : {"running", "completed"}]
RunRecords == [success : BOOLEAN, warmup : BOOLEAN]
RunsTypes == [plan : Speed!Plan, client : {"cold", "warm"}, done : Seq(RunRecords)]

\* Where a test stands, its counts add up to what there is.
TestFlow(q) ==
    /\ 0 <= q.flying /\ q.flying <= q.slots /\ 0 <= q.waiting
    /\ q.pc \in {"idle", "document", "reading", "resolve", "measure", "load"} =>
          q.waiting = 0 /\ q.flying = 0 /\ q.failed = 0
    /\ q.pc \in {"idle", "document", "resolve", "measure", "load"} =>
          q.ok = 0 /\ q.total = 0
    /\ q.pc \in {"fetching", "loading"} => q.waiting + q.flying + q.ok + q.failed = q.total
    /\ q.pc = "fetching" /\ q.ok + q.failed = q.total => q.shown = q.total
    /\ q.pc \in Results => q.ok + q.failed = q.total
    /\ q.pc \in Results /\ q.mode # "benchmark" =>
          q.shown = q.total \/ (q.mode = "page" /\ q.ok = 0)
    /\ q.pc \in {"resolve", "measure", "load", "loading"} => q.mode = "benchmark"
    /\ q.pc = "document" => q.mode = "page"

\* Only the first request of a warm benchmark is a warmup, unless all failed
\* before they were made.
Warmups(b) == \A i \in DOMAIN b.done : b.done[i].warmup = (i = 1 /\ b.plan.mode = "warm")
Asks(b) == b.plan.want + IF b.plan.mode = "warm" THEN 1 ELSE 0

RunsFlow(b, pc) ==
    /\ Len(b.done) <= Asks(b)
    /\ pc \in {"idle", "resolve"} => b.done = <<>>
    /\ Warmups(b) \/ (pc # "measure" /\ \A i \in DOMAIN b.done : ~b.done[i].success)

\* The row of a test that saves is its own; see SavedIsOwn of SpeedTests.
MeasuredInv ==
    /\ DOMAIN speedRows \subseteq Nat \ {0} /\ \E n \in Nat : \A i \in DOMAIN speedRows : i <= n
    /\ speedRows \in [DOMAIN speedRows -> MeasuredRows]
    /\ \A t \in Tests :
          /\ test[t].pc \in {"finish", "summary"} /\ test[t].id \in DOMAIN speedRows =>
                /\ speedRows[test[t].id].owner = t
                /\ test[t].pc = "summary" => speedRows[test[t].id].status = "completed"
          /\ test[t].pc \in {"finish", "summary"} /\ DeleteMeasured = FALSE =>
                test[t].id \in DOMAIN speedRows

SpeedInv ==
    /\ test \in [Tests -> TestTypes] /\ measured \in [Tests -> RunsTypes]
    /\ \A t \in Tests : TestFlow(test[t]) /\ RunsFlow(measured[t], test[t].pc)
    /\ MeasuredInv

LEMMA SpeedSize == \A S : Speed!Cardinality(S) = Cardinality(S)
BY DEF Cardinality, Speed!Cardinality

LEMMA SpeedNextId ==
    ASSUME MeasuredInv
    PROVE  Speed!NextId \in Nat \ {0} /\ Speed!NextId \notin DOMAIN speedRows
<1> DEFINE S == DOMAIN speedRows
           m == CHOOSE k \in S \cup {0} : \A i \in S : i <= k
<1>1. S \subseteq Nat \ {0} /\ \E n \in Nat : \A i \in S : i <= n
  BY DEF MeasuredInv
<1>2. \E k \in S \cup {0} : \A i \in S : i <= k
  <2> HIDE DEF S
  <2> QED
    BY <1>1, LargestId
<1>3. m \in S \cup {0} /\ \A i \in S : i <= m
  <2> HIDE DEF S
  <2> QED
    BY <1>2
<1>4. Speed!NextId = 1 + m
  BY DEF Speed!NextId, Speed!ids
<1> HIDE DEF m
<1> QED
  BY <1>1, <1>3, <1>4

\* What test t became keeps its counts.
TestMoves(t, pcs) ==
    \E r \in TestTypes : test' = [test EXCEPT ![t] = r] /\ TestFlow(r) /\ r.pc \in pcs

\* Where a test may be that has no row, and no run of a benchmark to make.
Rowless == {"error", "reading", "document", "fetching", "load", "loading", "save"}

LEMMA FileMoves ==
    ASSUME SpeedInv, NEW t \in Tests, Speed!StartFile(t) \/ Speed!StartPage(t) \/ Speed!Read(t)
    PROVE  TestMoves(t, Rowless)
<1> DEFINE q == test[t]
<1>0. q \in TestTypes /\ TestFlow(q)
  BY DEF SpeedInv
<1>1. ASSUME NEW mode \in {"single", "page"}, NEW pc \in {"error", "reading", "document"},
             pc = "document" => mode = "page", q.pc = "idle",
             Speed!Update(t, [q EXCEPT !.mode = mode, !.pc = pc])
      PROVE  TestMoves(t, Rowless)
  <2> DEFINE r == [q EXCEPT !.mode = mode, !.pc = pc]
  <2>1. r \in TestTypes
    BY <1>0 DEF TestTypes, TestPcs
  <2>2. /\ r.mode = mode /\ r.pc = pc /\ r.flying = q.flying /\ r.slots = q.slots
        /\ r.waiting = q.waiting /\ r.ok = q.ok /\ r.failed = q.failed /\ r.total = q.total
        /\ r.shown = q.shown
    BY <1>0 DEF TestTypes, TestPcs
  <2>3. test' = [test EXCEPT ![t] = r]
    BY <1>1 DEF Speed!Update
  <2> HIDE DEF q, r
  <2>4. TestFlow(r)
    BY <1>0, <1>1, <2>2 DEF TestFlow, TestTypes, Results
  <2> QED
    BY <1>1, <2>1, <2>2, <2>3, <2>4 DEF TestMoves, Rowless
<1>2. CASE Speed!StartFile(t)
  BY <1>1, <1>2 DEF Speed!StartFile, Speed!Start
<1>3. CASE Speed!StartPage(t)
  BY <1>1, <1>3 DEF Speed!StartPage, Speed!Start
<1>4. CASE Speed!Read(t)
  <2>1. CASE Speed!Update(t, [q EXCEPT !.pc = "error"])
    <3> DEFINE r == [q EXCEPT !.pc = "error"]
    <3>1. r \in TestTypes
      BY <1>0 DEF TestTypes, TestPcs
    <3>2. /\ r.mode = q.mode /\ r.pc = "error" /\ r.flying = q.flying /\ r.slots = q.slots
          /\ r.waiting = q.waiting
      BY <1>0 DEF TestTypes, TestPcs
    <3>3. test' = [test EXCEPT ![t] = r]
      BY <2>1 DEF Speed!Update
    <3> HIDE DEF q, r
    <3>4. TestFlow(r)
      BY <1>0, <3>2 DEF TestFlow, Results
    <3> QED
      BY <3>1, <3>2, <3>3, <3>4 DEF TestMoves, Rowless
  <2>2. ASSUME NEW shown \in {q.shown, q.ok + 1}, q.pc = "reading",
               Speed!Update(t, [q EXCEPT !.ok = @ + 1, !.shown = shown])
        PROVE  TestMoves(t, Rowless)
    <3> DEFINE r == [q EXCEPT !.ok = @ + 1, !.shown = shown]
    <3>1. shown \in Int /\ q.ok + 1 \in Int
      BY <1>0, <2>2 DEF TestTypes, TestPcs
    <3>2. r \in TestTypes
      BY <1>0, <3>1 DEF TestTypes, TestPcs
    <3>3. /\ r.mode = q.mode /\ r.pc = "reading" /\ r.flying = q.flying /\ r.slots = q.slots
          /\ r.waiting = q.waiting /\ r.failed = q.failed
      BY <1>0, <2>2 DEF TestTypes, TestPcs
    <3>4. test' = [test EXCEPT ![t] = r]
      BY <2>2 DEF Speed!Update
    <3> HIDE DEF q, r
    <3>5. TestFlow(r)
      BY <1>0, <2>2, <3>3 DEF TestFlow, Results
    <3> QED
      BY <3>2, <3>3, <3>4, <3>5 DEF TestMoves, Rowless
  <2>3. ASSUME q.pc = "reading",
               Speed!Update(t, [q EXCEPT !.pc = "save", !.total = q.ok, !.shown = q.ok])
        PROVE  TestMoves(t, Rowless)
    <3> DEFINE r == [q EXCEPT !.pc = "save", !.total = q.ok, !.shown = q.ok]
    <3>1. r \in TestTypes
      BY <1>0 DEF TestTypes, TestPcs, Results
    <3>2. /\ r.mode = q.mode /\ r.pc = "save" /\ r.flying = q.flying /\ r.slots = q.slots
          /\ r.waiting = q.waiting /\ r.failed = q.failed /\ r.ok = q.ok /\ r.total = q.ok
          /\ r.shown = q.ok
      BY <1>0 DEF TestTypes, TestPcs
    <3>3. test' = [test EXCEPT ![t] = r]
      BY <2>3 DEF Speed!Update
    <3> HIDE DEF q, r
    <3>4. TestFlow(r)
      BY <1>0, <2>3, <3>2 DEF TestFlow, TestTypes, Results
    <3> QED
      BY <3>1, <3>2, <3>3, <3>4 DEF TestMoves, Rowless
  <2> QED
    BY <1>4, <2>1, <2>2, <2>3 DEF Speed!Read
<1> QED
  BY <1>2, <1>3, <1>4

LEMMA DocumentMoves ==
    ASSUME SpeedAssumption, SpeedInv, NEW t \in Tests, Speed!Document(t)
    PROVE  TestMoves(t, Rowless)
<1> DEFINE q == test[t]
<1>0. q \in TestTypes /\ TestFlow(q) /\ q.pc = "document"
  BY DEF SpeedInv, Speed!Document
<1>1. ASSUME Speed!Update(t, [q EXCEPT !.pc = "save", !.total = 1, !.failed = 1])
      PROVE  TestMoves(t, Rowless)
  <2> DEFINE r == [q EXCEPT !.pc = "save", !.total = 1, !.failed = 1]
  <2>0. "save" \in TestPcs /\ 1 \in Int
    BY DEF TestPcs, Results
  <2>1. r \in TestTypes
    BY <1>0, <2>0, Zenon DEF TestTypes
  <2>2. /\ r.mode = q.mode /\ r.pc = "save" /\ r.flying = q.flying /\ r.slots = q.slots
        /\ r.waiting = q.waiting /\ r.ok = q.ok /\ r.failed = 1 /\ r.total = 1
    BY <1>0 DEF TestTypes
  <2>3. test' = [test EXCEPT ![t] = r]
    BY <1>1 DEF Speed!Update
  <2> HIDE DEF q, r
  <2>4. TestFlow(r)
    BY <1>0, <2>2 DEF TestFlow, Results
  <2> QED
    BY <2>1, <2>2, <2>3, <2>4 DEF TestMoves, Rowless
<1>2. ASSUME NEW found \in 0..MaxItems,
             Speed!Update(t, [q EXCEPT !.pc = "fetching", !.total = found + 1,
                                       !.waiting = found, !.ok = 1, !.shown = 1,
                                       !.slots = PageSlots])
      PROVE  TestMoves(t, Rowless)
  <2> DEFINE r == [q EXCEPT !.pc = "fetching", !.total = found + 1, !.waiting = found,
                            !.ok = 1, !.shown = 1, !.slots = PageSlots]
  <2>1. found \in Nat /\ PageSlots \in Nat
    BY DEF SpeedAssumption
  <2>0. /\ "fetching" \in TestPcs /\ found \in Int /\ found + 1 \in Int /\ PageSlots \in Int
        /\ 1 \in Int
    BY <2>1 DEF TestPcs
  <2>2. r \in TestTypes
    BY <1>0, <2>0, Zenon DEF TestTypes
  <2>3. /\ r.pc = "fetching" /\ r.flying = q.flying /\ r.slots = PageSlots
        /\ r.waiting = found /\ r.ok = 1 /\ r.failed = q.failed /\ r.total = found + 1
        /\ r.shown = 1
    BY <1>0 DEF TestTypes
  <2>4. test' = [test EXCEPT ![t] = r]
    BY <1>2 DEF Speed!Update
  <2> HIDE DEF q, r
  <2>5. TestFlow(r)
    BY <1>0, <2>1, <2>3 DEF TestFlow, Results
  <2> QED
    BY <2>2, <2>3, <2>4, <2>5 DEF TestMoves, Rowless
<1> QED
  BY <1>1, <1>2 DEF Speed!Document

\* The set of requests under way: one starts, one ends, or there is none left.
LEMMA PoolMoves ==
    ASSUME SpeedAssumption, SpeedInv, NEW t \in Tests,
           Speed!Send(t) \/ Speed!Fetched(t) \/ Speed!Loaded(t) \/ Speed!Drained(t)
    PROVE  TestMoves(t, Rowless)
<1> DEFINE q == test[t]
<1>0. q \in TestTypes /\ TestFlow(q) /\ q.pc \in {"fetching", "loading"}
  BY DEF SpeedInv, Speed!Send, Speed!Fetched, Speed!Loaded, Speed!Drained
<1>6. /\ q.waiting \in Int /\ q.flying \in Int /\ q.slots \in Int /\ q.ok \in Int
      /\ q.failed \in Int /\ q.total \in Int /\ q.shown \in Int
  BY <1>0 DEF TestTypes
<1>1. CASE Speed!Send(t)
  <2> DEFINE r == [q EXCEPT !.waiting = @ - 1, !.flying = @ + 1]
  <2>0. q.waiting - 1 \in Int /\ q.flying + 1 \in Int
    BY <1>6
  <2>1. r \in TestTypes
    BY <1>0, <2>0, Zenon DEF TestTypes
  <2>2. /\ r.pc = q.pc /\ r.mode = q.mode /\ r.flying = q.flying + 1 /\ r.slots = q.slots
        /\ r.waiting = q.waiting - 1 /\ r.ok = q.ok /\ r.failed = q.failed
        /\ r.total = q.total /\ r.shown = q.shown
    BY <1>0 DEF TestTypes
  <2>3. test' = [test EXCEPT ![t] = r] /\ q.waiting > 0 /\ q.flying < q.slots
    BY <1>1 DEF Speed!Send, Speed!Update
  <2> HIDE DEF q, r
  <2>4. TestFlow(r)
    BY <1>0, <1>6, <2>2, <2>3 DEF TestFlow, Results
  <2> QED
    BY <1>0, <2>1, <2>2, <2>3, <2>4 DEF TestMoves, Rowless
<1>2. ASSUME NEW good \in BOOLEAN
      PROVE  LET e == Speed!Ended(t, good)
             IN  /\ e \in TestTypes
                 /\ e.pc = q.pc /\ e.mode = q.mode /\ e.flying = q.flying - 1
                 /\ e.slots = q.slots /\ e.waiting = q.waiting /\ e.total = q.total
                 /\ e.shown = q.shown /\ e.ok + e.failed = q.ok + q.failed + 1
                 /\ e.ok >= q.ok
  <2> DEFINE a == [q EXCEPT !.flying = @ - 1, !.ok = @ + 1]
             b == [q EXCEPT !.flying = @ - 1, !.failed = @ + 1]
  <2>1. Speed!Ended(t, good) = IF good THEN a ELSE b
    BY DEF Speed!Ended
  <2>0. q.flying - 1 \in Int /\ q.ok + 1 \in Int /\ q.failed + 1 \in Int
    BY <1>6
  <2>2. a \in TestTypes /\ b \in TestTypes
    <3>1. a \in TestTypes
      BY <1>0, <2>0, Zenon DEF TestTypes
    <3>2. b \in TestTypes
      BY <1>0, <2>0, Zenon DEF TestTypes
    <3> QED
      BY <3>1, <3>2
  <2>3. /\ a.pc = q.pc /\ a.mode = q.mode /\ a.flying = q.flying - 1
        /\ a.slots = q.slots /\ a.waiting = q.waiting /\ a.total = q.total
        /\ a.shown = q.shown /\ a.ok = q.ok + 1 /\ a.failed = q.failed
    BY <1>0 DEF TestTypes
  <2>4. /\ b.pc = q.pc /\ b.mode = q.mode /\ b.flying = q.flying - 1
        /\ b.slots = q.slots /\ b.waiting = q.waiting /\ b.total = q.total
        /\ b.shown = q.shown /\ b.ok = q.ok /\ b.failed = q.failed + 1
    BY <1>0 DEF TestTypes
  <2>5. q.ok \in Int /\ q.failed \in Int
    BY <1>0 DEF TestTypes
  <2> HIDE DEF q, a, b
  <2> QED
    BY <2>1, <2>2, <2>3, <2>4, <2>5
<1>3. CASE Speed!Fetched(t)
  <2>1. PICK shown \in {q.shown, Speed!Completed(t) + 1}, good \in BOOLEAN :
          /\ Speed!Completed(t) + 1 = q.total => shown = q.total
          /\ test' = [test EXCEPT ![t] = [Speed!Ended(t, good) EXCEPT !.shown = shown]]
    BY <1>3 DEF Speed!Fetched, Speed!Update
  <2> DEFINE e == Speed!Ended(t, good)
             r == [e EXCEPT !.shown = shown]
  <2>2. Speed!Completed(t) = q.ok + q.failed
    BY DEF Speed!Completed
  <2>3. shown \in Int
    BY <1>0, <2>1, <2>2 DEF TestTypes
  <2>4. /\ e \in TestTypes
        /\ e.pc = q.pc /\ e.mode = q.mode /\ e.flying = q.flying - 1
        /\ e.slots = q.slots /\ e.waiting = q.waiting /\ e.total = q.total
        /\ e.ok + e.failed = q.ok + q.failed + 1
    BY <1>2
  <2>5. q.flying > 0 /\ q.pc = "fetching"
    BY <1>3 DEF Speed!Fetched
  <2> HIDE DEF e
  <2>6. r \in TestTypes
    BY <2>3, <2>4 DEF TestTypes
  <2>7. /\ r.pc = e.pc /\ r.mode = e.mode /\ r.flying = e.flying /\ r.slots = e.slots
        /\ r.waiting = e.waiting /\ r.ok = e.ok /\ r.failed = e.failed /\ r.total = e.total
        /\ r.shown = shown
    BY <2>4 DEF TestTypes
  <2>8. test' = [test EXCEPT ![t] = r]
    BY <2>1 DEF e
  <2>9. q.ok + q.failed + 1 = q.total => shown = q.total
    BY <2>1, <2>2
  <2> HIDE DEF q, r
  <2>11. e.ok \in Int /\ e.failed \in Int
    BY <2>4 DEF TestTypes
  <2>10. TestFlow(r)
    BY <1>0, <1>6, <2>3, <2>4, <2>5, <2>7, <2>9, <2>11 DEF TestFlow, Results
  <2> QED
    BY <2>4, <2>5, <2>6, <2>7, <2>8, <2>10 DEF TestMoves, Rowless
<1>4. CASE Speed!Loaded(t)
  <2>1. PICK good \in BOOLEAN : test' = [test EXCEPT ![t] = Speed!Ended(t, good)]
    BY <1>4 DEF Speed!Loaded, Speed!Update
  <2> DEFINE e == Speed!Ended(t, good)
  <2>2. /\ e \in TestTypes
        /\ e.pc = q.pc /\ e.mode = q.mode /\ e.flying = q.flying - 1
        /\ e.slots = q.slots /\ e.waiting = q.waiting /\ e.total = q.total
        /\ e.ok + e.failed = q.ok + q.failed + 1
    BY <1>2
  <2>3. q.flying > 0 /\ q.pc = "loading"
    BY <1>4 DEF Speed!Loaded
  <2>4. test' = [test EXCEPT ![t] = e]
    BY <2>1
  <2> HIDE DEF q, e
  <2>6. e.ok \in Int /\ e.failed \in Int
    BY <2>2 DEF TestTypes
  <2>5. TestFlow(e)
    BY <1>0, <1>6, <2>2, <2>3, <2>6 DEF TestFlow, Results
  <2> QED
    BY <2>2, <2>3, <2>4, <2>5 DEF TestMoves, Rowless
<1>5. CASE Speed!Drained(t)
  <2> DEFINE r == [q EXCEPT !.pc = "save"]
  <2>1. r \in TestTypes
    BY <1>0 DEF TestTypes, TestPcs, Results
  <2>2. /\ r.pc = "save" /\ r.mode = q.mode /\ r.flying = q.flying /\ r.slots = q.slots
        /\ r.waiting = q.waiting /\ r.ok = q.ok /\ r.failed = q.failed
        /\ r.total = q.total /\ r.shown = q.shown
    BY <1>0 DEF TestTypes
  <2>3. test' = [test EXCEPT ![t] = r] /\ q.waiting = 0 /\ q.flying = 0
    BY <1>5 DEF Speed!Drained, Speed!Update
  <2> HIDE DEF q, r
  <2>4. q.pc = "loading" => q.mode = "benchmark"
    BY <1>0 DEF TestFlow
  <2>5. q.ok + q.failed = q.total /\ (q.pc = "fetching" => q.shown = q.total)
    BY <1>0, <1>6, <2>3 DEF TestFlow
  <2>6. TestFlow(r)
    BY <1>0, <1>6, <2>2, <2>3, <2>4, <2>5 DEF TestFlow, Results
  <2> QED
    BY <2>1, <2>2, <2>3, <2>6 DEF TestMoves, Rowless
<1> QED
  BY <1>1, <1>3, <1>4, <1>5

\* A benchmark goes from one phase to the next.
LEMMA PhaseMoves ==
    ASSUME SpeedInv, NEW t \in Tests, NEW mode \in {test[t].mode, "benchmark"},
           NEW pc \in {"error", "resolve", "measure", "load", "save"},
           \/ test[t].pc = "idle" /\ pc \in {"error", "resolve"} /\ mode = "benchmark"
           \/ test[t].pc \in {"resolve", "measure", "load"} /\ pc \notin {"error", "resolve"},
           Speed!Update(t, [test[t] EXCEPT !.mode = mode, !.pc = pc])
    PROVE  TestMoves(t, {pc})
<1> DEFINE q == test[t]
           r == [q EXCEPT !.mode = mode, !.pc = pc]
<1>0. q \in TestTypes /\ TestFlow(q)
  BY DEF SpeedInv
<1>1. mode \in {"none", "single", "page", "benchmark"}
  BY <1>0 DEF TestTypes
<1>2. r \in TestTypes
  BY <1>0, <1>1 DEF TestTypes, TestPcs, Results
<1>3. /\ r.pc = pc /\ r.mode = mode /\ r.flying = q.flying /\ r.slots = q.slots
      /\ r.waiting = q.waiting /\ r.ok = q.ok /\ r.failed = q.failed
      /\ r.total = q.total /\ r.shown = q.shown
  BY <1>0 DEF TestTypes
<1>4. test' = [test EXCEPT ![t] = r]
  BY DEF Speed!Update
<1>5. \/ q.pc = "idle" /\ pc \in {"error", "resolve"} /\ mode = "benchmark"
      \/ q.pc \in {"resolve", "measure", "load"} /\ pc \notin {"error", "resolve"}
  OBVIOUS
<1>6. mode \in {q.mode, "benchmark"}
  OBVIOUS
<1> HIDE DEF q, r
<1>7. TestFlow(r)
  BY <1>0, <1>3, <1>5, <1>6 DEF TestFlow, TestTypes, Results
<1>8. r.pc \in {pc}
  BY <1>3
<1> QED
  BY <1>2, <1>4, <1>7, <1>8 DEF TestMoves

LEMMA LoadMoves ==
    ASSUME SpeedAssumption, SpeedInv, NEW t \in Tests, Speed!Load(t)
    PROVE  TestMoves(t, Rowless)
<1> DEFINE q == test[t]
           n == LoadFactor * measured[t].plan.load
           r == [q EXCEPT !.pc = "loading", !.total = n, !.waiting = n,
                          !.slots = measured[t].plan.load]
<1>0. q \in TestTypes /\ TestFlow(q) /\ q.pc = "load"
  BY DEF SpeedInv, Speed!Load
<1>1. CASE Speed!Update(t, [q EXCEPT !.pc = "save"])
  <2>1. q.mode = "benchmark" /\ "benchmark" \in {q.mode, "benchmark"}
    BY <1>0 DEF TestFlow
  <2> DEFINE s == [q EXCEPT !.pc = "save"]
  <2>2. s \in TestTypes
    BY <1>0 DEF TestTypes, TestPcs, Results
  <2>3. /\ s.pc = "save" /\ s.mode = q.mode /\ s.flying = q.flying /\ s.slots = q.slots
        /\ s.waiting = q.waiting /\ s.ok = q.ok /\ s.failed = q.failed
        /\ s.total = q.total /\ s.shown = q.shown
    BY <1>0 DEF TestTypes
  <2>4. test' = [test EXCEPT ![t] = s]
    BY <1>1 DEF Speed!Update
  <2> HIDE DEF q, s
  <2>5. TestFlow(s)
    BY <1>0, <2>1, <2>3 DEF TestFlow, Results
  <2> QED
    BY <2>2, <2>3, <2>4, <2>5 DEF TestMoves, Rowless
<1>2. CASE Speed!Update(t, r)
  <2>1. measured[t].plan \in Speed!Plan
    BY DEF SpeedInv, RunsTypes
  <2>2. measured[t].plan.load \in Nat
    BY <2>1 DEF Speed!Plan, SpeedAssumption
  <2>3. \A a, b \in Nat : a * b \in Nat
    OBVIOUS
  <2>4. n \in Nat
    BY <2>2, <2>3 DEF SpeedAssumption
  <2> DEFINE level == measured[t].plan.load
  <2>5. "loading" \in TestPcs /\ n \in Int /\ level \in Int
    BY <2>2, <2>4 DEF TestPcs
  <2> HIDE DEF n, level
  <2>6. r \in TestTypes
    BY <1>0, <2>5, Zenon DEF TestTypes, level
  <2>7. /\ r.pc = "loading" /\ r.mode = q.mode /\ r.flying = q.flying /\ r.slots = level
        /\ r.waiting = n /\ r.ok = q.ok /\ r.failed = q.failed /\ r.total = n
    BY <1>0 DEF TestTypes, level
  <2>8. test' = [test EXCEPT ![t] = r]
    BY <1>2 DEF Speed!Update
  <2>9. level \in Nat
    BY <2>2 DEF level
  <2> HIDE DEF q, r
  <2>10. TestFlow(r)
    BY <1>0, <2>4, <2>7, <2>9 DEF TestFlow, Results
  <2> QED
    BY <2>6, <2>7, <2>8, <2>10 DEF TestMoves, Rowless
<1> QED
  BY <1>1, <1>2 DEF Speed!Load

\* The runs of a benchmark that was not started, or only had its plan made.
LEMMA PlanTypes ==
    ASSUME SpeedAssumption
    PROVE  Speed!NoRuns.plan \in Speed!Plan
<1>1. [version |-> "auto", mode |-> "cold", want |-> 1, load |-> 0] \in Speed!Plan
  BY DEF Speed!Plan, SpeedAssumption
<1>2. Speed!NoRuns.plan = CHOOSE p \in Speed!Plan : TRUE
  BY DEF Speed!NoRuns
<1> QED
  BY <1>1, <1>2, Zenon

LEMMA FreshRuns ==
    ASSUME NEW b \in RunsTypes, b.done = <<>>, NEW pc
    PROVE  RunsFlow(b, pc)
<1>1. b.plan \in Speed!Plan
  BY DEF RunsTypes
<1>2. Asks(b) >= 0
  BY <1>1 DEF Asks, Speed!Plan
<1> QED
  BY <1>2 DEF RunsFlow, Warmups

\* The runs a step made of those of test t, and where the test is then.
RunsMove(t) ==
    \E b \in RunsTypes, pc \in TestPcs :
        /\ measured' = [measured EXCEPT ![t] = b] /\ RunsFlow(b, pc)
        /\ TestMoves(t, {pc}) \/ (test' = test /\ pc = test[t].pc)
        /\ pc \notin {"finish", "summary", "saved"}

LEMMA StartBenchmarkMoves ==
    ASSUME SpeedAssumption, SpeedInv, NEW t \in Tests, Speed!StartBenchmark(t)
    PROVE  RunsMove(t)
<1>0. test[t].pc = "idle" /\ measured[t] \in RunsTypes /\ RunsFlow(measured[t], test[t].pc)
      /\ measured \in [Tests -> RunsTypes]
  BY DEF SpeedInv, Speed!StartBenchmark
<1>1. measured[t].done = <<>>
  BY <1>0 DEF RunsFlow
<1>2. CASE /\ Speed!Update(t, [test[t] EXCEPT !.mode = "benchmark", !.pc = "error"])
           /\ UNCHANGED measured
  <2>1. TestMoves(t, {"error"})
    BY <1>0, <1>2, PhaseMoves
  <2>2. measured' = [measured EXCEPT ![t] = measured[t]]
    BY <1>0, <1>2
  <2>3. "error" \in TestPcs
    BY DEF TestPcs
  <2> QED
    BY <1>0, <1>1, <2>1, <2>2, <2>3, FreshRuns DEF RunsMove
<1>3. ASSUME NEW plan \in Speed!Plan,
             Speed!Update(t, [test[t] EXCEPT !.mode = "benchmark", !.pc = "resolve"]),
             measured' = [measured EXCEPT ![t] =
                            [plan |-> plan, client |-> plan.mode, done |-> <<>>]]
      PROVE  RunsMove(t)
  <2> DEFINE b == [plan |-> plan, client |-> plan.mode, done |-> <<>>]
  <2>2. plan.mode \in {"cold", "warm"} /\ <<>> \in Seq(RunRecords)
    BY DEF Speed!Plan
  <2>3. b \in RunsTypes /\ b.done = <<>>
    BY <1>3, <2>2, Zenon DEF RunsTypes
  <2>4. TestMoves(t, {"resolve"})
    BY <1>0, <1>3, PhaseMoves
  <2>5. "resolve" \in TestPcs
    BY DEF TestPcs
  <2> QED
    BY <1>3, <2>3, <2>4, <2>5, FreshRuns DEF RunsMove
<1> QED
  BY <1>2, <1>3 DEF Speed!StartBenchmark

\* A run is appended: the first of a warm benchmark is its warmup.
LEMMA AppendRun ==
    ASSUME SpeedInv, NEW t \in Tests, NEW run \in RunRecords,
           run.warmup = Speed!IsWarmup(t), Len(measured[t].done) < Asks(measured[t]),
           test[t].pc = "measure"
    PROVE  LET b == [measured[t] EXCEPT !.done = Append(@, run)]
           IN  b \in RunsTypes /\ RunsFlow(b, "measure")
<1> DEFINE m == measured[t]
           b == [m EXCEPT !.done = Append(@, run)]
<1>0. m \in RunsTypes /\ RunsFlow(m, "measure")
  BY DEF SpeedInv
<1>1. m.done \in Seq(RunRecords) /\ m.plan \in Speed!Plan
  BY <1>0 DEF RunsTypes
<1>2. Append(m.done, run) \in Seq(RunRecords)
  BY <1>1
<1>3. b \in RunsTypes
  BY <1>0, <1>2, Zenon DEF RunsTypes
<1>4. b.done = Append(m.done, run) /\ b.plan = m.plan
  BY <1>0 DEF RunsTypes
<1>5. run.warmup = (m.plan.mode = "warm" /\ m.done = <<>>)
  BY DEF Speed!IsWarmup
<1>6. Len(m.done) < Asks(m)
  OBVIOUS
<1> HIDE DEF m, b
<1>7. Len(b.done) <= Asks(b)
  <2>1. Asks(b) = Asks(m) /\ Asks(m) \in Int
    BY <1>1, <1>4 DEF Asks, Speed!Plan
  <2> QED
    BY <1>1, <1>4, <1>6, <2>1
<1>8. Warmups(m)
  BY <1>0 DEF RunsFlow
<1>9. ASSUME NEW i \in DOMAIN b.done
      PROVE  b.done[i].warmup = (i = 1 /\ b.plan.mode = "warm")
  <2>1. CASE i \in DOMAIN m.done
    <3>1. b.done[i] = m.done[i]
      BY <1>1, <1>4, <2>1
    <3> QED
      BY <1>4, <1>8, <2>1, <3>1 DEF Warmups
  <2>2. CASE i = Len(m.done) + 1
    <3>1. b.done[i] = run
      BY <1>1, <1>4, <2>2
    <3>2. m.done = <<>> <=> i = 1
      BY <1>1, <2>2
    <3> QED
      BY <1>4, <1>5, <3>1, <3>2
  <2> QED
    BY <1>1, <1>4, <2>1, <2>2
<1>10. RunsFlow(b, "measure")
  BY <1>7, <1>9 DEF RunsFlow, Warmups
<1> QED
  BY <1>3, <1>10 DEF b, m

LEMMA MeasureMoves ==
    ASSUME SpeedAssumption, SpeedInv, NEW t \in Tests, Speed!Measure(t)
    PROVE  RunsMove(t)
<1> DEFINE m == measured[t]
<1>0. /\ test[t].pc = "measure" /\ test[t].mode = "benchmark"
      /\ m \in RunsTypes /\ RunsFlow(m, "measure") /\ measured \in [Tests -> RunsTypes]
  BY DEF SpeedInv, Speed!Measure, TestFlow
<1>1. Speed!Requests(t) = Asks(m)
  BY DEF Speed!Requests, Asks
<1>2. m.done \in Seq(RunRecords) /\ m.plan \in Speed!Plan
  BY <1>0 DEF RunsTypes
<1>3. Len(m.done) <= Asks(m) /\ Asks(m) \in Int /\ Len(m.done) \in Nat
  BY <1>0, <1>2 DEF RunsFlow, Asks, Speed!Plan
<1>4. CASE Len(m.done) = Asks(m)
  <2>1. Speed!Update(t, [test[t] EXCEPT !.pc = "load"]) /\ UNCHANGED measured
    BY <1>1, <1>4 DEF Speed!Measure
  <2>2. TestMoves(t, {"load"})
    <3> DEFINE q == test[t]
               s == [q EXCEPT !.pc = "load"]
    <3>0. q \in TestTypes /\ TestFlow(q) /\ q.pc = "measure"
      BY <1>0 DEF SpeedInv
    <3>1. s \in TestTypes
      BY <3>0 DEF TestTypes, TestPcs
    <3>2. /\ s.pc = "load" /\ s.mode = q.mode /\ s.flying = q.flying /\ s.slots = q.slots
          /\ s.waiting = q.waiting /\ s.ok = q.ok /\ s.failed = q.failed
          /\ s.total = q.total
      BY <3>0 DEF TestTypes
    <3>3. test' = [test EXCEPT ![t] = s]
      BY <2>1 DEF Speed!Update
    <3> HIDE DEF q, s
    <3>4. TestFlow(s)
      BY <3>0, <3>2 DEF TestFlow, Results
    <3> QED
      BY <3>1, <3>2, <3>3, <3>4 DEF TestMoves
  <2>3. measured' = [measured EXCEPT ![t] = m]
    BY <1>0, <2>1
  <2>4. RunsFlow(m, "load") /\ "load" \in TestPcs
    BY <1>0 DEF RunsFlow, TestPcs
  <2> HIDE DEF m
  <2> QED
    BY <1>0, <2>2, <2>3, <2>4 DEF RunsMove
<1>5. CASE Len(m.done) # Asks(m)
  <2>1. PICK run \in (IF m.plan.mode = "cold" THEN Speed!ColdRuns(t)
                      ELSE Speed!WarmRuns(t)) :
          measured' = [measured EXCEPT ![t].done = Append(@, run)]
    BY <1>1, <1>5 DEF Speed!Measure
  <2>2. UNCHANGED test
    BY <1>1, <1>5 DEF Speed!Measure
  <2>3. run \in RunRecords /\ run.warmup = Speed!IsWarmup(t)
    <3>1. Speed!IsWarmup(t) \in BOOLEAN
      BY DEF Speed!IsWarmup
    <3>2. run \in {Speed!Unanswered(t)} \cup Speed!Answers(t)
      BY <2>1 DEF Speed!ColdRuns, Speed!WarmRuns
    <3>3. \E whole \in BOOLEAN : run = [success |-> whole, warmup |-> Speed!IsWarmup(t)]
      BY <3>2 DEF Speed!Unanswered, Speed!Answers, Speed!Run
    <3>4. PICK whole \in BOOLEAN : run = [success |-> whole, warmup |-> Speed!IsWarmup(t)]
      BY <3>3
    <3>5. run \in RunRecords
      BY <3>1, <3>4, Zenon DEF RunRecords
    <3>6. run.warmup = Speed!IsWarmup(t)
      BY <3>4, Zenon
    <3> QED
      BY <3>5, <3>6
  <2> DEFINE b == [m EXCEPT !.done = Append(@, run)]
  <2>4. Len(m.done) < Asks(m)
    BY <1>3, <1>5
  <2>5. b \in RunsTypes /\ RunsFlow(b, "measure")
    BY <1>0, <2>3, <2>4, AppendRun
  <2>6. measured' = [measured EXCEPT ![t] = b]
    BY <2>1
  <2>7. "measure" \in TestPcs
    BY DEF TestPcs
  <2> HIDE DEF b
  <2> QED
    BY <1>0, <2>2, <2>5, <2>6, <2>7 DEF RunsMove
<1> QED
  BY <1>4, <1>5

LEMMA ResolveMoves ==
    ASSUME SpeedAssumption, SpeedInv, NEW t \in Tests, Speed!Resolve(t)
    PROVE  RunsMove(t)
<1> DEFINE m == measured[t]
           lost == Speed!Run(FALSE, FALSE)
<1>0. /\ test[t].pc = "resolve" /\ test[t].mode = "benchmark"
      /\ m \in RunsTypes /\ RunsFlow(m, "resolve") /\ measured \in [Tests -> RunsTypes]
  BY DEF SpeedInv, Speed!Resolve, TestFlow
<1>1. m.done = <<>> /\ m.plan \in Speed!Plan
  BY <1>0 DEF RunsFlow, RunsTypes
<1>2. ASSUME NEW pc \in {"load", "measure"},
             Speed!Update(t, [test[t] EXCEPT !.pc = pc])
      PROVE  TestMoves(t, {pc})
  <2> DEFINE q == test[t]
             s == [q EXCEPT !.pc = pc]
  <2>0. q \in TestTypes /\ TestFlow(q) /\ q.pc = "resolve"
    BY <1>0 DEF SpeedInv
  <2>1. s \in TestTypes
    BY <2>0 DEF TestTypes, TestPcs
  <2>2. /\ s.pc = pc /\ s.mode = q.mode /\ s.flying = q.flying /\ s.slots = q.slots
        /\ s.waiting = q.waiting /\ s.ok = q.ok /\ s.failed = q.failed
        /\ s.total = q.total
    BY <2>0 DEF TestTypes
  <2>3. test' = [test EXCEPT ![t] = s]
    BY <1>2 DEF Speed!Update
  <2> HIDE DEF q, s
  <2>4. TestFlow(s)
    BY <2>0, <2>2 DEF TestFlow, Results
  <2> QED
    BY <2>1, <2>2, <2>3, <2>4 DEF TestMoves
<1>3. "load" \in TestPcs /\ "measure" \in TestPcs
  BY DEF TestPcs
<1>4. ASSUME Speed!Update(t, [test[t] EXCEPT !.pc = "measure"]), UNCHANGED measured
      PROVE  RunsMove(t)
  <2>1. measured' = [measured EXCEPT ![t] = m]
    BY <1>0, <1>4
  <2>2. TestMoves(t, {"measure"})
    BY <1>2, <1>4
  <2>3. RunsFlow(m, "measure")
    BY <1>0, <1>1, FreshRuns
  <2> HIDE DEF m
  <2> QED
    BY <1>0, <1>3, <2>1, <2>2, <2>3 DEF RunsMove
<1>5. ASSUME NEW failures \in Seq(RunRecords), Len(failures) <= Asks(m),
             \A i \in DOMAIN failures : ~failures[i].success,
             measured' = [measured EXCEPT ![t].done = failures],
             Speed!Update(t, [test[t] EXCEPT !.pc = "load"])
      PROVE  RunsMove(t)
  <2> DEFINE b == [m EXCEPT !.done = failures]
  <2>1. b \in RunsTypes
    BY <1>0, Zenon DEF RunsTypes
  <2>2. b.done = failures /\ b.plan = m.plan
    BY <1>0 DEF RunsTypes
  <2>3. measured' = [measured EXCEPT ![t] = b]
    BY <1>5
  <2>4. TestMoves(t, {"load"})
    BY <1>2, <1>5
  <2>5. Asks(b) = Asks(m)
    BY <2>2 DEF Asks
  <2> HIDE DEF m, b
  <2>6. RunsFlow(b, "load")
    BY <1>5, <2>2, <2>5 DEF RunsFlow
  <2> QED
    BY <1>3, <2>1, <2>3, <2>4, <2>6 DEF RunsMove
<1>6. /\ m.plan.want \in Nat /\ m.plan.want >= 1
      /\ Asks(m) = m.plan.want + IF m.plan.mode = "warm" THEN 1 ELSE 0
  BY <1>1 DEF Speed!Plan, SpeedAssumption, Asks
<1>7. lost \in RunRecords /\ ~lost.success
  BY DEF Speed!Run, RunRecords
<1> HIDE DEF lost
<1>8. ASSUME measured' = [measured EXCEPT ![t].done = <<lost>>],
             Speed!Update(t, [test[t] EXCEPT !.pc = "load"])
      PROVE  RunsMove(t)
  <2> DEFINE failures == <<lost>>
  <2>1. /\ failures \in Seq(RunRecords) /\ Len(failures) = 1
        /\ \A i \in DOMAIN failures : failures[i] = lost
    BY <1>7
  <2>2. Len(failures) <= Asks(m) /\ \A i \in DOMAIN failures : ~failures[i].success
    BY <1>6, <1>7, <2>1
  <2> HIDE DEF failures, m
  <2>3. measured' = [measured EXCEPT ![t].done = failures]
    BY <1>8 DEF failures
  <2> QED
    BY <1>5, <1>8, <2>1, <2>2, <2>3
<1>9. ASSUME m.plan.mode = "warm",
             measured' = [measured EXCEPT ![t].done =
                            [i \in 1..(m.plan.want + 1) |-> lost]],
             Speed!Update(t, [test[t] EXCEPT !.pc = "load"])
      PROVE  RunsMove(t)
  <2> DEFINE n == m.plan.want + 1
             failures == [i \in 1..n |-> lost]
  <2>1. n \in Nat /\ Asks(m) = n
    BY <1>6, <1>9
  <2> HIDE DEF n, m
  <2>2. /\ failures \in Seq(RunRecords) /\ Len(failures) = n
        /\ DOMAIN failures = 1..n
        /\ \A i \in DOMAIN failures : failures[i] = lost
    BY <1>7, <2>1
  <2>3. Len(failures) <= Asks(m) /\ \A i \in DOMAIN failures : ~failures[i].success
    BY <1>7, <2>1, <2>2
  <2> HIDE DEF failures
  <2>4. measured' = [measured EXCEPT ![t].done = failures]
    BY <1>9 DEF failures, n, m
  <2> QED
    BY <1>5, <1>9, <2>2, <2>3, <2>4
<1> QED
  BY <1>4, <1>8, <1>9 DEF Speed!Resolve, lost

-----------------------------------------------------------------------------
\* A test that is not after a row leaves the table as it was.
LEMMA RowsKept ==
    ASSUME SpeedInv, NEW t \in Tests, UNCHANGED speedRows,
           \/ test' = test
           \/ \E r \in TestTypes : /\ test' = [test EXCEPT ![t] = r]
                                   /\ r.pc \notin {"finish", "summary"}
    PROVE  MeasuredInv'
BY DEF SpeedInv, MeasuredInv

LEMMA MovesKeep ==
    ASSUME SpeedInv, NEW t \in Tests, TestMoves(t, Rowless), UNCHANGED <<measured, speedRows>>
    PROVE  SpeedInv'
<1>1. PICK r \in TestTypes : /\ test' = [test EXCEPT ![t] = r] /\ TestFlow(r) /\ r.pc \in Rowless
  BY DEF TestMoves
<1>2. test' \in [Tests -> TestTypes] /\ \A u \in Tests : TestFlow(test'[u])
  BY <1>1 DEF SpeedInv
<1>3. RunsFlow(measured[t], r.pc)
  BY <1>1 DEF SpeedInv, RunsFlow, Rowless
<1>4. \A u \in Tests : RunsFlow(measured[u], test'[u].pc)
  BY <1>1, <1>3 DEF SpeedInv
<1>5. MeasuredInv'
  <2>1. r.pc \notin {"finish", "summary"}
    BY <1>1 DEF Rowless
  <2> QED
    BY <1>1, <2>1, RowsKept
<1> QED
  BY <1>2, <1>4, <1>5 DEF SpeedInv

LEMMA RunsKeep ==
    ASSUME SpeedInv, NEW t \in Tests, RunsMove(t), UNCHANGED speedRows
    PROVE  SpeedInv'
<1>1. PICK b \in RunsTypes, pc \in TestPcs :
        /\ measured' = [measured EXCEPT ![t] = b] /\ RunsFlow(b, pc)
        /\ TestMoves(t, {pc}) \/ (test' = test /\ pc = test[t].pc)
        /\ pc \notin {"finish", "summary", "saved"}
  BY DEF RunsMove
<1>2. PICK r \in TestTypes : test' = [test EXCEPT ![t] = r] /\ TestFlow(r) /\ r.pc = pc
  <2>1. CASE TestMoves(t, {pc})
    BY <2>1 DEF TestMoves
  <2>2. CASE test' = test /\ pc = test[t].pc
    <3>1. test' = [test EXCEPT ![t] = test[t]]
      BY <2>2 DEF SpeedInv
    <3>2. test[t] \in TestTypes /\ TestFlow(test[t])
      BY DEF SpeedInv
    <3> QED
      BY <2>2, <3>1, <3>2
  <2> QED
    BY <1>1, <2>1, <2>2
<1>3. test' \in [Tests -> TestTypes] /\ \A u \in Tests : TestFlow(test'[u])
  BY <1>2 DEF SpeedInv
<1>4. measured' \in [Tests -> RunsTypes]
  BY <1>1 DEF SpeedInv
<1>5. \A u \in Tests : RunsFlow(measured'[u], test'[u].pc)
  BY <1>1, <1>2 DEF SpeedInv
<1>6. MeasuredInv'
  BY <1>1, <1>2, RowsKept
<1> QED
  BY <1>3, <1>4, <1>5, <1>6 DEF SpeedInv

\* Saving changes where a test is and the id of its row.
LEMMA SavingFlow ==
    ASSUME SpeedInv, NEW t \in Tests, test[t].pc \in {"save", "finish", "summary"},
           NEW pc \in {"finish", "summary", "saved", "unsaved"}, NEW id \in Nat,
           NEW r, r \in {[test[t] EXCEPT !.pc = pc, !.id = id], [test[t] EXCEPT !.pc = pc]}
    PROVE  /\ r \in TestTypes /\ TestFlow(r) /\ r.pc = pc
           /\ RunsFlow(measured[t], pc)
<1> DEFINE q == test[t]
<1>0. q \in TestTypes /\ TestFlow(q) /\ RunsFlow(measured[t], q.pc)
  BY DEF SpeedInv
<1>1. pc \in TestPcs
  BY DEF TestPcs, Results
<1>2. r \in TestTypes
  BY <1>0, <1>1, Zenon DEF TestTypes
<1>3. /\ r.pc = pc /\ r.mode = q.mode /\ r.flying = q.flying /\ r.slots = q.slots
      /\ r.waiting = q.waiting /\ r.ok = q.ok /\ r.failed = q.failed
      /\ r.total = q.total /\ r.shown = q.shown
  BY <1>0 DEF TestTypes
<1>4. q.pc \in {"save", "finish", "summary"}
  OBVIOUS
<1> HIDE DEF q
<1>5. TestFlow(r)
  BY <1>0, <1>3, <1>4 DEF TestFlow, Results
<1>6. RunsFlow(measured[t], pc)
  BY <1>0, <1>4 DEF RunsFlow
<1> QED
  BY <1>2, <1>3, <1>5, <1>6

\* The invariant but for the table: only where test t stands changed.
LEMMA SavingKeeps ==
    ASSUME SpeedInv, NEW t \in Tests, UNCHANGED measured, MeasuredInv',
           NEW r \in TestTypes, test' = [test EXCEPT ![t] = r], TestFlow(r),
           RunsFlow(measured[t], r.pc)
    PROVE  SpeedInv'
<1>1. test' \in [Tests -> TestTypes] /\ \A u \in Tests : TestFlow(test'[u])
  BY DEF SpeedInv
<1>2. \A u \in Tests : RunsFlow(measured[u], test'[u].pc)
  BY DEF SpeedInv
<1> QED
  BY <1>1, <1>2 DEF SpeedInv

LEMMA CreateSpeedRow ==
    ASSUME SpeedAssumption, SpeedInv, NEW t \in Tests, Speed!CreateRow(t)
    PROVE  SpeedInv'
<1>0. test[t].pc = "save" /\ UNCHANGED measured /\ MeasuredInv /\ test \in [Tests -> TestTypes]
  BY DEF Speed!CreateRow, SpeedInv
<1>1. CASE Speed!Update(t, [test[t] EXCEPT !.pc = "unsaved"]) /\ UNCHANGED speedRows
  <2> DEFINE r == [test[t] EXCEPT !.pc = "unsaved"]
  <2>1. r \in TestTypes /\ TestFlow(r) /\ r.pc = "unsaved" /\ RunsFlow(measured[t], "unsaved")
    BY <1>0, SavingFlow
  <2>2. test' = [test EXCEPT ![t] = r]
    BY <1>1 DEF Speed!Update
  <2> HIDE DEF r
  <2>3. MeasuredInv'
    BY <1>1, <2>1, <2>2, RowsKept
  <2> QED
    BY <1>0, <2>1, <2>2, <2>3, SavingKeeps
<1>2. CASE /\ speedRows' = [i \in Speed!ids \cup {Speed!NextId} |->
                              IF i = Speed!NextId THEN [owner |-> t, status |-> "running"]
                              ELSE speedRows[i]]
           /\ Speed!Update(t, [test[t] EXCEPT !.pc = "finish", !.id = Speed!NextId])
  <2> DEFINE new == Speed!NextId
             r == [test[t] EXCEPT !.pc = "finish", !.id = new]
  <2>1. new \in Nat \ {0} /\ new \notin DOMAIN speedRows
    BY <1>0, SpeedNextId
  <2>2. /\ DOMAIN speedRows' = DOMAIN speedRows \cup {new}
        /\ \A i \in DOMAIN speedRows : speedRows'[i] = speedRows[i]
        /\ speedRows'[new] = [owner |-> t, status |-> "running"]
        /\ speedRows' = [i \in DOMAIN speedRows' |-> speedRows'[i]]
    BY <1>2, <2>1 DEF Speed!ids
  <2>3. test' = [test EXCEPT ![t] = r]
    BY <1>2 DEF Speed!Update
  <2>4. test[t] \in TestTypes
    BY <1>0
  <2> HIDE DEF new
  <2>5. r \in TestTypes /\ TestFlow(r) /\ r.pc = "finish" /\ RunsFlow(measured[t], "finish")
    BY <1>0, <2>1, SavingFlow
  <2>6. r.id = new
    BY <2>4 DEF TestTypes
  <2> HIDE DEF r
  <2>7. [owner |-> t, status |-> "running"] \in MeasuredRows
    BY DEF MeasuredRows
  <2>8. speedRows' \in [DOMAIN speedRows' -> MeasuredRows]
    BY <1>0, <2>2, <2>7 DEF MeasuredInv
  <2>9. DOMAIN speedRows' \subseteq Nat \ {0}
        /\ \E n \in Nat : \A i \in DOMAIN speedRows' : i <= n
    <3>1. PICK n \in Nat : \A i \in DOMAIN speedRows : i <= n
      BY <1>0 DEF MeasuredInv
    <3>2. PICK k \in Nat : n <= k /\ new <= k
      BY <2>1, <3>1
    <3>3. DOMAIN speedRows \subseteq Nat
      BY <1>0 DEF MeasuredInv
    <3>4. \A i \in DOMAIN speedRows' : i <= k
      BY <2>1, <2>2, <3>1, <3>2, <3>3
    <3> QED
      BY <1>0, <2>1, <2>2, <3>2, <3>4 DEF MeasuredInv
  <2>10. ASSUME NEW u \in Tests
         PROVE  /\ test'[u].pc \in {"finish", "summary"} /\ test'[u].id \in DOMAIN speedRows' =>
                      /\ speedRows'[test'[u].id].owner = u
                      /\ test'[u].pc = "summary" =>
                            speedRows'[test'[u].id].status = "completed"
                /\ test'[u].pc \in {"finish", "summary"} /\ DeleteMeasured = FALSE =>
                      test'[u].id \in DOMAIN speedRows'
    <3>1. CASE u = t
      <4>1. test'[u] = r
        BY <1>0, <2>3, <3>1
      <4> QED
        BY <2>2, <2>5, <2>6, <3>1, <4>1
    <3>2. CASE u # t
      <4>1. test'[u] = test[u] /\ DeleteMeasured = FALSE
        BY <1>0, <2>3, <3>2 DEF SpeedAssumption
      <4> QED
        BY <1>0, <2>2, <4>1 DEF MeasuredInv
    <3> QED
      BY <3>1, <3>2
  <2>11. MeasuredInv'
    BY <2>8, <2>9, <2>10 DEF MeasuredInv
  <2> QED
    BY <1>0, <2>3, <2>5, <2>11, SavingKeeps
<1> QED
  BY <1>1, <1>2 DEF Speed!CreateRow

LEMMA FinishSpeedRow ==
    ASSUME SpeedAssumption, SpeedInv, NEW t \in Tests, Speed!FinishRow(t)
    PROVE  SpeedInv'
<1>0. test[t].pc = "finish" /\ UNCHANGED measured /\ MeasuredInv /\ test \in [Tests -> TestTypes]
  BY DEF Speed!FinishRow, SpeedInv
<1>1. CASE Speed!Update(t, [test[t] EXCEPT !.pc = "unsaved"]) /\ UNCHANGED speedRows
  <2> DEFINE r == [test[t] EXCEPT !.pc = "unsaved"]
  <2>1. r \in TestTypes /\ TestFlow(r) /\ r.pc = "unsaved" /\ RunsFlow(measured[t], "unsaved")
    BY <1>0, SavingFlow
  <2>2. test' = [test EXCEPT ![t] = r]
    BY <1>1 DEF Speed!Update
  <2> HIDE DEF r
  <2>3. MeasuredInv'
    BY <1>1, <2>1, <2>2, RowsKept
  <2> QED
    BY <1>0, <2>1, <2>2, <2>3, SavingKeeps
<1>2. CASE /\ speedRows' = [i \in Speed!ids |->
                              IF i = test[t].id
                              THEN [speedRows[i] EXCEPT !.status = "completed"]
                              ELSE speedRows[i]]
           /\ Speed!Update(t, [test[t] EXCEPT !.pc = "summary"])
  <2> DEFINE r == [test[t] EXCEPT !.pc = "summary"]
  <2>1. r \in TestTypes /\ TestFlow(r) /\ r.pc = "summary" /\ RunsFlow(measured[t], "summary")
    BY <1>0, SavingFlow
  <2>2. test' = [test EXCEPT ![t] = r]
    BY <1>2 DEF Speed!Update
  <2>3. test[t] \in TestTypes
    BY <1>0
  <2>4. r.id = test[t].id
    BY <2>3 DEF TestTypes
  <2> HIDE DEF r
  <2>5. \A i \in DOMAIN speedRows : speedRows[i] \in MeasuredRows
    BY <1>0 DEF MeasuredInv
  <2>6. /\ DOMAIN speedRows' = DOMAIN speedRows
        /\ \A i \in DOMAIN speedRows : /\ speedRows'[i] \in MeasuredRows
                                       /\ speedRows'[i].owner = speedRows[i].owner
        /\ \A i \in DOMAIN speedRows : i # test[t].id => speedRows'[i] = speedRows[i]
        /\ \A i \in DOMAIN speedRows : i = test[t].id => speedRows'[i].status = "completed"
        /\ speedRows' = [i \in DOMAIN speedRows' |-> speedRows'[i]]
    BY <1>2, <2>5 DEF Speed!ids, MeasuredRows
  <2>7. speedRows' \in [DOMAIN speedRows' -> MeasuredRows]
    BY <2>6
  <2>8. ASSUME NEW u \in Tests
        PROVE  /\ test'[u].pc \in {"finish", "summary"} /\ test'[u].id \in DOMAIN speedRows' =>
                      /\ speedRows'[test'[u].id].owner = u
                      /\ test'[u].pc = "summary" =>
                            speedRows'[test'[u].id].status = "completed"
               /\ test'[u].pc \in {"finish", "summary"} /\ DeleteMeasured = FALSE =>
                      test'[u].id \in DOMAIN speedRows'
    <3>1. CASE u = t
      <4>1. test'[u] = r
        BY <1>0, <2>2, <3>1
      <4> QED
        BY <1>0, <2>1, <2>4, <2>6, <3>1, <4>1 DEF MeasuredInv
    <3>2. CASE u # t
      <4>1. test'[u] = test[u] /\ DeleteMeasured = FALSE
        BY <1>0, <2>2, <3>2 DEF SpeedAssumption
      <4>2. test[u].pc \in {"finish", "summary"} => test[u].id # test[t].id
        BY <1>0, <3>2, <4>1 DEF MeasuredInv
      <4> QED
        BY <1>0, <2>6, <4>1, <4>2 DEF MeasuredInv
    <3> QED
      BY <3>1, <3>2
  <2>9. DOMAIN speedRows' \subseteq Nat \ {0}
        /\ \E n \in Nat : \A i \in DOMAIN speedRows' : i <= n
    BY <1>0, <2>6 DEF MeasuredInv
  <2>10. MeasuredInv'
    BY <2>7, <2>8, <2>9 DEF MeasuredInv
  <2> QED
    BY <1>0, <2>1, <2>2, <2>10, SavingKeeps
<1> QED
  BY <1>1, <1>2 DEF Speed!FinishRow

LEMMA SummarizeStep ==
    ASSUME SpeedInv, NEW t \in Tests, Speed!Summarize(t)
    PROVE  SpeedInv'
<1>0. /\ test[t].pc = "summary" /\ UNCHANGED <<measured, speedRows>> /\ MeasuredInv
      /\ test \in [Tests -> TestTypes]
  BY DEF Speed!Summarize, SpeedInv
<1>1. PICK pc \in {"saved", "unsaved"} : test' = [test EXCEPT ![t] = [test[t] EXCEPT !.pc = pc]]
  BY DEF Speed!Summarize, Speed!Update
<1> DEFINE r == [test[t] EXCEPT !.pc = pc]
<1>2. r \in TestTypes /\ TestFlow(r) /\ r.pc = pc /\ RunsFlow(measured[t], pc)
  <2>1. CASE pc = "saved"
    <3> DEFINE s == [test[t] EXCEPT !.pc = "saved"]
    <3>1. s \in TestTypes /\ TestFlow(s) /\ s.pc = "saved" /\ RunsFlow(measured[t], "saved")
      BY <1>0, SavingFlow
    <3> QED
      BY <2>1, <3>1
  <2>2. CASE pc = "unsaved"
    <3> DEFINE s == [test[t] EXCEPT !.pc = "unsaved"]
    <3>1. s \in TestTypes /\ TestFlow(s) /\ s.pc = "unsaved" /\ RunsFlow(measured[t], "unsaved")
      BY <1>0, SavingFlow
    <3> QED
      BY <2>2, <3>1
  <2> QED
    BY <2>1, <2>2
<1>3. test' = [test EXCEPT ![t] = r]
  BY <1>1
<1> HIDE DEF r
<1>4. MeasuredInv'
  BY <1>0, <1>2, <1>3, RowsKept
<1> QED
  BY <1>0, <1>2, <1>3, <1>4, SavingKeeps

LEMMA DeleteSpeedRow ==
    ASSUME SpeedAssumption, SpeedInv, NEW i \in Speed!ids, Speed!Delete(i)
    PROVE  SpeedInv'
<1>0. /\ DeleteMeasured \/ test[speedRows[i].owner].pc \in {"saved", "unsaved"}
      /\ speedRows' = [k \in DOMAIN speedRows \ {i} |-> speedRows[k]]
      /\ i \in DOMAIN speedRows /\ UNCHANGED <<test, measured>> /\ MeasuredInv
  BY DEF Speed!Delete, Speed!ids, SpeedInv
<1>1. /\ DOMAIN speedRows' = DOMAIN speedRows \ {i}
      /\ \A k \in DOMAIN speedRows' : speedRows'[k] = speedRows[k]
  BY <1>0
<1>2. speedRows' \in [DOMAIN speedRows' -> MeasuredRows]
  BY <1>0 DEF MeasuredInv
<1>3. \A u \in Tests : test[u].pc \in {"finish", "summary"} /\ DeleteMeasured = FALSE =>
        test[u].id # i
  BY <1>0 DEF MeasuredInv
<1>4. MeasuredInv'
  BY <1>0, <1>1, <1>2, <1>3 DEF MeasuredInv
<1> QED
  BY <1>0, <1>4 DEF SpeedInv

LEMMA SpeedStep ==
    ASSUME SpeedAssumption, SpeedInv, [Speed!Next]_(Speed!vars)
    PROVE  SpeedInv'
<1>1. CASE UNCHANGED (Speed!vars)
  BY <1>1 DEF Speed!vars, SpeedInv, MeasuredInv
<1>2. ASSUME NEW t \in Tests,
             Speed!StartFile(t) \/ Speed!StartPage(t) \/ Speed!Read(t)
      PROVE  SpeedInv'
  <2>1. UNCHANGED <<measured, speedRows>>
    BY <1>2 DEF Speed!StartFile, Speed!StartPage, Speed!Start, Speed!Read
  <2> QED
    BY <1>2, <2>1, FileMoves, MovesKeep
<1>3. ASSUME NEW t \in Tests, Speed!Document(t)
      PROVE  SpeedInv'
  <2>1. UNCHANGED <<measured, speedRows>>
    BY <1>3 DEF Speed!Document
  <2> QED
    BY <1>3, <2>1, DocumentMoves, MovesKeep
<1>4. ASSUME NEW t \in Tests,
             Speed!Send(t) \/ Speed!Fetched(t) \/ Speed!Loaded(t) \/ Speed!Drained(t)
      PROVE  SpeedInv'
  <2>1. UNCHANGED <<measured, speedRows>>
    BY <1>4 DEF Speed!Send, Speed!Fetched, Speed!Loaded, Speed!Drained
  <2> QED
    BY <1>4, <2>1, PoolMoves, MovesKeep
<1>5. ASSUME NEW t \in Tests, Speed!Load(t)
      PROVE  SpeedInv'
  <2>1. UNCHANGED <<measured, speedRows>>
    BY <1>5 DEF Speed!Load
  <2> QED
    BY <1>5, <2>1, LoadMoves, MovesKeep
<1>6. ASSUME NEW t \in Tests,
             Speed!StartBenchmark(t) \/ Speed!Resolve(t) \/ Speed!Measure(t)
      PROVE  SpeedInv'
  <2>1. UNCHANGED speedRows
    BY <1>6 DEF Speed!StartBenchmark, Speed!Resolve, Speed!Measure
  <2> QED
    BY <1>6, <2>1, StartBenchmarkMoves, ResolveMoves, MeasureMoves, RunsKeep
<1>7. ASSUME NEW t \in Tests,
             Speed!CreateRow(t) \/ Speed!FinishRow(t) \/ Speed!Summarize(t)
      PROVE  SpeedInv'
  BY <1>7, CreateSpeedRow, FinishSpeedRow, SummarizeStep
<1>8. ASSUME NEW i \in Speed!ids, Speed!Delete(i)
      PROVE  SpeedInv'
  BY <1>8, DeleteSpeedRow
<1> QED
  BY <1>1, <1>2, <1>3, <1>4, <1>5, <1>6, <1>7, <1>8 DEF Speed!Next, Speed!Step

LEMMA SpeedInitHolds ==
    ASSUME SpeedAssumption, Speed!Init
    PROVE  SpeedInv
<1>1. Speed!Idle \in TestTypes /\ TestFlow(Speed!Idle)
  BY DEF Speed!Idle, TestTypes, TestPcs, TestFlow, Results
<1>2. test = [t \in Tests |-> Speed!Idle]
  BY DEF Speed!Init
<1>3. measured = [t \in Tests |-> Speed!NoRuns]
  BY DEF Speed!Init
<1>4. Speed!NoRuns \in RunsTypes /\ Speed!NoRuns.done = <<>>
  <2> DEFINE p == Speed!NoRuns.plan
  <2>1. p \in Speed!Plan
    BY PlanTypes
  <2>2. Speed!NoRuns = [plan |-> p, client |-> "cold", done |-> <<>>]
    BY DEF Speed!NoRuns
  <2> HIDE DEF p
  <2>3. <<>> \in Seq(RunRecords) /\ "cold" \in {"cold", "warm"}
    OBVIOUS
  <2>4. [plan |-> p, client |-> "cold", done |-> <<>>] \in RunsTypes
    BY <2>1, <2>3, Zenon DEF RunsTypes
  <2> QED
    BY <2>2, <2>4
<1>5. MeasuredInv
  <2>1. speedRows = [i \in {} |-> Speed!Idle]
    BY DEF Speed!Init
  <2>2. DOMAIN speedRows = {} /\ speedRows \in [DOMAIN speedRows -> MeasuredRows]
    BY <2>1
  <2>3. Speed!Idle.pc = "idle"
    BY DEF Speed!Idle
  <2>4. \E n \in Nat : \A i \in DOMAIN speedRows : i <= n
    BY <2>2
  <2> QED
    BY <1>2, <2>2, <2>3, <2>4 DEF MeasuredInv
<1> QED
  <2>1. \A t \in Tests : RunsFlow(measured[t], test[t].pc)
    BY <1>3, <1>4, FreshRuns
  <2> QED
    BY <1>1, <1>2, <1>3, <1>4, <1>5, <2>1 DEF SpeedInv

LEMMA SpeedInvHolds ==
    ASSUME SpeedAssumption
    PROVE  Speed!Init /\ [][Speed!Next]_(Speed!vars) => []SpeedInv
<1>1. Speed!Init => SpeedInv
  BY SpeedInitHolds
<1>2. SpeedInv /\ [Speed!Next]_(Speed!vars) => SpeedInv'
  BY SpeedStep
<1> QED
  BY <1>1, <1>2, PTL

\* Without the warmup there are as many runs as were asked for, each counted as
\* good or as failed.
LEMMA SummaryAdds ==
    ASSUME SpeedAssumption, NEW b \in RunsTypes, Warmups(b), Len(b.done) = Asks(b)
    PROVE  LET chosen(good) == {i \in DOMAIN b.done :
                                  b.done[i].success = good /\ ~b.done[i].warmup}
           IN  Cardinality(chosen(TRUE)) + Cardinality(chosen(FALSE)) = b.plan.want
<1> DEFINE D == DOMAIN b.done
           good == {i \in D : b.done[i].success = TRUE /\ ~b.done[i].warmup}
           bad == {i \in D : b.done[i].success = FALSE /\ ~b.done[i].warmup}
           first == IF b.plan.mode = "warm" THEN 2 ELSE 1
<1>1. b.done \in Seq(RunRecords) /\ b.plan \in Speed!Plan
  BY DEF RunsTypes
<1>2. b.plan.want \in Nat /\ first \in {1, 2}
      /\ Asks(b) = b.plan.want + first - 1
  BY <1>1 DEF Speed!Plan, SpeedAssumption, Asks
<1>3. D = 1..(b.plan.want + first - 1)
  BY <1>1, <1>2
<1>4. \A i \in D : b.done[i] \in RunRecords
  BY <1>1
<1>5. \A i \in D : b.done[i].success \in BOOLEAN /\ b.done[i].warmup \in BOOLEAN
  BY <1>4 DEF RunRecords
<1>6. \A i \in D : ~b.done[i].warmup <=> i # 1 \/ first = 1
  <2> SUFFICES ASSUME NEW i \in D PROVE ~b.done[i].warmup <=> i # 1 \/ first = 1
    OBVIOUS
  <2>1. b.done[i].warmup = (i = 1 /\ b.plan.mode = "warm")
    BY DEF Warmups
  <2>2. first = 1 <=> b.plan.mode # "warm"
    OBVIOUS
  <2> HIDE DEF first, D
  <2> QED
    BY <2>1, <2>2
<1>7. good \cup bad = {i \in D : ~b.done[i].warmup} /\ good \cap bad = {}
  <2> HIDE DEF D
  <2> QED
    BY <1>5
<1>8. {i \in D : ~b.done[i].warmup} = first..(b.plan.want + first - 1)
  BY <1>2, <1>3, <1>6
<1> HIDE DEF D, good, bad, first
<1>9. IsFiniteSet(good \cup bad) /\ Cardinality(good \cup bad) = b.plan.want
  <2> DEFINE last == b.plan.want + first - 1
  <2>1. first \in Int /\ last \in Int /\ good \cup bad = first..last
    BY <1>2, <1>7, <1>8
  <2>2. IF first > last THEN b.plan.want = 0 ELSE last - first + 1 = b.plan.want
    BY <1>2
  <2> HIDE DEF last
  <2>3. /\ IsFiniteSet(first..last)
        /\ Cardinality(first..last) = IF first > last THEN 0 ELSE last - first + 1
    BY <2>1, FS_Interval
  <2> QED
    BY <2>1, <2>2, <2>3
<1>10. IsFiniteSet(good) /\ IsFiniteSet(bad)
  BY <1>9, FS_Subset
<1>11. Cardinality(good \cup bad)
         = Cardinality(good) + Cardinality(bad) - Cardinality(good \cap bad)
  BY <1>10, FS_Union
<1>12. Cardinality(good \cap bad) = 0
  BY <1>7, FS_EmptySet
<1>13. Cardinality(good) \in Nat /\ Cardinality(bad) \in Nat
  BY <1>10, FS_CardinalityType
<1>14. Cardinality(good) + Cardinality(bad) = b.plan.want
  BY <1>9, <1>11, <1>12, <1>13
<1> QED
  BY <1>14 DEF good, bad, D

\* Every resource and every request is counted once, the last event shows the
\* whole, and the summary of a benchmark is over the runs that were asked for.
THEOREM SpeedsHold ==
    ASSUME SpeedAssumption
    PROVE  Speed!Init /\ [][Speed!Next]_(Speed!vars) =>
               [](Speed!CountsAddUp /\ Speed!LastEventWhole /\ Speed!SummaryExact)
<1>1. SpeedInv => Speed!CountsAddUp
  BY DEF SpeedInv, TestFlow, Results, Speed!CountsAddUp, Speed!HasResult, Speed!Completed
<1>2. SpeedInv => Speed!LastEventWhole
  BY DEF SpeedInv, TestFlow, Results, Speed!LastEventWhole, Speed!HasResult
<1>3. SpeedInv => Speed!SummaryExact
  <2> SUFFICES ASSUME SpeedInv, NEW t \in Tests, Len(measured[t].done) = Speed!Requests(t),
                      \E i \in DOMAIN measured[t].done : measured[t].done[i].success
               PROVE  Speed!Summary(t).successful + Speed!Summary(t).failed
                        = measured[t].plan.want
    BY DEF Speed!SummaryExact
  <2>1. measured[t] \in RunsTypes /\ RunsFlow(measured[t], test[t].pc)
    BY DEF SpeedInv
  <2>2. Warmups(measured[t])
    BY <2>1 DEF RunsFlow
  <2>3. Len(measured[t].done) = Asks(measured[t])
    BY DEF Asks, Speed!Requests
  <2>4. Cardinality(Speed!Chosen(t, TRUE)) + Cardinality(Speed!Chosen(t, FALSE))
          = measured[t].plan.want
    BY <2>1, <2>2, <2>3, SummaryAdds DEF Speed!Chosen
  <2> QED
    BY <2>4, SpeedSize DEF Speed!Summary
<1> QED
  BY <1>1, <1>2, <1>3, SpeedInvHolds, PTL

\* What a test reads back is the complete row it made.
THEOREM SavedIsOwnHolds ==
    ASSUME SpeedAssumption
    PROVE  Speed!Init /\ [][Speed!Next]_(Speed!vars) => Speed!SavedIsOwn
<1> DEFINE own == \A t \in Tests :
                     test[t].pc # "saved" /\ test'[t].pc = "saved" =>
                        /\ test'[t].id \in Speed!ids
                        /\ speedRows[test'[t].id] = [owner |-> t, status |-> "completed"]
<1>1. ASSUME SpeedInv, [Speed!Next]_(Speed!vars), NEW t \in Tests,
             test[t].pc # "saved", test'[t].pc = "saved"
      PROVE  /\ test'[t].id \in Speed!ids
             /\ speedRows[test'[t].id] = [owner |-> t, status |-> "completed"]
  <2>1. test \in [Tests -> TestTypes] /\ test[t] \in TestTypes /\ MeasuredInv
    BY <1>1 DEF SpeedInv
  <2>2. CASE Speed!Summarize(t)
    <3>1. test' = [test EXCEPT ![t] = [test[t] EXCEPT !.pc = IF test[t].id \in Speed!ids
                                                             THEN "saved" ELSE "unsaved"]]
          /\ test[t].pc = "summary"
      BY <2>2 DEF Speed!Summarize, Speed!Update
    <3>2. test'[t].pc = (IF test[t].id \in Speed!ids THEN "saved" ELSE "unsaved")
          /\ test'[t].id = test[t].id
      BY <2>1, <3>1 DEF TestTypes
    <3>3. test[t].id \in Speed!ids
      BY <1>1, <3>2
    <3>4. /\ speedRows[test[t].id] \in MeasuredRows
          /\ speedRows[test[t].id].owner = t
          /\ speedRows[test[t].id].status = "completed"
      BY <2>1, <3>1, <3>3 DEF MeasuredInv, Speed!ids
    <3>5. speedRows[test[t].id] = [owner |-> t, status |-> "completed"]
      BY <3>4 DEF MeasuredRows
    <3> QED
      BY <3>2, <3>3, <3>5
  <2>3. ASSUME NEW u \in Tests, NEW r, test' = [test EXCEPT ![u] = r], r.pc # "saved"
        PROVE  FALSE
    BY <1>1, <2>1, <2>3
  <2>4. ASSUME NEW u \in Tests,
               \/ Speed!StartFile(u) \/ Speed!StartPage(u) \/ Speed!Read(u)
               \/ Speed!Document(u) \/ Speed!Send(u) \/ Speed!Fetched(u)
               \/ Speed!Loaded(u) \/ Speed!Drained(u) \/ Speed!Load(u)
        PROVE  FALSE
    <3>1. TestMoves(u, Rowless)
      BY <1>1, <2>4, FileMoves, DocumentMoves, PoolMoves, LoadMoves
    <3> QED
      BY <2>3, <3>1 DEF TestMoves, Rowless
  <2>5. ASSUME NEW u \in Tests,
               Speed!StartBenchmark(u) \/ Speed!Resolve(u) \/ Speed!Measure(u)
        PROVE  FALSE
    <3>1. PICK pc : /\ TestMoves(u, {pc}) \/ test' = test
                    /\ pc \notin {"finish", "summary", "saved"}
      BY <1>1, <2>5, StartBenchmarkMoves, ResolveMoves, MeasureMoves DEF RunsMove
    <3>2. TestMoves(u, {pc})
      BY <1>1, <3>1
    <3> QED
      BY <2>3, <3>1, <3>2 DEF TestMoves
  <2>6. ASSUME NEW u \in Tests, Speed!CreateRow(u) \/ Speed!FinishRow(u)
        PROVE  FALSE
    <3>1. test[u] \in TestTypes
      BY <2>1
    <3>2. CASE Speed!Update(u, [test[u] EXCEPT !.pc = "unsaved"])
      <4> DEFINE r == [test[u] EXCEPT !.pc = "unsaved"]
      <4>1. r.pc = "unsaved"
        BY <3>1 DEF TestTypes
      <4>2. test' = [test EXCEPT ![u] = r]
        BY <3>2 DEF Speed!Update
      <4> HIDE DEF r
      <4> QED
        BY <2>3, <4>1, <4>2
    <3>3. CASE Speed!Update(u, [test[u] EXCEPT !.pc = "summary"])
      <4> DEFINE r == [test[u] EXCEPT !.pc = "summary"]
      <4>1. r.pc = "summary"
        BY <3>1 DEF TestTypes
      <4>2. test' = [test EXCEPT ![u] = r]
        BY <3>3 DEF Speed!Update
      <4> HIDE DEF r
      <4> QED
        BY <2>3, <4>1, <4>2
    <3>4. CASE Speed!Update(u, [test[u] EXCEPT !.pc = "finish", !.id = Speed!NextId])
      <4> DEFINE r == [test[u] EXCEPT !.pc = "finish", !.id = Speed!NextId]
      <4>1. r.pc = "finish"
        BY <3>1 DEF TestTypes
      <4>2. test' = [test EXCEPT ![u] = r]
        BY <3>4 DEF Speed!Update
      <4> HIDE DEF r
      <4> QED
        BY <2>3, <4>1, <4>2
    <3> QED
      BY <2>6, <3>2, <3>3, <3>4 DEF Speed!CreateRow, Speed!FinishRow
  <2>7. ASSUME NEW u \in Tests, Speed!Summarize(u), u # t
        PROVE  FALSE
    <3>1. test'[t] = test[t]
      BY <2>1, <2>7 DEF Speed!Summarize, Speed!Update
    <3> QED
      BY <1>1, <3>1
  <2>8. ASSUME UNCHANGED test
        PROVE  FALSE
    BY <1>1, <2>8
  <2>9. CASE UNCHANGED (Speed!vars)
    BY <2>8, <2>9 DEF Speed!vars
  <2>10. ASSUME NEW i \in Speed!ids, Speed!Delete(i)
         PROVE  FALSE
    BY <2>8, <2>10 DEF Speed!Delete
  <2> QED
    BY <1>1, <2>2, <2>4, <2>5, <2>6, <2>7, <2>9, <2>10 DEF Speed!Next, Speed!Step
<1>2. SpeedInv /\ [Speed!Next]_(Speed!vars) => [own]_(Speed!vars)
  BY <1>1
<1> QED
  BY <1>2, SpeedInvHolds, PTL DEF Speed!SavedIsOwn

\* Type correctness of the tests: no set of requests is larger than it may be.
THEOREM SpeedTypeOKHolds ==
    ASSUME SpeedAssumption
    PROVE  Speed!Init /\ [][Speed!Next]_(Speed!vars) => []Speed!TypeOK
<1>1. SpeedInv => Speed!TypeOK
  <2> SUFFICES ASSUME SpeedInv, NEW t \in Tests
               PROVE  /\ test[t].pc \in TestPcs
                      /\ test[t].flying \in 0..test[t].slots
                      /\ Len(measured[t].done) <= MaxRuns + 1
    BY DEF Speed!TypeOK, TestPcs, Results
  <2>1. test[t] \in TestTypes /\ TestFlow(test[t])
    BY DEF SpeedInv
  <2>2. measured[t] \in RunsTypes /\ Len(measured[t].done) <= Asks(measured[t])
    BY DEF SpeedInv, RunsFlow
  <2>3. measured[t].plan \in Speed!Plan /\ measured[t].done \in Seq(RunRecords)
    BY <2>2 DEF RunsTypes
  <2>4. Asks(measured[t]) <= MaxRuns + 1 /\ Asks(measured[t]) \in Int
    BY <2>3 DEF Asks, Speed!Plan, SpeedAssumption
  <2>5. Len(measured[t].done) \in Nat
    BY <2>3
  <2>6. Len(measured[t].done) <= MaxRuns + 1
    BY <2>2, <2>4, <2>5 DEF SpeedAssumption
  <2>7. test[t].pc \in TestPcs /\ test[t].flying \in Int /\ test[t].slots \in Int
    BY <2>1 DEF TestTypes
  <2>8. test[t].flying \in 0..test[t].slots
    BY <2>1, <2>7 DEF TestFlow
  <2> QED
    BY <2>6, <2>7, <2>8
<1> QED
  BY <1>1, SpeedInvHolds, PTL
===============================================================================
