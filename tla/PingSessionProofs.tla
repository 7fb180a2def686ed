------------------------- MODULE PingSessionProofs -------------------------
(***************************************************************************)
(* Proofs about PingSession for any number of runs, any capacities and any *)
(* number of failures: types and ownership, the truth of the history and   *)
(* the refinement of SessionLog.                                           *)
(*                                                                         *)
(* Type correctness needs the flow through the channel: what is fed, plus  *)
(* what waits in the channel, is what the loop has sent.  It also needs    *)
(* the table to be bounded, for SQLite's next rowid to exist.              *)
(*                                                                         *)
(* The history rests on the ownership of rows (OwnInv): what a run has     *)
(* stored is not deleted under it and nobody else writes to it.  Order     *)
(* alone is not inductive: a run that has stopped must have nothing left   *)
(* in channel and batch, or a crash would empty them (DrainOf).            *)
(***************************************************************************)
EXTENDS PingSession, TLAPS, SequenceTheorems, WellFoundedInduction, FiniteSetTheorems

RowsBounded == \E n \in Nat : \A i \in rows : i <= n

\* Probes flow from the loop through the channel to the consumer.
FlowOf(r) ==
    /\ fed[r] + Len(chan[r]) <= SentCount(r)
    /\ consPc[r] = "recv" => Len(batch[r]) < FlushBatch
    /\ consPc[r] = "off" => batch[r] = <<>>
    /\ stage[r] \in {"idle", "created"} => consPc[r] = "off"

Flow == \A r \in Runs : FlowOf(r)

TypeInv == TypeOK /\ RowsBounded /\ Flow

-----------------------------------------------------------------------------
(* The next rowid.                                                         *)

\* A bounded set of row ids has a largest one (0 when it is empty).
LEMMA MaxRowExists ==
    ASSUME rows \subseteq Nat \ {0}, RowsBounded
    PROVE  \E m \in rows \cup {0} : \A i \in rows : i <= m
<1> DEFINE bounds == {n \in Nat : \A i \in rows : i <= n}
<1>1. bounds # {} /\ bounds \subseteq Nat
  BY DEF RowsBounded
<1>2. IsWellFoundedOn(OpToRel(<, Nat), Nat)
  BY NatLessThanWellFounded
<1>3. PICK m \in bounds : \A n \in bounds : ~(<<n, m>> \in OpToRel(<, Nat))
  <2> HIDE DEF bounds
  <2>1. IsWellFoundedOn(OpToRel(<, Nat), bounds)
    BY <1>1, <1>2, IsWellFoundedOnSubset, Zenon
  <2> QED
    BY <1>1, <2>1, WFMin, Zenon
<1>4. \A n \in bounds : ~(n < m)
  BY <1>1, <1>3 DEF OpToRel
<1>5. m \in rows \cup {0}
  <2> SUFFICES ASSUME m \notin rows, m # 0
               PROVE  FALSE
    OBVIOUS
  <2>1. m - 1 \in Nat /\ \A i \in rows : i <= m - 1
    OBVIOUS
  <2> QED
    BY <1>4, <2>1
<1> QED
  BY <1>5

\* The rowid of a new row is positive and above every row.
LEMMA NextIdProps ==
    ASSUME rows \subseteq Nat \ {0}, RowsBounded
    PROVE  /\ NextId \in Nat \ {0}
           /\ \A i \in rows : i < NextId
<1> DEFINE m == CHOOSE m \in rows \cup {0} : \A i \in rows : i <= m
<1>1. m \in rows \cup {0} /\ \A i \in rows : i <= m
  BY MaxRowExists
<1>2. NextId = 1 + m
  BY DEF NextId
<1> HIDE DEF m
<1> QED
  BY <1>1, <1>2

-----------------------------------------------------------------------------
(* Type correctness.                                                       *)

\* The types of one run's counters and sequences.
LEMMA RunTypes ==
    ASSUME TypeOK, NEW r \in Runs
    PROVE  /\ seq[r] \in 0..MaxProbes /\ fed[r] \in 0..MaxProbes
           /\ chan[r] \in Seq(1..MaxProbes) /\ Len(chan[r]) \in Nat
           /\ batch[r] \in Seq(1..MaxProbes) /\ Len(batch[r]) \in Nat
           /\ SentCount(r) \in Int /\ SentCount(r) <= seq[r]
           /\ Entries(batch[r]) \subseteq 1..MaxProbes
<1>1. /\ seq[r] \in 0..MaxProbes /\ fed[r] \in 0..MaxProbes
      /\ chan[r] \in Seq(1..MaxProbes) /\ Len(chan[r]) \in Nat
      /\ batch[r] \in Seq(1..MaxProbes) /\ Len(batch[r]) \in Nat
  BY DEF TypeOK
<1>2. SentCount(r) \in Int /\ SentCount(r) <= seq[r]
  BY <1>1, SessionAssumption DEF SentCount
<1>3. Entries(batch[r]) \subseteq 1..MaxProbes
  BY <1>1, ElementOfSeq, LenProperties, ZenonT(40) DEF Entries
<1> QED
  BY <1>1, <1>2, <1>3

LEMMA InitTypeInv == Init => TypeInv
  BY SessionAssumption DEF Init, TypeInv, TypeOK, RowsBounded, Flow, FlowOf, SentCount

\* start(): one more row, or one entry replaced in the map.
LEMMA StartTypeInv ==
    ASSUME TypeInv, NEW r \in Runs,
           StartCreate(r) \/ StartFails(r) \/ StartRegister(r)
    PROVE  TypeInv'
<1> USE SessionAssumption DEF TypeInv
<1>1. CASE StartCreate(r)
  <2>1. NextId \in Nat \ {0} /\ \A i \in rows : i < NextId
    BY NextIdProps DEF TypeOK
  <2>2. TypeOK'
    BY <1>1, <2>1 DEF StartCreate, TypeOK, tasks
  <2>3. RowsBounded'
    <3>1. \A i \in rows' : i <= NextId
      BY <1>1, <2>1 DEF StartCreate, TypeOK
    <3> QED
      BY <2>1, <3>1 DEF RowsBounded
  <2>4. Flow'
    BY <1>1 DEF StartCreate, Flow, FlowOf, SentCount, tasks
  <2> QED
    BY <2>2, <2>3, <2>4
<1>2. CASE StartFails(r)
  <2>1. TypeOK'
    <3>1. dbErrors' \in 0..MaxDbErrors
      BY <1>2 DEF StartFails, TypeOK
    <3> QED
      BY <1>2, <3>1 DEF StartFails, tasks, db, history, TypeOK
  <2>2. RowsBounded'
    BY <1>2 DEF StartFails, tasks, db, history, RowsBounded
  <2>3. Flow'
    BY <1>2 DEF StartFails, tasks, db, history, Flow, FlowOf, SentCount, TypeOK
  <2> QED
    BY <2>1, <2>2, <2>3
<1>3. CASE StartRegister(r)
  <2>1. TypeOK'
    BY <1>3 DEF StartRegister, TypeOK, db, history
  <2>2. RowsBounded'
    BY <1>3 DEF StartRegister, RowsBounded, db
  <2>3. Flow'
    BY <1>3 DEF StartRegister, Flow, FlowOf, SentCount, TypeOK, db, history
  <2> QED
    BY <2>1, <2>2, <2>3
<1> QED
  BY <1>1, <1>2, <1>3

\* The loop: a sent probe is within the bound and finds room in the channel.
LEMMA LoopTypeInv ==
    ASSUME TypeInv, NEW r \in Runs, LoopStep(r)
    PROVE  TypeInv'
<1> USE SessionAssumption DEF TypeInv
<1>1. CASE LoopCheck(r)
  <2>1. seq[r] + 1 \in 0..MaxProbes \/ seq' = seq
    BY <1>1, RunTypes DEF LoopCheck
  <2>2. TypeOK'
    <3>1. seq' \in [Runs -> 0..MaxProbes]
      BY <1>1, <2>1, ZenonT(40) DEF LoopCheck, TypeOK
    <3> QED
      BY <1>1, <3>1 DEF LoopCheck, db, history, TypeOK
  <2>3. RowsBounded'
    BY <1>1 DEF LoopCheck, db, RowsBounded
  <2>4. ASSUME NEW q \in Runs
        PROVE  FlowOf(q)'
    <3>1. SentCount(q)' = SentCount(q)
      <4>1. seq[q] \in Int
        BY RunTypes
      <4> QED
        <5>1. CASE q = r
          <6>1. \/ loopPc'[r] = "ended" /\ seq'[r] = seq[r]
                \/ loopPc'[r] = "probe" /\ seq'[r] = seq[r] + 1
            BY <1>1 DEF LoopCheck, TypeOK
          <6>2. loopPc[r] = "check" /\ seq[r] \in Int
            BY <1>1, <4>1, <5>1 DEF LoopCheck
          <6> QED
            BY <5>1, <6>1, <6>2 DEF SentCount
        <5>2. CASE q # r
          BY <1>1, <5>2 DEF LoopCheck, SentCount, TypeOK
        <5> QED
          BY <5>1, <5>2
    <3> QED
      BY <1>1, <3>1 DEF LoopCheck, Flow, FlowOf
  <2> QED
    BY <2>2, <2>3, <2>4 DEF Flow
<1>2. CASE LoopSend(r)
  <2>1. FlowOf(r) /\ SentCount(r) = seq[r] - 1
    BY <1>2 DEF LoopSend, Flow, SentCount
  <2>2. seq[r] \in 1..MaxProbes
    BY <2>1, RunTypes DEF FlowOf
  <2>3. /\ Append(chan[r], seq[r]) \in Seq(1..MaxProbes)
        /\ Len(Append(chan[r], seq[r])) = Len(chan[r]) + 1
    BY <2>2, RunTypes, AppendProperties
  <2>4. Len(chan[r]) + 1 <= ChannelCap
    BY <1>2, RunTypes DEF LoopSend
  <2>5. TypeOK'
    BY <1>2, <2>3, <2>4 DEF LoopSend, TypeOK, db, history
  <2>6. ASSUME NEW q \in Runs
        PROVE  FlowOf(q)'
    <3>1. CASE q = r
      <4>1. SentCount(r)' = seq[r] /\ Len(chan[r])' = Len(chan[r]) + 1
        BY <1>2, <2>3 DEF LoopSend, SentCount, TypeOK
      <4> QED
        BY <1>2, <2>1, <3>1, <4>1, RunTypes, SMTT(30) DEF LoopSend, FlowOf
    <3>2. CASE q # r
      BY <1>2, <3>2 DEF LoopSend, SentCount, Flow, FlowOf, TypeOK
    <3> QED
      BY <3>1, <3>2
  <2> QED
    BY <1>2, <2>5, <2>6 DEF LoopSend, Flow, RowsBounded, db
<1>3. CASE LoopWake(r)
  <2>1. TypeOK'
    BY <1>3 DEF LoopWake, db, history, TypeOK
  <2>2. RowsBounded'
    BY <1>3 DEF LoopWake, db, history, RowsBounded
  <2>3. Flow'
    BY <1>3 DEF LoopWake, db, history, Flow, FlowOf, SentCount, TypeOK
  <2> QED
    BY <2>1, <2>2, <2>3
<1> QED
  BY <1>1, <1>2, <1>3 DEF LoopStep

\* The consumer: a probe moves from the channel to the batch.
LEMMA ConsumerTypeInv ==
    ASSUME TypeInv, NEW r \in Runs, ConsumerStep(r) \/ ConsumerTick(r)
    PROVE  TypeInv'
<1> USE SessionAssumption DEF TypeInv
<1>1. CASE ConsumerRecv(r)
  <2>1. /\ Head(chan[r]) \in 1..MaxProbes
        /\ Tail(chan[r]) \in Seq(1..MaxProbes)
        /\ Len(Tail(chan[r])) = Len(chan[r]) - 1
        /\ Len(chan[r]) \in Nat \ {0}
    BY <1>1, HeadTailProperties, EmptySeq, SMTT(30) DEF ConsumerRecv, TypeOK
  <2>2. /\ Append(batch[r], Head(chan[r])) \in Seq(1..MaxProbes)
        /\ Len(Append(batch[r], Head(chan[r]))) = Len(batch[r]) + 1
        /\ Len(batch[r]) \in Nat
    BY <2>1, AppendProperties DEF TypeOK
  <2>3. FlowOf(r) /\ fed[r] + 1 \in 0..MaxProbes
    <3>1. FlowOf(r)
      BY DEF Flow
    <3>2. fed[r] + 1 <= seq[r]
      <4>1. /\ fed[r] + Len(chan[r]) <= SentCount(r) /\ SentCount(r) <= seq[r]
            /\ fed[r] \in Int /\ SentCount(r) \in Int /\ seq[r] \in Int
        BY <3>1, RunTypes DEF FlowOf
      <4> QED
        BY <2>1, <4>1
    <3> QED
      BY <3>1, <3>2, RunTypes
  <2>4. Len(batch[r]) < FlushBatch
    BY <1>1, <2>3 DEF ConsumerRecv, FlowOf
  <2>5. TypeOK'
    <3>1. Len(batch[r]) + 1 <= FlushBatch /\ Len(chan[r]) - 1 <= ChannelCap
      BY <2>2, <2>4, RunTypes, SMTT(30) DEF TypeOK
    <3> QED
      BY <1>1, <2>1, <2>2, <2>3, <3>1 DEF ConsumerRecv, TypeOK, db, history
  <2>6. ASSUME NEW q \in Runs
        PROVE  FlowOf(q)'
    <3>1. CASE q = r
      <4>1. /\ fed'[r] = fed[r] + 1 /\ SentCount(r)' = SentCount(r)
            /\ Len(chan'[r]) = Len(chan[r]) - 1
            /\ Len(batch'[r]) = Len(batch[r]) + 1
            /\ consPc'[r] = IF Len(batch[r]) + 1 >= FlushBatch THEN "flush" ELSE "recv"
        BY <1>1, <2>1, <2>2 DEF ConsumerRecv, SentCount, TypeOK
      <4> QED
        BY <1>1, <2>2, <2>3, <2>4, <3>1, <4>1, RunTypes, SMTT(30) DEF ConsumerRecv, FlowOf
    <3>2. CASE q # r
      BY <1>1, <3>2 DEF ConsumerRecv, SentCount, Flow, FlowOf, TypeOK
    <3> QED
      BY <3>1, <3>2
  <2> QED
    BY <1>1, <2>5, <2>6 DEF ConsumerRecv, Flow, RowsBounded, db
<1>2. CASE ConsumerTick(r)
  <2>1. TypeOK'
    BY <1>2 DEF ConsumerTick, db, history, TypeOK
  <2>2. RowsBounded'
    BY <1>2 DEF ConsumerTick, db, history, RowsBounded
  <2>3. Flow'
    BY <1>2 DEF ConsumerTick, db, history, Flow, FlowOf, SentCount, TypeOK
  <2> QED
    BY <2>1, <2>2, <2>3
<1>3. CASE ConsumerClosed(r)
  <2>1. TypeOK'
    BY <1>3 DEF ConsumerClosed, db, history, TypeOK
  <2>2. RowsBounded'
    BY <1>3 DEF ConsumerClosed, db, history, RowsBounded
  <2>3. Flow'
    BY <1>3 DEF ConsumerClosed, db, history, Flow, FlowOf, SentCount, TypeOK
  <2> QED
    BY <2>1, <2>2, <2>3
<1>4. CASE FlushOk(r)
  <2>1. Entries(batch[r]) \subseteq 1..MaxProbes /\ <<>> \in Seq(1..MaxProbes) /\ Len(<<>>) = 0
    BY RunTypes, EmptySeq
  <2>2. probes' \in SUBSET [id : Nat, run : Runs, seq : 1..MaxProbes]
    BY <1>4, <2>1 DEF FlushOk, TypeOK
  <2>3. TypeOK'
    BY <1>4, <2>1, <2>2, SMTT(30) DEF FlushOk, AfterFlush, TypeOK
  <2>4. ASSUME NEW q \in Runs
        PROVE  FlowOf(q)'
    <3>1. /\ SentCount(q)' = SentCount(q) /\ fed'[q] = fed[q] /\ chan'[q] = chan[q]
          /\ \/ batch'[q] = <<>>
             \/ batch'[q] = batch[q] /\ consPc'[q] = consPc[q]
          /\ (consPc[q] = "off") <=> (consPc'[q] = "off")
      <4>1. CASE q = r
        <5>1. consPc'[r] = IF consPc[r] = "final" THEN "ended" ELSE "recv"
          BY <1>4 DEF FlushOk, AfterFlush, TypeOK
        <5>2. batch'[r] = <<>>
          BY <1>4 DEF FlushOk, TypeOK
        <5>3. UNCHANGED <<loopPc, seq, fed, chan>> /\ consPc[r] \in {"flush", "final"}
          BY <1>4 DEF FlushOk, AfterFlush
        <5> QED
          BY <4>1, <5>1, <5>2, <5>3 DEF SentCount
      <4>2. CASE q # r
        BY <1>4, <4>2 DEF FlushOk, AfterFlush, SentCount, TypeOK
      <4> QED
        BY <4>1, <4>2
    <3> QED
      BY <1>4, <2>1, <3>1 DEF FlushOk, AfterFlush, Flow, FlowOf
  <2> QED
    BY <1>4, <2>3, <2>4 DEF FlushOk, AfterFlush, Flow, RowsBounded
<1>5. CASE FlushFails(r)
  <2>1. Entries(batch[r]) \subseteq 1..MaxProbes /\ <<>> \in Seq(1..MaxProbes) /\ Len(<<>>) = 0
    BY RunTypes, EmptySeq
  <2>2. dbErrors' \in 0..MaxDbErrors
    BY <1>5 DEF FlushFails, TypeOK
  <2>3. TypeOK'
    BY <1>5, <2>1, <2>2, SMTT(30) DEF FlushFails, AfterFlush, TypeOK
  <2>4. ASSUME NEW q \in Runs
        PROVE  FlowOf(q)'
    <3>1. /\ SentCount(q)' = SentCount(q) /\ fed'[q] = fed[q] /\ chan'[q] = chan[q]
          /\ \/ batch'[q] = <<>>
             \/ batch'[q] = batch[q] /\ consPc'[q] = consPc[q]
          /\ (consPc[q] = "off") <=> (consPc'[q] = "off")
      <4>1. CASE q = r
        <5>1. consPc'[r] = IF consPc[r] = "final" THEN "ended" ELSE "recv"
          BY <1>5 DEF FlushFails, AfterFlush, TypeOK
        <5>2. batch'[r] = <<>>
          BY <1>5 DEF FlushFails, TypeOK
        <5>3. UNCHANGED <<loopPc, seq, fed, chan>> /\ consPc[r] \in {"flush", "final"}
          BY <1>5 DEF FlushFails, AfterFlush
        <5> QED
          BY <4>1, <5>1, <5>2, <5>3 DEF SentCount
      <4>2. CASE q # r
        BY <1>5, <4>2 DEF FlushFails, AfterFlush, SentCount, TypeOK
      <4> QED
        BY <4>1, <4>2
    <3> QED
      BY <1>5, <2>1, <3>1 DEF FlushFails, AfterFlush, Flow, FlowOf
  <2> QED
    BY <1>5, <2>3, <2>4 DEF FlushFails, AfterFlush, Flow, RowsBounded
<1> QED
  BY <1>1, <1>2, <1>3, <1>4, <1>5 DEF ConsumerStep

\* stop(), deletion of a row and the end of the process.
LEMMA StopTypeInv ==
    ASSUME TypeInv, NEW r \in Runs, Stop(r) \/ StopStep(r)
    PROVE  TypeInv'
<1> USE SessionAssumption DEF TypeInv
<1>1. CASE Stop(r)
  <2>1. TypeOK'
    BY <1>1 DEF Stop, tasks, db, history, TypeOK
  <2>2. RowsBounded'
    BY <1>1 DEF Stop, tasks, db, history, RowsBounded
  <2>3. Flow'
    BY <1>1 DEF Stop, tasks, db, history, Flow, FlowOf, SentCount, TypeOK
  <2> QED
    BY <2>1, <2>2, <2>3
<1>2. CASE StopJoined(r)
  <2>1. TypeOK'
    BY <1>2 DEF StopJoined, tasks, db, history, TypeOK
  <2>2. RowsBounded'
    BY <1>2 DEF StopJoined, tasks, db, history, RowsBounded
  <2>3. Flow'
    BY <1>2 DEF StopJoined, tasks, db, history, Flow, FlowOf, SentCount, TypeOK
  <2> QED
    BY <2>1, <2>2, <2>3
<1>3. CASE StopFinish(r)
  <2>1. TypeOK'
    BY <1>3 DEF StopFinish, tasks, history, TypeOK
  <2>2. RowsBounded'
    BY <1>3 DEF StopFinish, tasks, history, RowsBounded
  <2>3. Flow'
    BY <1>3 DEF StopFinish, tasks, history, Flow, FlowOf, SentCount, TypeOK
  <2> QED
    BY <2>1, <2>2, <2>3
<1>4. CASE StopFails(r)
  <2>1. TypeOK'
    <3>1. dbErrors' \in 0..MaxDbErrors
      BY <1>4 DEF StopFails, TypeOK
    <3> QED
      BY <1>4, <3>1 DEF StopFails, tasks, db, history, TypeOK
  <2>2. RowsBounded'
    BY <1>4 DEF StopFails, tasks, db, history, RowsBounded
  <2>3. Flow'
    BY <1>4 DEF StopFails, tasks, db, history, Flow, FlowOf, SentCount, TypeOK
  <2> QED
    BY <2>1, <2>2, <2>3
<1> QED
  BY <1>1, <1>2, <1>3, <1>4 DEF StopStep

LEMMA DeleteTypeInv ==
    ASSUME TypeInv, NEW i \in rows, Delete(i)
    PROVE  TypeInv'
  BY SessionAssumption DEF TypeInv, Delete, TypeOK, RowsBounded, Flow, FlowOf, SentCount, tasks

LEMMA CrashTypeInv ==
    ASSUME TypeInv, Crash
    PROVE  TypeInv'
<1> USE SessionAssumption DEF TypeInv
<1>1. TypeOK'
  BY EmptySeq DEF Crash, TypeOK, db, history
<1>2. ASSUME NEW q \in Runs
      PROVE  FlowOf(q)'
  <2>1. SentCount(q)' = seq[q] /\ fed'[q] = fed[q] /\ Len(chan'[q]) = 0
    BY EmptySeq DEF Crash, SentCount
  <2>2. fed[q] + 0 <= seq[q]
    <3>1. /\ fed[q] + Len(chan[q]) <= SentCount(q) /\ SentCount(q) <= seq[q]
          /\ fed[q] \in Int /\ SentCount(q) \in Int /\ seq[q] \in Int
          /\ Len(chan[q]) \in Nat
      BY RunTypes DEF Flow, FlowOf
    <3> QED
      BY <3>1
  <2> QED
    BY <2>1, <2>2 DEF Crash, FlowOf
<1> QED
  BY <1>1, <1>2 DEF Crash, Flow, RowsBounded, db

LEMMA NextTypeInv == TypeInv /\ [Next]_vars => TypeInv'
<1> SUFFICES ASSUME TypeInv, [Next]_vars
             PROVE  TypeInv'
  OBVIOUS
<1>1. CASE UNCHANGED vars
  BY <1>1 DEF vars, tasks, db, history, TypeInv, TypeOK, RowsBounded, Flow, FlowOf, SentCount
<1> QED
  BY <1>1, StartTypeInv, LoopTypeInv, ConsumerTypeInv, StopTypeInv,
     DeleteTypeInv, CrashTypeInv DEF Next

LEMMA TypeInvariance == Spec => []TypeInv
  BY InitTypeInv, NextTypeInv, PTL DEF Spec

\* Every reachable state is well typed: in particular no channel and no batch
\* ever exceeds its capacity, whatever the capacities are.
THEOREM TypeCorrect == Spec => []TypeOK
  BY TypeInvariance, PTL DEF TypeInv

-----------------------------------------------------------------------------
(* Ownership: as long as the history deletes only sessions that are over,  *)
(* a row that was not deleted belongs to one run, and nothing else writes  *)
(* to it.  None of the three properties below is inductive alone: that no  *)
(* start() displaces a live session needs the ids of undeleted runs to be  *)
(* distinct, which needs each of them to be in the table that NextId looks *)
(* at, which needs that a run in use is never deleted.                     *)

\* Where a run is decides what it may still hold.
StageOf(r) ==
    /\ stage[r] = "idle" => sid[r] = 0 /\ r \notin forgotten
    /\ stage[r] = "created" \/ Running(r) => sid[r] # 0 /\ r \notin forgotten
    /\ stage[r] # "displaced"
    /\ r \in active <=> stage[r] = "live"
    /\ loopPc[r] \notin {"off", "ended"} => stage[r] \in {"live", "stopping"}
    /\ consPc[r] \notin {"off", "ended"} => stage[r] \in {"live", "stopping"}

\* An undeleted run's row is in the table, and is stamped only by its stop().
RowOf(r) ==
    sid[r] # 0 /\ r \notin forgotten =>
        sid[r] \in rows /\ (sid[r] \in ended => stage[r] = "stopped")

Distinct ==
    \A q, r \in Runs :
        sid[q] # 0 /\ sid[q] = sid[r] /\ q \notin forgotten /\ r \notin forgotten
            => q = r

OwnInv ==
    /\ TypeInv
    /\ \A r \in Runs : StageOf(r) /\ RowOf(r)
    /\ Distinct
    /\ ProbesBelongToSession

LEMMA InitOwnInv == Init => OwnInv
  BY InitTypeInv DEF Init, OwnInv, StageOf, RowOf, Distinct, ProbesBelongToSession, Running

\* A new row gets an id that no undeleted run has.
LEMMA CreateOwnInv ==
    ASSUME OwnInv, NEW r \in Runs, StartCreate(r)
    PROVE  OwnInv'
<1> USE DEF OwnInv
<1>1. NextId \in Nat \ {0} /\ NextId \notin rows /\ NextId \notin ended
  BY NextIdProps DEF TypeInv, TypeOK
<1>2. TypeInv'
  BY StartTypeInv
<1>3. sid' = [sid EXCEPT ![r] = NextId] /\ sid \in [Runs -> Nat]
  BY DEF StartCreate, TypeInv, TypeOK
<1>4. stage' = [stage EXCEPT ![r] = "created"] /\ DOMAIN stage = Runs
  BY DEF StartCreate, TypeInv, TypeOK
<1>5. stage[r] = "idle" /\ StageOf(r)
  BY DEF StartCreate
<1>6. \A q \in Runs : StageOf(q)' /\ RowOf(q)'
  BY <1>1, <1>3, <1>4, <1>5 DEF StartCreate, StageOf, RowOf, Running, tasks
<1>7. Distinct'
  BY <1>1, <1>3, <1>5 DEF StartCreate, Distinct, RowOf
<1>8. ProbesBelongToSession'
  <2>1. \A p \in probes : p.run \in Runs /\ p.id # 0
    BY DEF TypeInv, TypeOK, ProbesBelongToSession
  <2>2. \A p \in probes : p.run # r
    BY <1>5, <2>1 DEF ProbesBelongToSession, StageOf
  <2> QED
    BY <1>3, <2>1, <2>2 DEF StartCreate, ProbesBelongToSession
<1> QED
  BY <1>2, <1>6, <1>7, <1>8

\* Registering displaces nobody.
LEMMA RegisterOwnInv ==
    ASSUME OwnInv, NEW r \in Runs, StartRegister(r)
    PROVE  OwnInv'
<1> USE DEF OwnInv
<1>1. {q \in active : sid[q] = sid[r]} = {}
  BY DEF StartRegister, Distinct, StageOf, Running, TypeInv, TypeOK
<1>2. /\ active' = active \cup {r}
      /\ stage' = [stage EXCEPT ![r] = "live"] /\ DOMAIN stage = Runs
  BY <1>1 DEF StartRegister, TypeInv, TypeOK
<1>3. \A q \in Runs : StageOf(q)' /\ RowOf(q)'
  BY <1>2 DEF StartRegister, StageOf, RowOf, Running, TypeInv, TypeOK, db, history
<1> QED
  BY <1>3, StartTypeInv DEF StartRegister, Distinct, ProbesBelongToSession, db, history

LEMMA LoopOwnInv ==
    ASSUME OwnInv, NEW r \in Runs, LoopStep(r)
    PROVE  OwnInv'
<1> USE DEF OwnInv
<1>1. /\ UNCHANGED <<stage, sid, active, consPc, db, history>>
      /\ loopPc[r] \in {"check", "probe", "wait"}
      /\ \A q \in Runs \ {r} : loopPc'[q] = loopPc[q]
  BY DEF LoopStep, LoopCheck, LoopSend, LoopWake, TypeInv, TypeOK
<1>2. \A q \in Runs : StageOf(q)' /\ RowOf(q)'
  BY <1>1 DEF StageOf, RowOf, Running, db, history
<1> QED
  BY <1>1, <1>2, LoopTypeInv DEF Distinct, ProbesBelongToSession, db, history

\* A flush writes only under the id of its own run, whose row is there.
LEMMA ConsumerOwnInv ==
    ASSUME OwnInv, NEW r \in Runs, ConsumerStep(r) \/ ConsumerTick(r)
    PROVE  OwnInv'
<1> USE DEF OwnInv
<1>1. /\ UNCHANGED <<stage, sid, active, loopPc, rows, ended, forgotten>>
      /\ consPc[r] \in {"recv", "flush", "final"}
      /\ \A q \in Runs \ {r} : consPc'[q] = consPc[q]
  BY DEF ConsumerStep, ConsumerRecv, ConsumerClosed, ConsumerTick, FlushOk,
         FlushFails, AfterFlush, TypeInv, TypeOK, db, history
<1>2. \A q \in Runs : StageOf(q)' /\ RowOf(q)'
  BY <1>1 DEF StageOf, RowOf, Running
<1>3. ProbesBelongToSession'
  <2>1. CASE FlushOk(r)
    <3>1. r \notin forgotten /\ sid[r] \in rows
      BY <1>1, <2>1 DEF FlushOk, StageOf, Running
    <3> QED
      BY <1>1, <2>1, <3>1 DEF FlushOk, ProbesBelongToSession
  <2>2. CASE ~FlushOk(r)
    <3>1. probes' = probes
      BY <2>2 DEF ConsumerStep, ConsumerRecv, ConsumerClosed, ConsumerTick,
                  FlushFails, db
    <3> QED
      BY <1>1, <3>1 DEF ProbesBelongToSession
  <2> QED
    BY <2>1, <2>2
<1> QED
  BY <1>1, <1>2, <1>3, ConsumerTypeInv DEF Distinct

\* stop() stamps the row of its own run only.
LEMMA StopOwnInv ==
    ASSUME OwnInv, NEW r \in Runs, StartFails(r) \/ Stop(r) \/ StopStep(r)
    PROVE  OwnInv'
<1> USE DEF OwnInv
<1>1. TypeInv'
  BY StartTypeInv, StopTypeInv
<1>2. UNCHANGED <<sid, rows, probes, forgotten, loopPc, consPc>>
  BY DEF StartFails, Stop, StopStep, StopJoined, StopFinish, StopFails, tasks,
         db, history
<1>3. \A q \in Runs : StageOf(q)'
  <2>1. CASE StartFails(r)
    BY <1>2, <2>1 DEF StartFails, StageOf, Running, TypeInv, TypeOK
  <2>2. CASE Stop(r)
    BY <1>2, <2>2 DEF Stop, StageOf, Running, TypeInv, TypeOK
  <2>3. CASE StopStep(r)
    BY <1>2, <2>3 DEF StopStep, StopJoined, StopFinish, StopFails, StageOf,
                      Running, TypeInv, TypeOK
  <2> QED
    BY <2>1, <2>2, <2>3
<1>4. \A q \in Runs : RowOf(q)'
  <2>1. CASE StopFinish(r)
    <3>1. sid[r] # 0 /\ r \notin forgotten
      BY <2>1 DEF StopFinish, StageOf, Running
    <3> QED
      BY <1>2, <2>1, <3>1 DEF StopFinish, RowOf, Distinct, TypeInv, TypeOK
  <2>2. CASE ~StopFinish(r)
    <3>1. UNCHANGED ended /\ stage[r] # "stopped"
      BY <2>2 DEF StartFails, Stop, StopStep, StopJoined, StopFails, StageOf, db
    <3>2. \A q \in Runs : stage[q] = "stopped" => stage'[q] = "stopped"
      BY <2>2, <3>1 DEF StartFails, Stop, StopStep, StopJoined, StopFails, TypeInv, TypeOK
    <3> QED
      BY <1>2, <3>1, <3>2 DEF RowOf
  <2> QED
    BY <2>1, <2>2
<1> QED
  BY <1>1, <1>2, <1>3, <1>4 DEF Distinct, ProbesBelongToSession

\* Deleting a row that is not in use forgets its run and all of its probes.
LEMMA DeleteOwnInv ==
    ASSUME OwnInv, DeleteLive = FALSE, NEW i \in rows, Delete(i)
    PROVE  OwnInv'
<1> USE DEF OwnInv
<1>1. \A q \in Runs : sid[q] = i => ~(stage[q] = "created" \/ Running(q)) /\ i # 0
  BY DEF Delete, InUse, TypeInv, TypeOK
<1>2. \A q \in Runs : StageOf(q)' /\ RowOf(q)'
  BY <1>1 DEF Delete, StageOf, RowOf, Running, tasks
<1>3. ProbesBelongToSession'
  BY DEF Delete, ProbesBelongToSession
<1> QED
  BY <1>2, <1>3, DeleteTypeInv DEF Delete, Distinct

LEMMA CrashOwnInv ==
    ASSUME OwnInv, Crash
    PROVE  OwnInv'
<1> USE DEF OwnInv
<1>1. \A q \in Runs : StageOf(q)' /\ RowOf(q)'
  BY DEF Crash, StageOf, RowOf, Running, db, history
<1> QED
  BY <1>1, CrashTypeInv DEF Crash, Distinct, ProbesBelongToSession, db, history

LEMMA NextOwnInv == DeleteLive = FALSE /\ OwnInv /\ [Next]_vars => OwnInv'
<1> SUFFICES ASSUME DeleteLive = FALSE, OwnInv, [Next]_vars
             PROVE  OwnInv'
  OBVIOUS
<1>1. CASE UNCHANGED vars
  BY <1>1, NextTypeInv DEF vars, tasks, db, history, OwnInv, StageOf, RowOf,
     Running, Distinct, ProbesBelongToSession
<1> QED
  BY <1>1, CreateOwnInv, RegisterOwnInv, LoopOwnInv, ConsumerOwnInv, StopOwnInv,
     DeleteOwnInv, CrashOwnInv DEF Next

LEMMA OwnInvariance ==
    ASSUME DeleteLive = FALSE
    PROVE  Spec => []OwnInv
<1>1. OwnInv /\ [Next]_vars => OwnInv'
  BY NextOwnInv
<1> QED
  BY <1>1, InitOwnInv, PTL DEF Spec

\* When only sessions that are over are deleted, a probe loop that runs can
\* always be stopped, however many sessions run side by side.
THEOREM NoOrphanLoopHolds ==
    ASSUME DeleteLive = FALSE
    PROVE  Spec => []NoOrphanLoop
<1>1. OwnInv => NoOrphanLoop
  BY DEF OwnInv, StageOf, NoOrphanLoop
<1> QED
  BY <1>1, OwnInvariance, PTL

\* ... and the probes listed under a session are those of its own run, even
\* though row ids are reused.
THEOREM ProbesBelongToSessionHolds ==
    ASSUME DeleteLive = FALSE
    PROVE  Spec => []ProbesBelongToSession
<1>1. OwnInv => ProbesBelongToSession
  BY DEF OwnInv
<1> QED
  BY <1>1, OwnInvariance, PTL

\* A session row with ended_at never gains or loses a probe.
THEOREM EndedRowsFrozenHolds ==
    ASSUME DeleteLive = FALSE
    PROVE  Spec => EndedRowsFrozen
<1>1. OwnInv /\ [Next]_vars =>
        \A i \in ended : i \in ended' =>
           {p \in probes' : p.id = i} = {p \in probes : p.id = i}
  <2> SUFFICES ASSUME OwnInv, [Next]_vars, NEW i \in ended, i \in ended'
               PROVE  {p \in probes' : p.id = i} = {p \in probes : p.id = i}
    OBVIOUS
  <2>1. ASSUME NEW r \in Runs, FlushOk(r)
        PROVE  sid[r] # i
    BY <2>1 DEF FlushOk, OwnInv, StageOf, RowOf, Running
  <2>2. CASE \E r \in Runs : FlushOk(r)
    <3>1. PICK r \in Runs : FlushOk(r)
      BY <2>2
    <3>2. sid[r] # i
      BY <2>1, <3>1
    <3>3. probes' = probes \cup {[id |-> sid[r], run |-> r, seq |-> s] : s \in Entries(batch[r])}
      BY <3>1 DEF FlushOk
    <3>4. \A p : p \in probes' /\ p.id = i <=> p \in probes /\ p.id = i
      BY <3>2, <3>3
    <3> QED
      BY <3>4
  <2>3. CASE \E j \in rows : Delete(j)
    BY <2>3 DEF Delete
  <2>4. CASE probes' = probes
    BY <2>4
  <2> QED
    BY <2>2, <2>3, <2>4 DEF Next, StartCreate, StartFails, StartRegister, LoopStep,
       LoopCheck, LoopSend, LoopWake, ConsumerStep, ConsumerRecv, ConsumerClosed,
       FlushFails, ConsumerTick, Stop, StopStep, StopJoined, StopFinish, StopFails,
       Crash, vars, db
<1> QED
  BY <1>1, OwnInvariance, PTL DEF Spec, EndedRowsFrozen

-----------------------------------------------------------------------------
(* The history is true, if only what is over is deleted.                   *)

Settled(r) == fed[r] - Len(batch[r])

\* What ProbesInOrder says of a running session, said of any run.
OrderOf(r) ==
    /\ \A i \in 1..Len(batch[r]) : batch[r][i] = Settled(r) + i
    /\ \A i \in 1..Len(chan[r]) : chan[r][i] = fed[r] + i
    /\ fed[r] + Len(chan[r]) = SentCount(r)
    /\ Stored(r) \cap dropped[r] = {}
    /\ Stored(r) \cup dropped[r] = 1..Settled(r)

\* The consumer ends when the channel and the batch are empty, and stop()
\* waits for it.
DrainOf(r) ==
    /\ consPc[r] \in {"final", "ended"} => loopPc[r] = "ended" /\ chan[r] = <<>>
    /\ consPc[r] = "ended" => batch[r] = <<>>
    /\ stage[r] = "joined" => consPc[r] = "ended"
    /\ stage[r] \in {"idle", "created", "stopped", "failed"} =>
         chan[r] = <<>> /\ batch[r] = <<>> /\ loopPc[r] \in {"off", "ended"}

\* Runs the history has something to say of.
Kept(r) == stage[r] # "dead" /\ r \notin forgotten

HistInv ==
    /\ OwnInv
    /\ \A r \in Runs : DrainOf(r) /\ (Kept(r) => OrderOf(r))

-----------------------------------------------------------------------------
(* One run. *)

\* The types of a run, and where its batch stands.
LEMMA RunFacts ==
    ASSUME HistInv, NEW r \in Runs
    PROVE  /\ fed[r] \in Nat /\ seq[r] \in Nat /\ SentCount(r) \in Int
           /\ chan[r] \in Seq(1..MaxProbes) /\ Len(chan[r]) \in Nat
           /\ batch[r] \in Seq(1..MaxProbes) /\ Len(batch[r]) \in Nat
           /\ Settled(r) \in Int /\ seq[r] <= MaxProbes /\ MaxProbes \in Nat
<1>1. TypeOK
  BY DEF HistInv, OwnInv, TypeInv
<1> QED
  BY <1>1, RunTypes, SessionAssumption DEF Settled

\* A step that leaves everything of a run where it is keeps its order.
LEMMA OrderFrame ==
    ASSUME NEW r \in Runs, OrderOf(r),
           fed'[r] = fed[r], batch'[r] = batch[r], chan'[r] = chan[r],
           SentCount(r)' = SentCount(r), Stored(r)' = Stored(r), dropped'[r] = dropped[r]
    PROVE  OrderOf(r)'
  BY DEF OrderOf, Settled

\* Steps of start() and stop() touch neither loop nor consumer.
LEMMA QuietHist ==
    ASSUME HistInv, NEW r \in Runs,
           StartCreate(r) \/ StartFails(r) \/ Stop(r) \/ StopStep(r)
    PROVE  HistInv'
<1> USE DEF HistInv
<1>1. OwnInv'
  BY CreateOwnInv, StopOwnInv
<1>2. /\ UNCHANGED <<loopPc, seq, chan, consPc, batch, fed, probes, dropped, forgotten>>
      /\ \A q \in Runs \ {r} : stage'[q] = stage[q]
      /\ stage[r] # "dead"
  BY DEF StartCreate, StartFails, Stop, StopStep, StopJoined, StopFinish, StopFails,
         tasks, db, history, OwnInv, TypeInv, TypeOK, StageOf
<1>3. \A q \in Runs : Kept(q)' => OrderOf(q)'
  <2> SUFFICES ASSUME NEW q \in Runs, Kept(q)'
               PROVE  OrderOf(q)'
    OBVIOUS
  <2>1. Kept(q)
    BY <1>2 DEF Kept
  <2>2. SentCount(q)' = SentCount(q) /\ Stored(q)' = Stored(q)
    BY <1>2 DEF SentCount, Stored
  <2> QED
    BY <1>2, <2>1, <2>2, OrderFrame
<1>4. \A q \in Runs : DrainOf(q)'
  <2>1. DrainOf(r)'
    <3>1. CASE StartCreate(r)
      BY <1>2, <3>1 DEF StartCreate, DrainOf, OwnInv, TypeInv, TypeOK
    <3>2. CASE StartFails(r)
      BY <1>2, <3>2 DEF StartFails, DrainOf, OwnInv, TypeInv, TypeOK
    <3>3. CASE Stop(r)
      BY <1>2, <3>3 DEF Stop, DrainOf, OwnInv, TypeInv, TypeOK
    <3>4. CASE StopJoined(r)
      BY <1>2, <3>4 DEF StopJoined, DrainOf, OwnInv, TypeInv, TypeOK
    <3>5. CASE StopFinish(r)
      BY <1>2, <3>5 DEF StopFinish, DrainOf, OwnInv, TypeInv, TypeOK
    <3>6. CASE StopFails(r)
      BY <1>2, <3>6 DEF StopFails, DrainOf, OwnInv, TypeInv, TypeOK
    <3> QED
      BY <3>1, <3>2, <3>3, <3>4, <3>5, <3>6 DEF StopStep
  <2>2. \A q \in Runs \ {r} : DrainOf(q)'
    BY <1>2 DEF DrainOf
  <2> QED
    BY <2>1, <2>2
<1> QED
  BY <1>1, <1>3, <1>4

\* Registering displaces nobody (RegisterOwnInv), and starts the tasks.
LEMMA RegisterHist ==
    ASSUME HistInv, NEW r \in Runs, StartRegister(r)
    PROVE  HistInv'
<1> USE DEF HistInv
<1>1. OwnInv'
  BY RegisterOwnInv
<1>2. /\ UNCHANGED <<seq, chan, batch, fed, probes, dropped, forgotten>>
      /\ stage[r] = "created" /\ stage'[r] = "live" /\ StageOf(r)
      /\ loopPc'[r] = "check" /\ consPc'[r] = "recv" /\ loopPc[r] \in {"off", "ended"}
      /\ \A q \in Runs \ {r} : loopPc'[q] = loopPc[q] /\ consPc'[q] = consPc[q]
  BY DEF StartRegister, tasks, db, history, OwnInv, TypeInv, TypeOK, DrainOf
<1>3. {q \in active : sid[q] = sid[r]} = {}
  BY DEF StartRegister, Distinct, StageOf, Running, OwnInv, TypeInv, TypeOK
<1>4. \A q \in Runs \ {r} : stage'[q] = stage[q]
  BY <1>3 DEF StartRegister, OwnInv, TypeInv, TypeOK
<1>5. \A q \in Runs : Kept(q)' => OrderOf(q)'
  <2> SUFFICES ASSUME NEW q \in Runs, Kept(q)'
               PROVE  OrderOf(q)'
    OBVIOUS
  <2>1. Kept(q)
    BY <1>2, <1>4 DEF Kept
  <2>2. SentCount(q)' = SentCount(q) /\ Stored(q)' = Stored(q)
    BY <1>2 DEF SentCount, Stored
  <2> QED
    BY <1>2, <2>1, <2>2, OrderFrame
<1>6. \A q \in Runs : DrainOf(q)'
  BY <1>2, <1>4 DEF DrainOf
<1> QED
  BY <1>1, <1>5, <1>6

-----------------------------------------------------------------------------
(* The loop and the consumer. *)

\* The next probe goes to the end of the channel.
LEMMA SendOrder ==
    ASSUME HistInv, NEW r \in Runs, LoopSend(r), OrderOf(r)
    PROVE  OrderOf(r)'
<1>1. /\ fed[r] \in Nat /\ seq[r] \in Nat /\ Len(chan[r]) \in Nat
      /\ chan[r] \in Seq(1..MaxProbes) /\ Settled(r) \in Int
      /\ seq[r] <= MaxProbes /\ MaxProbes \in Nat
  BY RunFacts
<1>2. /\ chan'[r] = Append(chan[r], seq[r])
      /\ UNCHANGED <<batch, fed, seq, probes, dropped>>
      /\ loopPc[r] = "probe" /\ loopPc'[r] = "wait"
  BY DEF LoopSend, HistInv, OwnInv, TypeInv, TypeOK, db, history
<1>3. SentCount(r) = seq[r] - 1 /\ SentCount(r)' = seq[r]
  BY <1>2 DEF SentCount
<1>4. fed[r] + Len(chan[r]) = seq[r] - 1
  BY <1>3 DEF OrderOf
<1>5. fed[r] \in Int /\ seq[r] \in Int /\ Len(chan[r]) \in Int
  BY <1>1
<1>6. \A i \in Int : i = Len(chan[r]) + 1 => fed[r] + i = seq[r]
  <2>1. \A f, l, s \in Int : f + l = s - 1 => f + (l + 1) = s
    OBVIOUS
  <2> QED
    BY <1>4, <1>5, <2>1
<1>7. /\ Len(chan'[r]) = Len(chan[r]) + 1
      /\ \A i \in 1..Len(chan[r]) : chan'[r][i] = chan[r][i]
      /\ chan'[r][Len(chan[r]) + 1] = seq[r]
  <2>1. seq[r] \in 1..MaxProbes
    BY <1>1, <1>4
  <2> QED
    BY <1>1, <1>2, <2>1, AppendProperties
<1>8. \A i \in 1..Len(chan'[r]) : chan'[r][i] = fed[r] + i
  <2> SUFFICES ASSUME NEW i \in 1..Len(chan[r]) + 1
               PROVE  chan'[r][i] = fed[r] + i
    BY <1>7
  <2>1. CASE i \in 1..Len(chan[r])
    BY <1>7, <2>1 DEF OrderOf
  <2>2. CASE i = Len(chan[r]) + 1
    <3>1. fed[r] + i = seq[r]
      BY <1>5, <1>6, <2>2
    <3>2. chan'[r][i] = seq[r]
      BY <1>7, <2>2, Zenon
    <3> QED
      BY <3>1, <3>2
  <2> QED
    BY <1>1, <2>1, <2>2
<1>9. Stored(r)' = Stored(r) /\ Settled(r)' = Settled(r)
  BY <1>2 DEF Stored, Settled
<1>10. \A i \in 1..Len(batch'[r]) : batch'[r][i] = Settled(r)' + i
  BY <1>2, <1>9 DEF OrderOf
<1>11. fed'[r] + Len(chan'[r]) = SentCount(r)'
  <2>1. fed[r] + (Len(chan[r]) + 1) = seq[r]
    BY <1>5, <1>6
  <2>2. fed'[r] = fed[r]
    BY <1>2
  <2> QED
    BY <1>3, <1>7, <2>1, <2>2, Zenon
<1>12. Stored(r)' \cap dropped'[r] = {} /\ Stored(r)' \cup dropped'[r] = 1..Settled(r)'
  BY <1>2, <1>9 DEF OrderOf
<1> QED
  BY <1>2, <1>8, <1>10, <1>11, <1>12 DEF OrderOf

\* The loop: one probe more in the channel, or nothing the history sees.
LEMMA LoopHist ==
    ASSUME HistInv, NEW r \in Runs, LoopStep(r)
    PROVE  HistInv'
<1> USE DEF HistInv
<1>1. OwnInv'
  BY LoopOwnInv
<1>2. /\ UNCHANGED <<stage, consPc, batch, fed, probes, dropped, forgotten>>
      /\ loopPc[r] \in {"check", "probe", "wait"}
      /\ \A q \in Runs \ {r} :
           loopPc'[q] = loopPc[q] /\ seq'[q] = seq[q] /\ chan'[q] = chan[q]
      /\ consPc[r] \notin {"final", "ended"}
      /\ stage[r] \in {"live", "stopping"}
  <2>1. UNCHANGED <<stage, consPc, batch, fed, probes, dropped, forgotten>>
    BY DEF LoopStep, LoopCheck, LoopSend, LoopWake, db, history
  <2>2. /\ loopPc[r] \in {"check", "probe", "wait"}
        /\ \A q \in Runs \ {r} :
             loopPc'[q] = loopPc[q] /\ seq'[q] = seq[q] /\ chan'[q] = chan[q]
    BY DEF LoopStep, LoopCheck, LoopSend, LoopWake, OwnInv, TypeInv, TypeOK
  <2>3. consPc[r] \notin {"final", "ended"} /\ stage[r] \in {"live", "stopping"}
    BY <2>2 DEF DrainOf, OwnInv, StageOf
  <2> QED
    BY <2>1, <2>2, <2>3
<1>3. \A q \in Runs : DrainOf(q)'
  BY <1>2 DEF DrainOf
<1>4. ASSUME NEW q \in Runs, Kept(q)'
      PROVE  OrderOf(q)'
  <2>1. Kept(q) /\ OrderOf(q)
    BY <1>2, <1>4 DEF Kept
  <2>2. CASE q = r /\ LoopSend(r)
    BY <2>1, <2>2, SendOrder
  <2>3. CASE q # r
    <3>1. SentCount(q)' = SentCount(q) /\ Stored(q)' = Stored(q)
      BY <1>2, <2>3 DEF SentCount, Stored
    <3> QED
      BY <1>2, <2>1, <2>3, <3>1, OrderFrame
  <2>4. CASE q = r /\ ~LoopSend(r)
    <3>1. chan' = chan /\ Stored(q)' = Stored(q)
      BY <1>2, <2>4 DEF LoopStep, LoopCheck, LoopWake, Stored
    <3>2. SentCount(r)' = SentCount(r)
      <4>1. seq[r] \in Nat
        BY RunFacts
      <4>2. CASE LoopCheck(r)
        <5>1. \/ loopPc'[r] = "ended" /\ seq'[r] = seq[r]
              \/ loopPc'[r] = "probe" /\ seq'[r] = seq[r] + 1
          BY <4>2 DEF LoopCheck, OwnInv, TypeInv, TypeOK
        <5>2. loopPc[r] = "check"
          BY <4>2 DEF LoopCheck
        <5> QED
          BY <4>1, <5>1, <5>2 DEF SentCount
      <4>3. CASE LoopWake(r)
        BY <4>3 DEF LoopWake, SentCount, OwnInv, TypeInv, TypeOK
      <4> QED
        BY <2>4, <4>2, <4>3 DEF LoopStep
    <3> QED
      BY <1>2, <2>1, <2>4, <3>1, <3>2, OrderFrame
  <2> QED
    BY <2>2, <2>3, <2>4
<1> QED
  BY <1>1, <1>3, <1>4

\* The probe that is received is the next one, and follows the batch.
LEMMA RecvOrder ==
    ASSUME HistInv, NEW r \in Runs, ConsumerRecv(r), OrderOf(r)
    PROVE  OrderOf(r)'
<1>1. /\ fed[r] \in Int /\ Len(chan[r]) \in Nat /\ Len(batch[r]) \in Nat
      /\ chan[r] \in Seq(1..MaxProbes) /\ batch[r] \in Seq(1..MaxProbes)
  BY RunFacts
<1>2. /\ chan[r] # <<>> /\ chan'[r] = Tail(chan[r]) /\ fed'[r] = fed[r] + 1
      /\ batch'[r] = Append(batch[r], Head(chan[r]))
      /\ UNCHANGED <<seq, loopPc, probes, dropped>>
  BY DEF ConsumerRecv, HistInv, OwnInv, TypeInv, TypeOK, db, history
<1>3. /\ Len(chan[r]) \in Nat \ {0} /\ Head(chan[r]) \in 1..MaxProbes
      /\ Len(chan'[r]) = Len(chan[r]) - 1
      /\ \A i \in 1..Len(chan'[r]) : chan'[r][i] = chan[r][i + 1]
  BY <1>1, <1>2, HeadTailProperties, EmptySeq, ZenonT(40)
<1>4. /\ Len(batch'[r]) = Len(batch[r]) + 1
      /\ \A i \in 1..Len(batch[r]) : batch'[r][i] = batch[r][i]
      /\ batch'[r][Len(batch[r]) + 1] = Head(chan[r])
  BY <1>1, <1>2, <1>3, AppendProperties
<1>5. Head(chan[r]) = fed[r] + 1
  <2>1. Head(chan[r]) = chan[r][1] /\ 1 \in 1..Len(chan[r])
    BY <1>1, <1>3
  <2> QED
    BY <2>1 DEF OrderOf
<1>6. Settled(r)' = Settled(r) /\ Settled(r) \in Int
  <2>1. (fed[r] + 1) - (Len(batch[r]) + 1) = fed[r] - Len(batch[r])
    BY <1>1
  <2> QED
    BY <1>1, <1>2, <1>4, <2>1 DEF Settled
<1>7. \A i \in 1..Len(batch'[r]) : batch'[r][i] = Settled(r)' + i
  <2> SUFFICES ASSUME NEW i \in 1..Len(batch[r]) + 1
               PROVE  batch'[r][i] = Settled(r) + i
    BY <1>4, <1>6
  <2>1. CASE i \in 1..Len(batch[r])
    BY <1>4, <2>1 DEF OrderOf
  <2>2. CASE i = Len(batch[r]) + 1
    <3>1. Settled(r) + i = fed[r] + 1
      BY <1>1, <2>2 DEF Settled
    <3>2. batch'[r][i] = fed[r] + 1
      BY <1>4, <1>5, <2>2, Zenon
    <3> QED
      BY <3>1, <3>2
  <2> QED
    BY <1>1, <2>1, <2>2
<1>8. \A i \in 1..Len(chan'[r]) : chan'[r][i] = fed'[r] + i
  <2> SUFFICES ASSUME NEW i \in 1..Len(chan'[r])
               PROVE  chan'[r][i] = fed'[r] + i
    OBVIOUS
  <2>1. i + 1 \in 1..Len(chan[r])
    BY <1>3
  <2>2. chan'[r][i] = fed[r] + (i + 1)
    BY <1>3, <2>1 DEF OrderOf
  <2>3. \A f, j \in Int : f + (j + 1) = (f + 1) + j
    OBVIOUS
  <2>4. fed[r] \in Int /\ i \in Int
    BY <1>1, <1>3
  <2>5. fed[r] + (i + 1) = (fed[r] + 1) + i
    BY <2>3, <2>4, Zenon
  <2> QED
    BY <1>2, <2>2, <2>5
<1>9. fed'[r] + Len(chan'[r]) = SentCount(r)'
  <2>1. (fed[r] + 1) + (Len(chan[r]) - 1) = fed[r] + Len(chan[r])
    BY <1>1
  <2>2. SentCount(r)' = SentCount(r)
    BY <1>2 DEF SentCount
  <2>3. fed[r] + Len(chan[r]) = SentCount(r)
    BY DEF OrderOf
  <2> QED
    BY <1>2, <1>3, <2>1, <2>2, <2>3, Zenon
<1>10. /\ Stored(r)' \cap dropped'[r] = {}
       /\ Stored(r)' \cup dropped'[r] = 1..Settled(r)'
  <2>1. Stored(r)' = Stored(r) /\ dropped'[r] = dropped[r]
    BY <1>2 DEF Stored
  <2> QED
    BY <1>6, <2>1 DEF OrderOf
<1> QED
  BY <1>7, <1>8, <1>9, <1>10 DEF OrderOf

\* A batch that is in order holds the probes after those that are settled.
LEMMA BatchEntries ==
    ASSUME HistInv, NEW r \in Runs, OrderOf(r)
    PROVE  /\ Entries(batch[r]) = (Settled(r) + 1)..fed[r]
           /\ Settled(r) \in Nat /\ Settled(r) <= fed[r]
           /\ fed[r] = Settled(r) + Len(batch[r])
<1>1. /\ fed[r] \in Nat /\ Len(batch[r]) \in Nat /\ batch[r] \in Seq(1..MaxProbes)
      /\ Settled(r) \in Int
  BY RunFacts
<1>2. DOMAIN batch[r] = 1..Len(batch[r])
  BY <1>1
<1>3. fed[r] = Settled(r) + Len(batch[r]) /\ Settled(r) <= fed[r]
  BY <1>1 DEF Settled
<1>4. Settled(r) \in Nat
  <2>1. CASE Len(batch[r]) = 0
    BY <1>1, <1>3, <2>1
  <2>2. CASE Len(batch[r]) # 0
    <3>1. 1 \in 1..Len(batch[r])
      BY <1>1, <2>2
    <3>2. batch[r][1] = Settled(r) + 1
      BY <3>1 DEF OrderOf
    <3>3. batch[r][1] \in 1..MaxProbes
      BY <1>1, <3>1, ElementOfSeq
    <3> QED
      BY <1>1, <3>2, <3>3
  <2> QED
    BY <2>1, <2>2
<1>5. Entries(batch[r]) = {Settled(r) + i : i \in 1..Len(batch[r])}
  BY <1>2 DEF Entries, OrderOf
<1>6. \A s, l \in Nat : {s + i : i \in 1..l} = (s + 1)..(s + l)
  <2> SUFFICES ASSUME NEW s \in Nat, NEW l \in Nat
               PROVE  {s + i : i \in 1..l} = (s + 1)..(s + l)
    OBVIOUS
  <2>1. \A x \in (s + 1)..(s + l) : x - s \in 1..l /\ s + (x - s) = x
    OBVIOUS
  <2>2. \A x \in (s + 1)..(s + l) : \E i \in 1..l : x = s + i
    BY <2>1
  <2>3. \A i \in 1..l : s + i \in (s + 1)..(s + l)
    OBVIOUS
  <2> QED
    BY <2>2, <2>3
<1> QED
  BY <1>1, <1>3, <1>4, <1>5, <1>6

\* A flush stores the batch and drops nothing, or the other way round.
LEMMA FlushStores ==
    ASSUME HistInv, NEW r \in Runs, FlushOk(r) \/ FlushFails(r)
    PROVE  \/ Stored(r)' = Stored(r) \cup Entries(batch[r]) /\ dropped'[r] = dropped[r]
           \/ Stored(r)' = Stored(r) /\ dropped'[r] = dropped[r] \cup Entries(batch[r])
<1>1. CASE FlushOk(r)
  <2>1. /\ probes' = probes \cup {[id |-> sid[r], run |-> r, seq |-> s] : s \in Entries(batch[r])}
        /\ dropped' = dropped
    BY <1>1 DEF FlushOk
  <2> DEFINE new == {[id |-> sid[r], run |-> r, seq |-> s] : s \in Entries(batch[r])}
  <2>2. {p.seq : p \in {q \in new : q.run = r}} = Entries(batch[r])
    <3>1. \A p \in new : p.run = r /\ p.seq \in Entries(batch[r])
      OBVIOUS
    <3>2. ASSUME NEW s \in Entries(batch[r])
          PROVE  \E p \in new : p.run = r /\ p.seq = s
      <4>1. [id |-> sid[r], run |-> r, seq |-> s] \in new
        OBVIOUS
      <4> QED
        BY <4>1
    <3> QED
      BY <3>1, <3>2
  <2> HIDE DEF new
  <2>3. {p.seq : p \in {q \in probes \cup new : q.run = r}}
          = {p.seq : p \in {q \in probes : q.run = r}}
              \cup {p.seq : p \in {q \in new : q.run = r}}
    OBVIOUS
  <2> QED
    BY <2>1, <2>2, <2>3 DEF Stored, new
<1>2. CASE FlushFails(r)
  BY <1>2 DEF FlushFails, Stored, HistInv, OwnInv, TypeInv, TypeOK
<1> QED
  BY <1>1, <1>2

\* After a flush the batch is settled, stored or dropped.
LEMMA FlushOrder ==
    ASSUME HistInv, NEW r \in Runs, FlushOk(r) \/ FlushFails(r), OrderOf(r)
    PROVE  OrderOf(r)'
<1>1. /\ Entries(batch[r]) = (Settled(r) + 1)..fed[r]
      /\ Settled(r) \in Nat /\ Settled(r) <= fed[r] /\ fed[r] \in Nat
  BY BatchEntries, RunFacts
<1>2. /\ UNCHANGED <<fed, chan, seq, loopPc>>
      /\ batch'[r] = <<>> /\ Len(batch'[r]) = 0
  BY DEF FlushOk, FlushFails, AfterFlush, HistInv, OwnInv, TypeInv, TypeOK
<1>3. Settled(r)' = fed[r]
  BY <1>1, <1>2 DEF Settled
<1>4. /\ Stored(r) \cap Entries(batch[r]) = {} /\ dropped[r] \cap Entries(batch[r]) = {}
      /\ Stored(r) \cup dropped[r] \cup Entries(batch[r]) = 1..fed[r]
  <2>1. Stored(r) \cup dropped[r] = 1..Settled(r)
    BY DEF OrderOf
  <2> QED
    BY <1>1, <2>1
<1>5. \/ Stored(r)' = Stored(r) \cup Entries(batch[r]) /\ dropped'[r] = dropped[r]
      \/ Stored(r)' = Stored(r) /\ dropped'[r] = dropped[r] \cup Entries(batch[r])
  BY FlushStores
<1>6. Stored(r)' \cap dropped'[r] = {} /\ Stored(r)' \cup dropped'[r] = 1..Settled(r)'
  <2>1. Stored(r) \cap dropped[r] = {}
    BY DEF OrderOf
  <2> QED
    BY <1>3, <1>4, <1>5, <2>1
<1>7. SentCount(r)' = SentCount(r)
  BY <1>2 DEF SentCount
<1> QED
  BY <1>2, <1>6, <1>7 DEF OrderOf

\* The consumer: a probe received, a batch flushed, or the end.
LEMMA ConsumerHist ==
    ASSUME HistInv, NEW r \in Runs, ConsumerStep(r) \/ ConsumerTick(r)
    PROVE  HistInv'
<1> USE DEF HistInv
<1>1. OwnInv'
  BY ConsumerOwnInv
<1>2. /\ UNCHANGED <<stage, loopPc, seq, forgotten>>
      /\ consPc[r] \in {"recv", "flush", "final"} /\ stage[r] \in {"live", "stopping"}
      /\ \A q \in Runs \ {r} :
           /\ consPc'[q] = consPc[q] /\ batch'[q] = batch[q] /\ fed'[q] = fed[q]
           /\ chan'[q] = chan[q] /\ dropped'[q] = dropped[q]
  <2>1. /\ UNCHANGED <<stage, loopPc, seq, forgotten>>
        /\ consPc[r] \in {"recv", "flush", "final"}
    BY DEF ConsumerStep, ConsumerRecv, ConsumerClosed, ConsumerTick, FlushOk,
           FlushFails, AfterFlush, history
  <2>2. \A q \in Runs \ {r} :
           /\ consPc'[q] = consPc[q] /\ batch'[q] = batch[q] /\ fed'[q] = fed[q]
           /\ chan'[q] = chan[q] /\ dropped'[q] = dropped[q]
    BY DEF ConsumerStep, ConsumerRecv, ConsumerClosed, ConsumerTick, FlushOk,
           FlushFails, AfterFlush, history, OwnInv, TypeInv, TypeOK
  <2>3. stage[r] \in {"live", "stopping"}
    BY <2>1 DEF OwnInv, StageOf
  <2> QED
    BY <2>1, <2>2, <2>3
<1>3. \A q \in Runs \ {r} : Stored(q)' = Stored(q)
  <2>1. CASE FlushOk(r)
    BY <2>1 DEF FlushOk, Stored
  <2>2. CASE ~FlushOk(r)
    BY <2>2 DEF ConsumerStep, ConsumerRecv, ConsumerClosed, ConsumerTick,
                FlushFails, db, Stored
  <2> QED
    BY <2>1, <2>2
<1>4. \A q \in Runs : DrainOf(q)'
  <2>1. DrainOf(r)'
    <3>1. CASE ConsumerRecv(r)
      BY <1>2, <3>1 DEF ConsumerRecv, DrainOf, OwnInv, TypeInv, TypeOK
    <3>2. CASE ConsumerTick(r)
      BY <1>2, <3>2 DEF ConsumerTick, DrainOf, OwnInv, TypeInv, TypeOK
    <3>3. CASE ConsumerClosed(r)
      BY <1>2, <3>3 DEF ConsumerClosed, DrainOf, OwnInv, TypeInv, TypeOK
    <3>4. CASE FlushOk(r) \/ FlushFails(r)
      BY <1>2, <3>4 DEF FlushOk, FlushFails, AfterFlush, DrainOf, OwnInv, TypeInv, TypeOK
    <3> QED
      BY <3>1, <3>2, <3>3, <3>4 DEF ConsumerStep
  <2>2. \A q \in Runs \ {r} : DrainOf(q)'
    BY <1>2 DEF DrainOf
  <2> QED
    BY <2>1, <2>2
<1>5. ASSUME NEW q \in Runs, Kept(q)'
      PROVE  OrderOf(q)'
  <2>1. Kept(q) /\ OrderOf(q)
    BY <1>2, <1>5 DEF Kept
  <2>2. SentCount(q)' = SentCount(q)
    BY <1>2 DEF SentCount
  <2>3. CASE q # r
    BY <1>2, <1>3, <2>1, <2>2, <2>3, OrderFrame
  <2>4. CASE q = r /\ ConsumerRecv(r)
    BY <2>1, <2>4, RecvOrder
  <2>5. CASE q = r /\ (FlushOk(r) \/ FlushFails(r))
    BY <2>1, <2>5, FlushOrder
  <2>6. CASE q = r /\ (ConsumerTick(r) \/ ConsumerClosed(r))
    <3>1. UNCHANGED <<fed, batch, chan, probes, dropped>>
      BY <2>6 DEF ConsumerTick, ConsumerClosed, db, history
    <3>2. Stored(q)' = Stored(q)
      BY <3>1 DEF Stored
    <3> QED
      BY <2>1, <2>2, <3>1, <3>2, OrderFrame
  <2> QED
    BY <2>3, <2>4, <2>5, <2>6 DEF ConsumerStep
<1> QED
  BY <1>1, <1>4, <1>5

-----------------------------------------------------------------------------
(* The history view and the crash.                                         *)

\* The probes that go with a deleted row are those of its own run.
LEMMA DeleteHist ==
    ASSUME HistInv, DeleteLive = FALSE, NEW i \in rows, Delete(i)
    PROVE  HistInv'
<1> USE DEF HistInv
<1>1. OwnInv'
  BY DeleteOwnInv
<1>2. /\ UNCHANGED <<stage, loopPc, seq, chan, consPc, batch, fed, dropped>>
      /\ forgotten' = forgotten \cup {q \in Runs : sid[q] = i}
      /\ probes' = {p \in probes : p.id # i}
  BY DEF Delete, tasks
<1>3. \A q \in Runs : DrainOf(q)'
  BY <1>2 DEF DrainOf
<1>4. ASSUME NEW q \in Runs, Kept(q)'
      PROVE  OrderOf(q)'
  <2>1. Kept(q) /\ OrderOf(q) /\ sid[q] # i
    BY <1>2, <1>4 DEF Kept
  <2>2. \A p \in probes : p.run = q => p.id # i
    BY <2>1 DEF OwnInv, ProbesBelongToSession
  <2>3. Stored(q)' = Stored(q)
    BY <1>2, <2>2 DEF Stored
  <2>4. SentCount(q)' = SentCount(q)
    BY <1>2 DEF SentCount
  <2> QED
    BY <1>2, <2>1, <2>3, <2>4, OrderFrame
<1> QED
  BY <1>1, <1>3, <1>4

\* A run that a crash does not kill had nothing left in memory.
LEMMA CrashHist ==
    ASSUME HistInv, Crash
    PROVE  HistInv'
<1> USE DEF HistInv
<1>1. OwnInv'
  BY CrashOwnInv
<1>2. /\ UNCHANGED <<seq, fed, probes, dropped, forgotten>>
      /\ \A q \in Runs :
           /\ stage'[q] = IF stage[q] = "created" \/ Running(q) THEN "dead" ELSE stage[q]
           /\ loopPc'[q] = "off" /\ consPc'[q] = "off"
           /\ chan'[q] = <<>> /\ batch'[q] = <<>>
  BY DEF Crash, db, history
<1>3. \A q \in Runs : DrainOf(q)'
  <2> SUFFICES ASSUME NEW q \in Runs
               PROVE  DrainOf(q)'
    OBVIOUS
  <2>1. stage'[q] # "joined"
    BY <1>2 DEF Running
  <2> QED
    BY <1>2, <2>1 DEF DrainOf
<1>4. ASSUME NEW q \in Runs, Kept(q)'
      PROVE  OrderOf(q)'
  <2>1. Kept(q) /\ stage[q] \in {"idle", "stopped", "failed"}
    BY <1>2, <1>4 DEF Kept, Running, OwnInv, StageOf, TypeInv, TypeOK
  <2>2. OrderOf(q) /\ chan[q] = <<>> /\ batch[q] = <<>> /\ loopPc[q] \in {"off", "ended"}
    BY <2>1 DEF DrainOf
  <2>3. SentCount(q)' = SentCount(q) /\ Stored(q)' = Stored(q)
    BY <1>2, <2>2 DEF SentCount, Stored
  <2> QED
    BY <1>2, <2>2, <2>3, OrderFrame
<1> QED
  BY <1>1, <1>3, <1>4

-----------------------------------------------------------------------------
(* Invariance, and what follows.                                           *)

\* Nothing was sent yet.
LEMMA InitHist == Init => HistInv
<1> SUFFICES ASSUME Init
             PROVE  HistInv
  OBVIOUS
<1>1. OwnInv
  BY InitOwnInv
<1>2. ASSUME NEW r \in Runs
      PROVE  DrainOf(r) /\ OrderOf(r)
  <2>1. /\ stage[r] = "idle" /\ loopPc[r] = "off" /\ consPc[r] = "off"
        /\ chan[r] = <<>> /\ batch[r] = <<>> /\ seq[r] = 0 /\ fed[r] = 0
        /\ probes = {} /\ dropped[r] = {}
    BY DEF Init
  <2>2. Settled(r) = 0
    <3>1. Len(<<>>) = 0
      OBVIOUS
    <3>2. Len(batch[r]) = 0
      BY <2>1, <3>1, Zenon
    <3>3. 0 - 0 = 0
      OBVIOUS
    <3> QED
      BY <2>1, <3>2, <3>3, Zenon DEF Settled
  <2>3. SentCount(r) = 0 /\ Stored(r) = {} /\ 1..0 = {}
    BY <2>1 DEF SentCount, Stored
  <2> QED
    BY <2>1, <2>2, <2>3, EmptySeq DEF DrainOf, OrderOf
<1> QED
  BY <1>1, <1>2 DEF HistInv

\* Every step keeps the history true.
LEMMA NextHist == DeleteLive = FALSE /\ HistInv /\ [Next]_vars => HistInv'
<1> SUFFICES ASSUME DeleteLive = FALSE, HistInv, [Next]_vars
             PROVE  HistInv'
  OBVIOUS
<1>1. CASE UNCHANGED vars
  <2>1. OwnInv'
    BY <1>1, NextOwnInv DEF HistInv
  <2>2. \A r \in Runs : DrainOf(r)' /\ (Kept(r)' => OrderOf(r)')
    BY <1>1 DEF HistInv, vars, tasks, db, history, DrainOf, Kept, OrderOf, Settled,
       SentCount, Stored
  <2> QED
    BY <2>1, <2>2 DEF HistInv
<1> QED
  BY <1>1, QuietHist, RegisterHist, LoopHist, ConsumerHist, DeleteHist, CrashHist
     DEF Next

\* The history is true in every reachable state.
LEMMA HistInvariance ==
    ASSUME DeleteLive = FALSE
    PROVE  Spec => []HistInv
<1>1. HistInv /\ [Next]_vars => HistInv'
  BY NextHist
<1> QED
  BY <1>1, InitHist, PTL DEF Spec

\* A run that is not over, or was stopped cleanly, is kept.
LEMMA HistOrder == HistInv => ProbesInOrder
  BY DEF HistInv, Kept, Running, OrderOf, Settled, ProbesInOrder

\* A run that was stopped has nothing in channel and batch.
LEMMA HistComplete == HistInv => CleanStopComplete
<1> SUFFICES ASSUME HistInv, NEW r \in Runs, stage[r] = "stopped", r \notin forgotten
             PROVE  fed[r] = seq[r] /\ Stored(r) = (1..seq[r]) \ dropped[r]
  BY DEF CleanStopComplete
<1>1. /\ OrderOf(r) /\ chan[r] = <<>> /\ batch[r] = <<>>
      /\ loopPc[r] \in {"off", "ended"}
  BY DEF HistInv, Kept, DrainOf
<1>2. fed[r] \in Nat /\ Len(chan[r]) = 0 /\ Len(batch[r]) = 0
  BY <1>1, RunFacts
<1>3. fed[r] = seq[r]
  <2>1. fed[r] + 0 = seq[r]
    BY <1>1, <1>2 DEF OrderOf, SentCount
  <2> QED
    BY <1>2, <2>1
<1>4. Settled(r) = fed[r]
  BY <1>2 DEF Settled
<1> QED
  BY <1>1, <1>3, <1>4 DEF OrderOf

\* How many probes the batch and the channel hold.
LEMMA IntervalSize ==
    ASSUME NEW s \in Nat, NEW b \in Nat, NEW c \in Nat
    PROVE  Cardinality((s + 1)..((s + b) + c)) = b + c
<1> DEFINE lo == s + 1
           hi == (s + b) + c
<1>1. lo \in Int /\ hi \in Int
  OBVIOUS
<1>2. (IF lo > hi THEN 0 ELSE hi - lo + 1) = b + c
  OBVIOUS
<1> HIDE DEF lo, hi
<1>3. Cardinality(lo..hi) = IF lo > hi THEN 0 ELSE hi - lo + 1
  BY <1>1, FS_Interval
<1> QED
  BY <1>2, <1>3 DEF lo, hi

\* What a crash could lose is what is in the batch and in the channel.
LEMMA HistWindow == HistInv => CrashWindow
<1> SUFFICES ASSUME HistInv, NEW r \in Runs, Running(r), r \notin forgotten
             PROVE  Cardinality(Unpersisted(r)) <= FlushBatch + ChannelCap
  BY DEF CrashWindow
<1>1. OrderOf(r)
  BY DEF HistInv, Kept, Running
<1>2. /\ Len(batch[r]) \in Nat /\ Len(chan[r]) \in Nat /\ fed[r] \in Nat
      /\ Len(batch[r]) <= FlushBatch /\ Len(chan[r]) <= ChannelCap
  BY RunFacts DEF HistInv, OwnInv, TypeInv, TypeOK
<1>3. /\ Settled(r) \in Nat /\ fed[r] = Settled(r) + Len(batch[r])
      /\ SentCount(r) = fed[r] + Len(chan[r])
  BY <1>1, BatchEntries DEF OrderOf
<1>4. Unpersisted(r) = (Settled(r) + 1)..SentCount(r)
  <2>1. Unpersisted(r) = (1..SentCount(r)) \ (1..Settled(r))
    BY <1>1 DEF Unpersisted, OrderOf
  <2> QED
    BY <1>2, <1>3, <2>1
<1>5. Cardinality(Unpersisted(r)) = Len(batch[r]) + Len(chan[r])
  <2>1. Unpersisted(r) = (Settled(r) + 1)..((Settled(r) + Len(batch[r])) + Len(chan[r]))
    BY <1>3, <1>4, Zenon
  <2>2. Cardinality((Settled(r) + 1)..((Settled(r) + Len(batch[r])) + Len(chan[r])))
          = Len(batch[r]) + Len(chan[r])
    BY <1>2, <1>3, IntervalSize
  <2> QED
    BY <2>1, <2>2, Zenon
<1>6. \A b, c, f, n \in Int : b <= f /\ c <= n => b + c <= f + n
  OBVIOUS
<1>7. FlushBatch \in Int /\ ChannelCap \in Int /\ Len(batch[r]) \in Int /\ Len(chan[r]) \in Int
  BY <1>2, SessionAssumption
<1>8. Len(batch[r]) + Len(chan[r]) <= FlushBatch + ChannelCap
  BY <1>2, <1>6, <1>7, Zenon
<1> QED
  BY <1>5, <1>8, Zenon

\* The history of a session is true, for any number of sessions side by side,
\* any sizes of channel and batch, failing flushes and crashes: probes are
\* stored in order and once, a clean stop leaves none behind, and a crash costs
\* at most a batch and a channel.
THEOREM HistoryTrueHolds ==
    ASSUME DeleteLive = FALSE
    PROVE  Spec => []HistoryTrue
<1>1. HistInv => HistoryTrue
  BY HistOrder, HistComplete, HistWindow DEF HistoryTrue
<1> QED
  BY <1>1, HistInvariance, PTL

-----------------------------------------------------------------------------
(***************************************************************************)
(* The refinement of SessionLog: each step of the session layer is a step  *)
(* of the log or changes nothing the log can see.  That a session is       *)
(* closed only when everything is settled, and that a group of probes is   *)
(* the next one, is HistInv; that a deletion forgets one session, and not  *)
(* two with the same row id, is OwnInv.                                    *)
(***************************************************************************)

\* The log's variables, run by run (the substitution of Log).
LogStatus(r) ==
    IF sid[r] = 0 THEN "new"
    ELSE IF stage[r] \in {"stopped", "failed"} THEN "closed"
    ELSE IF stage[r] = "dead" THEN "lost" ELSE "open"

LogProduced(r) == IF stage[r] = "dead" THEN 0 ELSE SentCount(r)

LogSettled(r) == IF stage[r] = "dead" THEN 0 ELSE fed[r] - Len(batch[r])

\* What the log sees of a run.
Seen(r) == <<LogStatus(r), LogProduced(r), LogSettled(r), Stored(r)>>

-----------------------------------------------------------------------------
(* What the log does not see.                                              *)

\* If the log sees nothing change in any run, its variables stay.
LEMMA Unseen ==
    ASSUME \A q \in Runs : Seen(q)' = Seen(q)
    PROVE  UNCHANGED Log!logVars
<1>1. \A q \in Runs : LogStatus(q)' = LogStatus(q) /\ LogProduced(q)' = LogProduced(q)
                      /\ LogSettled(q)' = LogSettled(q) /\ Stored(q)' = Stored(q)
  BY DEF Seen
<1>2. [q \in Runs |-> LogStatus(q)]' = [q \in Runs |-> LogStatus(q)]
  BY <1>1
<1>3. [q \in Runs |-> LogProduced(q)]' = [q \in Runs |-> LogProduced(q)]
  BY <1>1
<1>4. [q \in Runs |-> LogSettled(q)]' = [q \in Runs |-> LogSettled(q)]
  BY <1>1
<1>5. [q \in Runs |-> Stored(q)]' = [q \in Runs |-> Stored(q)]
  BY <1>1
<1> QED
  BY <1>2, <1>3, <1>4, <1>5 DEF Log!logVars, LogStatus, LogProduced, LogSettled

\* A step that the log sees in one run only, and in one variable there.
LEMMA SeenIn ==
    ASSUME NEW r \in Runs, \A q \in Runs \ {r} : Seen(q)' = Seen(q)
    PROVE  /\ LogStatus(r)' = LogStatus(r) =>
                [q \in Runs |-> LogStatus(q)]' = [q \in Runs |-> LogStatus(q)]
           /\ LogProduced(r)' = LogProduced(r) =>
                [q \in Runs |-> LogProduced(q)]' = [q \in Runs |-> LogProduced(q)]
           /\ LogSettled(r)' = LogSettled(r) =>
                [q \in Runs |-> LogSettled(q)]' = [q \in Runs |-> LogSettled(q)]
           /\ Stored(r)' = Stored(r) =>
                [q \in Runs |-> Stored(q)]' = [q \in Runs |-> Stored(q)]
           /\ \A v : LogStatus(r)' = v =>
                [q \in Runs |-> LogStatus(q)]'
                  = [[q \in Runs |-> LogStatus(q)] EXCEPT ![r] = v]
           /\ \A v : LogProduced(r)' = v =>
                [q \in Runs |-> LogProduced(q)]'
                  = [[q \in Runs |-> LogProduced(q)] EXCEPT ![r] = v]
           /\ \A v : LogSettled(r)' = v =>
                [q \in Runs |-> LogSettled(q)]'
                  = [[q \in Runs |-> LogSettled(q)] EXCEPT ![r] = v]
           /\ \A v : Stored(r)' = v =>
                [q \in Runs |-> Stored(q)]' = [[q \in Runs |-> Stored(q)] EXCEPT ![r] = v]
<1>1. \A q \in Runs \ {r} :
        LogStatus(q)' = LogStatus(q) /\ LogProduced(q)' = LogProduced(q)
        /\ LogSettled(q)' = LogSettled(q) /\ Stored(q)' = Stored(q)
  BY DEF Seen
<1> QED
  BY <1>1

\* The log's view of a run that is not over.
LEMMA OpenRun ==
    ASSUME HistInv, NEW r \in Runs, stage[r] \in {"created", "live", "stopping", "joined"}
    PROVE  /\ LogStatus(r) = "open" /\ LogProduced(r) = SentCount(r)
           /\ LogSettled(r) = Settled(r) /\ OrderOf(r) /\ sid[r] # 0
  BY DEF HistInv, OwnInv, StageOf, Running, Kept, LogStatus, LogProduced, LogSettled, Settled

-----------------------------------------------------------------------------
(* The steps of one run.                                                   *)

\* A new row opens a session.
LEMMA CreateLog ==
    ASSUME HistInv, NEW r \in Runs, StartCreate(r)
    PROVE  Log!Open(r)
<1>1. NextId # 0
  BY NextIdProps DEF HistInv, OwnInv, TypeInv, TypeOK
<1>2. /\ stage[r] = "idle" /\ sid[r] = 0 /\ stage'[r] = "created" /\ sid'[r] = NextId
      /\ UNCHANGED <<loopPc, seq, batch, fed, probes>>
      /\ \A q \in Runs \ {r} : stage'[q] = stage[q] /\ sid'[q] = sid[q]
  BY DEF StartCreate, tasks, HistInv, OwnInv, TypeInv, TypeOK, StageOf
<1>3. \A q \in Runs \ {r} : Seen(q)' = Seen(q)
  BY <1>2 DEF Seen, LogStatus, LogProduced, LogSettled, SentCount, Stored
<1>4. /\ LogStatus(r) = "new" /\ LogStatus(r)' = "open"
      /\ LogProduced(r)' = LogProduced(r) /\ LogSettled(r)' = LogSettled(r)
      /\ Stored(r)' = Stored(r)
  BY <1>1, <1>2 DEF LogStatus, LogProduced, LogSettled, SentCount, Stored
<1> QED
  BY <1>3, <1>4, SeenIn DEF Log!Open, LogStatus, LogProduced, LogSettled

\* Most steps of a run are its own business.
LEMMA QuietLog ==
    ASSUME HistInv, NEW r \in Runs,
           \/ StartFails(r) \/ StartRegister(r) \/ LoopCheck(r) \/ LoopWake(r)
           \/ ConsumerRecv(r) \/ ConsumerTick(r) \/ ConsumerClosed(r)
           \/ Stop(r) \/ StopJoined(r)
    PROVE  UNCHANGED Log!logVars
<1>1. UNCHANGED <<sid, probes>>
  BY DEF StartFails, StartRegister, LoopCheck, LoopWake, ConsumerRecv, ConsumerTick,
         ConsumerClosed, Stop, StopJoined, tasks, db
<1>2. \A q \in Runs : LogStatus(q)' = LogStatus(q) /\ (stage'[q] = "dead" <=> stage[q] = "dead")
  <2>1. CASE StartFails(r)
    BY <1>1, <2>1 DEF StartFails, LogStatus, HistInv, OwnInv, StageOf, TypeInv, TypeOK
  <2>2. CASE StartRegister(r)
    <3>1. {q \in active : sid[q] = sid[r]} = {}
      BY <2>2 DEF StartRegister, Distinct, StageOf, Running, HistInv, OwnInv, TypeInv, TypeOK
    <3> QED
      BY <1>1, <2>2, <3>1 DEF StartRegister, LogStatus, HistInv, OwnInv, TypeInv, TypeOK
  <2>3. CASE Stop(r)
    BY <1>1, <2>3 DEF Stop, LogStatus, HistInv, OwnInv, StageOf, TypeInv, TypeOK
  <2>4. CASE StopJoined(r)
    BY <1>1, <2>4 DEF StopJoined, LogStatus, HistInv, OwnInv, TypeInv, TypeOK
  <2>5. CASE stage' = stage
    BY <1>1, <2>5 DEF LogStatus
  <2> QED
    BY <2>1, <2>2, <2>3, <2>4, <2>5 DEF LoopCheck, LoopWake, ConsumerRecv, ConsumerTick,
       ConsumerClosed
<1>3. \A q \in Runs : SentCount(q)' = SentCount(q)
  <2>1. CASE LoopCheck(r)
    <3>1. \A q \in Runs \ {r} : loopPc'[q] = loopPc[q] /\ seq'[q] = seq[q]
      BY <2>1 DEF LoopCheck, HistInv, OwnInv, TypeInv, TypeOK
    <3>2. seq[r] \in Nat
      BY RunFacts
    <3>3. /\ loopPc[r] = "check"
          /\ \/ loopPc'[r] = "ended" /\ seq'[r] = seq[r]
             \/ loopPc'[r] = "probe" /\ seq'[r] = seq[r] + 1
      BY <2>1 DEF LoopCheck, HistInv, OwnInv, TypeInv, TypeOK
    <3>4. SentCount(r)' = SentCount(r)
      BY <3>2, <3>3 DEF SentCount
    <3> QED
      BY <3>1, <3>4 DEF SentCount
  <2>2. CASE LoopWake(r)
    BY <2>2 DEF LoopWake, SentCount, HistInv, OwnInv, TypeInv, TypeOK
  <2>3. CASE StartRegister(r)
    <3>1. loopPc[r] # "probe"
      BY <2>3 DEF StartRegister, HistInv, OwnInv, StageOf
    <3> QED
      BY <2>3, <3>1 DEF StartRegister, SentCount, HistInv, OwnInv, TypeInv, TypeOK
  <2>4. CASE UNCHANGED <<loopPc, seq>>
    BY <2>4 DEF SentCount
  <2> QED
    BY <2>1, <2>2, <2>3, <2>4 DEF StartFails, ConsumerRecv, ConsumerTick, ConsumerClosed,
       Stop, StopJoined, tasks
<1>4. \A q \in Runs : fed'[q] - Len(batch'[q]) = fed[q] - Len(batch[q])
  <2>1. CASE ConsumerRecv(r)
    <3>1. /\ fed[r] \in Int /\ Len(batch[r]) \in Nat /\ chan[r] \in Seq(1..MaxProbes)
          /\ batch[r] \in Seq(1..MaxProbes)
      BY RunFacts
    <3>2. /\ fed'[r] = fed[r] + 1 /\ batch'[r] = Append(batch[r], Head(chan[r]))
          /\ chan[r] # <<>>
          /\ \A q \in Runs \ {r} : fed'[q] = fed[q] /\ batch'[q] = batch[q]
      BY <2>1 DEF ConsumerRecv, HistInv, OwnInv, TypeInv, TypeOK
    <3>3. Len(batch'[r]) = Len(batch[r]) + 1
      <4>1. Head(chan[r]) \in 1..MaxProbes
        BY <3>1, <3>2, HeadTailProperties, EmptySeq
      <4> QED
        BY <3>1, <3>2, <4>1, AppendProperties
    <3>4. (fed[r] + 1) - (Len(batch[r]) + 1) = fed[r] - Len(batch[r])
      BY <3>1
    <3>5. fed'[r] - Len(batch'[r]) = fed[r] - Len(batch[r])
      BY <3>2, <3>3, <3>4, Zenon
    <3> QED
      BY <3>2, <3>5
  <2>2. CASE UNCHANGED <<fed, batch>>
    BY <2>2
  <2> QED
    BY <2>1, <2>2 DEF StartFails, StartRegister, LoopCheck, LoopWake, ConsumerTick,
       ConsumerClosed, Stop, StopJoined, tasks
<1>5. \A q \in Runs : Seen(q)' = Seen(q)
  BY <1>1, <1>2, <1>3, <1>4, Zenon DEF Seen, LogProduced, LogSettled, Stored
<1> QED
  BY <1>5, Unseen

\* A probe that goes into the channel is produced.
LEMMA SendLog ==
    ASSUME HistInv, NEW r \in Runs, LoopSend(r)
    PROVE  Log!Produce(r)
<1>1. /\ loopPc[r] = "probe" /\ loopPc'[r] = "wait"
      /\ UNCHANGED <<stage, sid, seq, batch, fed, probes>>
      /\ \A q \in Runs \ {r} : loopPc'[q] = loopPc[q]
  BY DEF LoopSend, db, HistInv, OwnInv, TypeInv, TypeOK
<1>2. \A q \in Runs \ {r} : Seen(q)' = Seen(q)
  BY <1>1 DEF Seen, LogStatus, LogProduced, LogSettled, SentCount, Stored
<1>3. stage[r] \in {"live", "stopping"}
  BY <1>1 DEF HistInv, OwnInv, StageOf
<1>4. /\ LogStatus(r) = "open" /\ LogStatus(r)' = LogStatus(r)
      /\ LogSettled(r)' = LogSettled(r) /\ Stored(r)' = Stored(r)
  BY <1>1, <1>3, OpenRun DEF LogStatus, LogSettled, Stored
<1>5. LogProduced(r)' = LogProduced(r) + 1
  <2>1. seq[r] \in Int
    BY RunFacts
  <2> QED
    BY <1>1, <1>3, <2>1 DEF LogProduced, SentCount
<1> QED
  BY <1>2, <1>4, <1>5, SeenIn DEF Log!Produce, LogStatus, LogProduced, LogSettled

\* A flush settles the probes of the batch, which are the next ones.
LEMMA FlushLog ==
    ASSUME HistInv, NEW r \in Runs, FlushOk(r) \/ FlushFails(r)
    PROVE  Log!Settle(r) \/ UNCHANGED Log!logVars
<1>1. /\ stage[r] \in {"live", "stopping"}
      /\ UNCHANGED <<stage, sid, loopPc, seq, fed>>
      /\ batch'[r] = <<>>
      /\ \A q \in Runs \ {r} : batch'[q] = batch[q]
  <2>1. /\ consPc[r] \in {"flush", "final"}
        /\ UNCHANGED <<stage, sid, loopPc, seq, fed>>
        /\ batch' = [batch EXCEPT ![r] = <<>>]
    BY DEF FlushOk, FlushFails, AfterFlush
  <2>2. stage[r] \in {"live", "stopping"}
    BY <2>1 DEF HistInv, OwnInv, StageOf
  <2> QED
    BY <2>1, <2>2 DEF HistInv, OwnInv, TypeInv, TypeOK
<1>2. \A q \in Runs \ {r} : Stored(q)' = Stored(q)
  BY DEF FlushOk, FlushFails, Stored
<1>3. \A q \in Runs \ {r} : Seen(q)' = Seen(q)
  BY <1>1, <1>2 DEF Seen, LogStatus, LogProduced, LogSettled, SentCount
<1>4. /\ LogStatus(r) = "open" /\ LogProduced(r) = SentCount(r)
      /\ LogSettled(r) = Settled(r) /\ OrderOf(r)
  BY <1>1, OpenRun
<1>5. /\ Entries(batch[r]) = (Settled(r) + 1)..fed[r]
      /\ Settled(r) \in Nat /\ Settled(r) <= fed[r] /\ fed[r] \in Nat
  BY <1>4, BatchEntries, RunFacts
<1>6. fed[r] <= SentCount(r) /\ SentCount(r) \in Int
  BY <1>4, RunFacts DEF OrderOf
<1>7. /\ LogStatus(r)' = LogStatus(r) /\ LogProduced(r)' = LogProduced(r)
      /\ LogSettled(r)' = fed[r]
  <2>1. LogStatus(r)' = LogStatus(r) /\ LogProduced(r)' = LogProduced(r)
    BY <1>1 DEF LogStatus, LogProduced, SentCount
  <2>2. fed[r] - 0 = fed[r] /\ Len(<<>>) = 0
    BY <1>5
  <2>3. Len(batch'[r]) = 0
    BY <1>1, <2>2, Zenon
  <2>4. fed'[r] - Len(batch'[r]) = fed[r]
    BY <1>1, <2>2, <2>3, Zenon
  <2>5. LogSettled(r)' = fed[r]
    BY <1>1, <2>4 DEF LogSettled
  <2> QED
    BY <2>1, <2>5
<1>8. \/ Stored(r)' = Stored(r) \cup (Settled(r) + 1)..fed[r]
      \/ Stored(r)' = Stored(r)
  BY <1>4, <1>5, FlushStores
<1>9. CASE Settled(r) = fed[r]
  <2>1. (Settled(r) + 1)..fed[r] = {}
    BY <1>5, <1>9
  <2>2. Stored(r)' = Stored(r)
    BY <1>8, <2>1
  <2>3. LogSettled(r)' = LogSettled(r)
    BY <1>4, <1>7, <1>9, Zenon
  <2> QED
    BY <1>3, <1>7, <2>2, <2>3, Unseen DEF Seen
<1>10. CASE Settled(r) # fed[r]
  <2>1. fed[r] \in (LogSettled(r) + 1)..LogProduced(r)
    BY <1>4, <1>5, <1>6, <1>10
  <2>2. \/ Stored(r)' = Stored(r) \cup (LogSettled(r) + 1)..fed[r]
        \/ Stored(r)' = Stored(r)
    BY <1>4, <1>8
  <2>3. /\ [q \in Runs |-> LogStatus(q)]' = [q \in Runs |-> LogStatus(q)]
        /\ [q \in Runs |-> LogProduced(q)]' = [q \in Runs |-> LogProduced(q)]
        /\ [q \in Runs |-> LogSettled(q)]'
             = [[q \in Runs |-> LogSettled(q)] EXCEPT ![r] = fed[r]]
    BY <1>3, <1>7, SeenIn
  <2>4. \/ [q \in Runs |-> Stored(q)]' = [q \in Runs |-> Stored(q)]
        \/ [q \in Runs |-> Stored(q)]'
             = [[q \in Runs |-> Stored(q)] EXCEPT
                  ![r] = @ \cup (LogSettled(r) + 1)..fed[r]]
    BY <1>3, <2>2, SeenIn
  <2>5. Log!Settle(r)
    BY <1>4, <2>1, <2>3, <2>4 DEF Log!Settle, LogStatus, LogProduced, LogSettled
  <2> QED
    BY <2>5
<1> QED
  BY <1>9, <1>10

\* When stop() ends, with or without an error, nothing is left to settle.
LEMMA FinishLog ==
    ASSUME HistInv, NEW r \in Runs, StopFinish(r) \/ StopFails(r)
    PROVE  Log!Close(r)
<1>1. /\ stage[r] = "joined" /\ stage'[r] \in {"stopped", "failed"}
      /\ UNCHANGED <<sid, loopPc, seq, batch, fed, probes>>
      /\ \A q \in Runs \ {r} : stage'[q] = stage[q]
  BY DEF StopFinish, StopFails, tasks, db, HistInv, OwnInv, TypeInv, TypeOK
<1>2. \A q \in Runs \ {r} : Seen(q)' = Seen(q)
  BY <1>1 DEF Seen, LogStatus, LogProduced, LogSettled, SentCount, Stored
<1>3. /\ LogStatus(r) = "open" /\ LogProduced(r) = SentCount(r)
      /\ LogSettled(r) = Settled(r) /\ OrderOf(r) /\ sid[r] # 0
  BY <1>1, OpenRun
<1>4. /\ LogStatus(r)' = "closed" /\ LogProduced(r)' = LogProduced(r)
      /\ LogSettled(r)' = LogSettled(r) /\ Stored(r)' = Stored(r)
  BY <1>1, <1>3 DEF LogStatus, LogProduced, LogSettled, SentCount, Stored
<1>5. LogSettled(r) = LogProduced(r)
  <2>1. chan[r] = <<>> /\ batch[r] = <<>>
    BY <1>1 DEF HistInv, DrainOf
  <2>2. fed[r] \in Int /\ Len(chan[r]) = 0 /\ Len(batch[r]) = 0
    BY <2>1, RunFacts
  <2>3. \A f \in Int : f - 0 = f /\ f + 0 = f
    OBVIOUS
  <2>4. Settled(r) = fed[r] /\ fed[r] = SentCount(r)
    BY <1>3, <2>2, <2>3, Zenon DEF Settled, OrderOf
  <2> QED
    BY <1>3, <2>4
<1> QED
  BY <1>2, <1>3, <1>4, <1>5, SeenIn DEF Log!Close, LogStatus, LogProduced, LogSettled

\* Of the runs that had the deleted row's id one at most has probes.
LEMMA DeleteLog ==
    ASSUME HistInv, DeleteLive = FALSE, NEW i \in rows, Delete(i)
    PROVE  (\E r \in Runs : Log!Forget(r)) \/ UNCHANGED Log!logVars
<1>1. /\ UNCHANGED <<stage, sid, loopPc, seq, batch, fed>>
      /\ probes' = {p \in probes : p.id # i}
  BY DEF Delete, tasks
<1>2. \A q \in Runs : /\ LogStatus(q)' = LogStatus(q) /\ LogProduced(q)' = LogProduced(q)
                      /\ LogSettled(q)' = LogSettled(q)
  BY <1>1 DEF LogStatus, LogProduced, LogSettled, SentCount
<1>3. \A p \in probes : p.id = sid[p.run] /\ p.run \in Runs /\ p.run \notin forgotten
  BY DEF HistInv, OwnInv, ProbesBelongToSession, TypeInv, TypeOK
<1>4. CASE \E r \in Runs : sid[r] = i /\ r \notin forgotten
  <2>1. PICK r \in Runs : sid[r] = i /\ r \notin forgotten
    BY <1>4
  <2>2. \A q \in Runs \ {r} : sid[q] # i \/ q \in forgotten
    <3>1. i # 0
      BY DEF HistInv, OwnInv, TypeInv, TypeOK
    <3> QED
      BY <2>1, <3>1 DEF HistInv, OwnInv, Distinct
  <2>3. \A q \in Runs \ {r} : Stored(q)' = Stored(q)
    <3>1. \A p \in probes : p.run # r => p.id # i
      BY <1>3, <2>2
    <3> QED
      BY <1>1, <3>1 DEF Stored
  <2>4. Stored(r)' = {}
    BY <1>1, <1>3, <2>1 DEF Stored
  <2>5. LogStatus(r) \in {"closed", "lost"}
    <3>1. sid[r] # 0 /\ ~(stage[r] = "created" \/ Running(r))
      BY <2>1 DEF Delete, InUse, HistInv, OwnInv, TypeInv, TypeOK
    <3>2. stage[r] # "idle"
      BY <3>1 DEF HistInv, OwnInv, StageOf
    <3> QED
      BY <3>1, <3>2 DEF LogStatus, Running, HistInv, OwnInv, TypeInv, TypeOK
  <2>6. /\ [q \in Runs |-> LogStatus(q)]' = [q \in Runs |-> LogStatus(q)]
        /\ [q \in Runs |-> LogProduced(q)]' = [q \in Runs |-> LogProduced(q)]
        /\ [q \in Runs |-> LogSettled(q)]' = [q \in Runs |-> LogSettled(q)]
        /\ [q \in Runs |-> Stored(q)]' = [[q \in Runs |-> Stored(q)] EXCEPT ![r] = {}]
    <3>1. \A q \in Runs \ {r} : Seen(q)' = Seen(q)
      BY <1>2, <2>3 DEF Seen
    <3> QED
      BY <1>2, <2>4, <3>1, SeenIn
  <2>7. Log!Forget(r)
    BY <2>5, <2>6 DEF Log!Forget, LogStatus, LogProduced, LogSettled
  <2> QED
    BY <2>7
<1>5. CASE ~ \E r \in Runs : sid[r] = i /\ r \notin forgotten
  <2>1. \A p \in probes : p.id # i
    BY <1>3, <1>5
  <2>2. \A q \in Runs : Stored(q)' = Stored(q)
    BY <1>1, <2>1 DEF Stored
  <2> QED
    BY <1>2, <2>2, Unseen DEF Seen
<1> QED
  BY <1>4, <1>5

\* A crash loses the sessions that are open, and touches no other.
LEMMA CrashLog ==
    ASSUME HistInv, Crash
    PROVE  Log!Lose
<1>1. /\ UNCHANGED <<sid, seq, fed, probes>>
      /\ \A q \in Runs :
           /\ stage'[q] = IF stage[q] = "created" \/ Running(q) THEN "dead" ELSE stage[q]
           /\ loopPc'[q] = "off" /\ batch'[q] = <<>>
  BY DEF Crash, db
<1>2. ASSUME NEW q \in Runs
      PROVE  /\ LogStatus(q)' = IF LogStatus(q) = "open" THEN "lost" ELSE LogStatus(q)
             /\ LogProduced(q)' = IF LogStatus(q) = "open" THEN 0 ELSE LogProduced(q)
             /\ LogSettled(q)' = IF LogStatus(q) = "open" THEN 0 ELSE LogSettled(q)
  <2>1. CASE stage[q] = "created" \/ Running(q)
    <3>1. sid[q] # 0 /\ stage'[q] = "dead" /\ stage[q] \notin {"stopped", "failed", "dead"}
      BY <1>1, <2>1 DEF Running, HistInv, OwnInv, StageOf
    <3> QED
      BY <1>1, <3>1 DEF LogStatus, LogProduced, LogSettled
  <2>2. CASE stage[q] = "dead"
    <3>1. stage'[q] = "dead" /\ LogStatus(q) # "open"
      BY <1>1, <2>2 DEF LogStatus
    <3> QED
      BY <1>1, <2>2, <3>1 DEF LogStatus, LogProduced, LogSettled
  <2>3. CASE stage[q] \in {"idle", "stopped", "failed"}
    <3>1. /\ stage'[q] = stage[q] /\ batch[q] = <<>> /\ loopPc[q] \in {"off", "ended"}
          /\ stage[q] = "idle" => sid[q] = 0
      BY <1>1, <2>3 DEF Running, HistInv, DrainOf, OwnInv, StageOf
    <3>2. LogStatus(q) # "open" /\ SentCount(q)' = SentCount(q)
      BY <1>1, <2>3, <3>1 DEF LogStatus, SentCount
    <3>3. batch'[q] = batch[q]
      BY <1>1, <3>1
    <3> QED
      BY <1>1, <2>3, <3>1, <3>2, <3>3 DEF LogStatus, LogProduced, LogSettled
  <2> QED
    BY <2>1, <2>2, <2>3 DEF HistInv, OwnInv, TypeInv, TypeOK, Running
<1>3. [q \in Runs |-> Stored(q)]' = [q \in Runs |-> Stored(q)]
  BY <1>1 DEF Stored
<1> QED
  BY <1>2, <1>3 DEF Log!Lose, LogStatus, LogProduced, LogSettled

-----------------------------------------------------------------------------
(* The refinement.                                                         *)

\* No session yet: the log is empty.
LEMMA InitLog == Init => Log!LogInit
<1> SUFFICES ASSUME Init
             PROVE  Log!LogInit
  OBVIOUS
<1>1. ASSUME NEW q \in Runs
      PROVE  /\ LogStatus(q) = "new" /\ LogProduced(q) = 0
             /\ LogSettled(q) = 0 /\ Stored(q) = {}
  <2>1. /\ sid[q] = 0 /\ stage[q] = "idle" /\ loopPc[q] = "off" /\ seq[q] = 0
        /\ batch[q] = <<>> /\ fed[q] = 0 /\ probes = {}
    BY DEF Init
  <2>2. 0 - 0 = 0 /\ Len(<<>>) = 0
    OBVIOUS
  <2>3. fed[q] - Len(batch[q]) = 0
    BY <2>1, <2>2, Zenon
  <2> QED
    BY <2>1, <2>3 DEF LogStatus, LogProduced, LogSettled, SentCount, Stored
<1> QED
  BY <1>1 DEF Log!LogInit, LogStatus, LogProduced, LogSettled

\* Every step is a step of the log or invisible to it.
LEMMA NextLog ==
    DeleteLive = FALSE /\ HistInv /\ [Next]_vars => [Log!LogNext]_(Log!logVars)
<1> SUFFICES ASSUME DeleteLive = FALSE, HistInv, [Next]_vars
             PROVE  Log!LogNext \/ UNCHANGED Log!logVars
  OBVIOUS
<1>1. CASE UNCHANGED vars
  <2>1. \A q \in Runs : Seen(q)' = Seen(q)
    BY <1>1 DEF vars, tasks, db, Seen, LogStatus, LogProduced, LogSettled, SentCount, Stored
  <2> QED
    BY <2>1, Unseen
<1>2. ASSUME NEW r \in Runs,
             \/ StartCreate(r) \/ StartFails(r) \/ StartRegister(r)
             \/ LoopStep(r) \/ ConsumerStep(r) \/ ConsumerTick(r)
             \/ Stop(r) \/ StopStep(r)
      PROVE  Log!LogNext \/ UNCHANGED Log!logVars
  <2>1. CASE StartCreate(r)
    BY <2>1, CreateLog DEF Log!LogNext
  <2>2. CASE LoopSend(r)
    BY <2>2, SendLog DEF Log!LogNext
  <2>3. CASE FlushOk(r) \/ FlushFails(r)
    BY <2>3, FlushLog DEF Log!LogNext
  <2>4. CASE StopFinish(r) \/ StopFails(r)
    BY <2>4, FinishLog DEF Log!LogNext
  <2> QED
    BY <1>2, <2>1, <2>2, <2>3, <2>4, QuietLog DEF LoopStep, ConsumerStep, StopStep
<1>3. CASE \E i \in rows : Delete(i)
  BY <1>3, DeleteLog DEF Log!LogNext
<1>4. CASE Crash
  BY <1>4, CrashLog DEF Log!LogNext
<1> QED
  BY <1>1, <1>2, <1>3, <1>4 DEF Next

\* The whole session layer - probe loop, channel, batches, stop(), deletion and
\* crash - implements the log of SessionLog, whatever the number of sessions
\* and the sizes of channel and batch: a group of probes is stored as a whole
\* or not at all, in order, and a session that is over never gains a probe.
THEOREM ImplementsLogHolds ==
    ASSUME DeleteLive = FALSE
    PROVE  Spec => ImplementsLog
<1>1. HistInv /\ [Next]_vars => [Log!LogNext]_(Log!logVars)
  BY NextLog
<1> QED
  BY <1>1, InitLog, HistInvariance, PTL DEF Spec, ImplementsLog, Log!LogSpec
=============================================================================
