--------------------------- MODULE TraceRunProofs ---------------------------
(***************************************************************************)
(* Proofs about TraceRun, for any number of traces, addresses, hops,       *)
(* permits and failures: the slot of TraceManager first, then the history  *)
(* that the traces write.                                                  *)
(*                                                                         *)
(* SlotInv says who holds the slot and the mutex; Ownership adds that two  *)
(* working traces never share a row id.  The second needs that only traces *)
(* which are done are deleted: clear_active identifies a trace by its id.  *)
(***************************************************************************)
EXTENDS TraceRun, TLAPS, WellFoundedInduction, FiniteSetTheorems

RowsBounded == \E n \in Nat : \A i \in rows : i <= n

Labels == {"idle", "rejected", "failed", "starting", "loop", "pushing",
           "permit", "persist", "clear", "ended", "broken"}

SlotTypes ==
    /\ slot \in Runs \cup {NoRun} /\ mutex \in Runs \cup {NoRun}
    /\ pc \in [Runs -> Labels]
    /\ tid \in [Runs -> Nat]
    /\ watch \in [Runs -> {"live", "stop", "dropped"}]
    /\ rows \subseteq Nat \ {0} /\ RowsBounded

\* Only start() holds the mutex over an await, and then the slot is empty.
MutexGuards ==
    /\ \A r \in Runs : pc[r] = "starting" => mutex = r
    /\ mutex # NoRun => slot = NoRun

SlotInv == SlotTypes /\ MutexGuards /\ SlotHeldByLiveRun

-----------------------------------------------------------------------------
(* The next rowid.                                                         *)

\* A bounded set of row ids has a largest one (0 when it is empty).
LEMMA MaxRowExists ==
    ASSUME rows \subseteq Nat \ {0}, RowsBounded
    PROVE  \E m \in rows \cup {0} : \A i \in rows : i <= m
<1> DEFINE bounds == {n \in Nat : \A i \in rows : i <= n}
<1>1. bounds # {} /\ bounds \subseteq Nat
  BY DEF RowsBounded
<1>2. IsWellFoundedOn(OpToRel(<, Nat), Nat)
  BY NatLessThanWellFounded
<1>3. PICK m \in bounds : \A n \in bounds : ~(<<n, m>> \in OpToRel(<, Nat))
  <2> HIDE DEF bounds
  <2>1. IsWellFoundedOn(OpToRel(<, Nat), bounds)
    BY <1>1, <1>2, IsWellFoundedOnSubset, Zenon
  <2> QED
    BY <1>1, <2>1, WFMin, Zenon
<1>4. \A n \in bounds : ~(n < m)
  BY <1>1, <1>3 DEF OpToRel
<1>5. m \in rows \cup {0}
  <2> SUFFICES ASSUME m \notin rows, m # 0
               PROVE  FALSE
    OBVIOUS
  <2>1. m - 1 \in Nat /\ \A i \in rows : i <= m - 1
    OBVIOUS
  <2> QED
    BY <1>4, <2>1
<1> QED
  BY <1>5

\* The rowid of a new row is positive and above every row.
LEMMA NextIdProps ==
    ASSUME rows \subseteq Nat \ {0}, RowsBounded
    PROVE  NextId \in Nat \ {0} /\ \A i \in rows : i < NextId
<1> DEFINE m == CHOOSE m \in rows \cup {0} : \A i \in rows : i <= m
<1>1. m \in rows \cup {0} /\ \A i \in rows : i <= m
  BY MaxRowExists
<1>2. NextId = 1 + m
  BY DEF NextId
<1> HIDE DEF m
<1> QED
  BY <1>1, <1>2

-----------------------------------------------------------------------------
(* The slot.                                                               *)

\* Steps of run_trace and of lookups that only move one trace's control.
RunControl(r) ==
    \/ Cancelled(r) \/ StreamEnds(r) \/ StreamFails(r)
    \/ HopSeen(r) \/ HopSilent(r) \/ HopPushed(r) \/ SpawnLookup(r)
    \/ Persist(r) \/ PersistFails(r)

\* What those steps leave alone, and where they lead.
LEMMA RunControlEffect ==
    ASSUME SlotTypes, NEW r \in Runs, RunControl(r)
    PROVE  /\ UNCHANGED <<slot, mutex, tid, watch, rows>>
           /\ Working(r)
           /\ \E l \in {"loop", "pushing", "permit", "persist", "clear", "broken"} :
                /\ pc' = [pc EXCEPT ![r] = l]
                /\ l \in {"loop", "pushing", "permit"} => Looping(r)
<1> USE DEF SlotTypes, Labels, Looping, Working, manager, run, lookups, tables, rows, Goto
<1>1. CASE Cancelled(r) \/ StreamEnds(r) \/ StreamFails(r)
  BY <1>1 DEF Cancelled, StreamEnds, StreamFails, Leave
<1>2. CASE HopSeen(r)
  BY <1>2 DEF HopSeen
<1>3. CASE HopSilent(r)
  BY <1>3 DEF HopSilent
<1>4. CASE HopPushed(r)
  BY <1>4 DEF HopPushed
<1>5. CASE SpawnLookup(r)
  BY <1>5 DEF SpawnLookup
<1>6. CASE Persist(r)
  <2>1. DOMAIN status' = DOMAIN status
    BY <1>6 DEF Persist
  <2> QED
    BY <1>6, <2>1 DEF Persist
<1>7. CASE PersistFails(r)
  BY <1>7 DEF PersistFails
<1> QED
  BY <1>1, <1>2, <1>3, <1>4, <1>5, <1>6, <1>7 DEF RunControl

\* What lookups and a returning stop() leave alone.
LEMMA OtherEffect ==
    ASSUME NEW r \in Runs, NEW a \in Addresses,
           StopReturn(r) \/ LookupStep(r, a)
    PROVE  UNCHANGED <<slot, mutex, pc, tid, watch, rows>>
  BY DEF StopReturn, LookupStep, LookupReturns, LookupStores, manager, run, lookups,
         tables, rows

\* Every step is one of the slot's, one of a trace's control, or none of them.
LEMMA StepCases ==
    ASSUME [Next]_vars
    PROVE  \/ \E r \in Runs : StartLock(r) \/ StartFails(r) \/ StartSpawn(r)
           \/ \E r \in Runs : StopTake(r) \/ Clear(r)
           \/ \E r \in Runs : RunControl(r)
           \/ \E i \in rows : Delete(i)
           \/ UNCHANGED <<slot, mutex, pc, tid, watch, rows>>
<1>1. CASE UNCHANGED vars
  BY <1>1 DEF vars, manager, run, lookups, tables, rows
<1>2. CASE Next
  BY <1>2, OtherEffect DEF Next, RunStep, RunControl, StopReturn, manager, run,
     lookups, tables, rows
<1> QED
  BY <1>1, <1>2

LEMMA InitSlotInv == Init => SlotInv
<1> SUFFICES ASSUME Init PROVE SlotInv
  OBVIOUS
<1>1. rows = {}
  BY DEF Init, rows
<1>2. RowsBounded
  BY <1>1 DEF RowsBounded
<1>3. SlotTypes
  BY <1>1, <1>2 DEF Init, SlotTypes, Labels
<1>4. MutexGuards /\ SlotHeldByLiveRun
  BY TraceAssumption DEF Init, MutexGuards, SlotHeldByLiveRun
<1> QED
  BY <1>3, <1>4 DEF SlotInv

LEMMA NextSlotInv ==
    ASSUME SlotInv, [Next]_vars
    PROVE  SlotInv'
<1> USE TraceAssumption DEF SlotInv
<1>1. CASE UNCHANGED <<slot, mutex, pc, tid, watch, rows>>
  BY <1>1 DEF SlotTypes, MutexGuards, SlotHeldByLiveRun, Working, Looping, RowsBounded, rows
<1>2. ASSUME NEW r \in Runs, StartLock(r)
      PROVE  SlotInv'
  BY <1>2 DEF StartLock, Goto, tables, SlotTypes, Labels, MutexGuards,
     SlotHeldByLiveRun, Working, Looping, RowsBounded, rows
<1>3. ASSUME NEW r \in Runs, StartFails(r)
      PROVE  SlotInv'
  BY <1>3 DEF StartFails, Goto, tables, SlotTypes, Labels, MutexGuards,
     SlotHeldByLiveRun, Working, Looping, RowsBounded, rows
<1>4. ASSUME NEW r \in Runs, StartSpawn(r)
      PROVE  SlotInv'
  <2>1. NextId \in Nat \ {0} /\ \A i \in rows : i < NextId
    BY NextIdProps DEF SlotTypes
  <2>2. rows' = rows \cup {NextId}
    BY <1>4 DEF StartSpawn, rows
  <2>3. RowsBounded'
    <3>1. \A i \in rows' : i <= NextId
      BY <2>1, <2>2 DEF SlotTypes
    <3> QED
      BY <2>1, <3>1 DEF RowsBounded
  <2>4. SlotTypes'
    BY <1>4, <2>1, <2>2, <2>3 DEF StartSpawn, Goto, SlotTypes, Labels
  <2>5. MutexGuards' /\ SlotHeldByLiveRun'
    BY <1>4 DEF StartSpawn, Goto, SlotTypes, MutexGuards, SlotHeldByLiveRun, Working, Looping
  <2> QED
    BY <2>4, <2>5
<1>5. ASSUME NEW r \in Runs, StopTake(r)
      PROVE  SlotInv'
  BY <1>5 DEF StopTake, tables, SlotTypes, Labels, MutexGuards,
     SlotHeldByLiveRun, Working, Looping, RowsBounded, rows
<1>6. ASSUME NEW r \in Runs, Clear(r)
      PROVE  SlotInv'
  BY <1>6 DEF Clear, Goto, tables, SlotTypes, Labels, MutexGuards,
     SlotHeldByLiveRun, Working, Looping, RowsBounded, rows
<1>7. ASSUME NEW r \in Runs, RunControl(r)
      PROVE  SlotInv'
  <2>1. PICK l \in {"loop", "pushing", "permit", "persist", "clear", "broken"} :
          pc' = [pc EXCEPT ![r] = l]
    BY <1>7, RunControlEffect
  <2>2. UNCHANGED <<slot, mutex, tid, watch, rows>> /\ Working(r)
    BY <1>7, RunControlEffect
  <2>3. SlotTypes'
    BY <2>1, <2>2 DEF SlotTypes, Labels, RowsBounded
  <2>4. MutexGuards'
    BY <2>1, <2>2 DEF SlotTypes, MutexGuards
  <2>5. SlotHeldByLiveRun'
    BY <2>1, <2>2 DEF SlotTypes, SlotHeldByLiveRun, Working, Looping
  <2> QED
    BY <2>3, <2>4, <2>5
<1>8. ASSUME NEW i \in rows, Delete(i)
      PROVE  SlotInv'
  <2>1. rows' = rows \ {i}
    BY <1>8 DEF Delete, rows
  <2> QED
    BY <1>8, <2>1 DEF Delete, manager, run, SlotTypes, MutexGuards,
       SlotHeldByLiveRun, Working, Looping, RowsBounded
<1> QED
  BY <1>1, <1>2, <1>3, <1>4, <1>5, <1>6, <1>7, <1>8, StepCases

\* The slot is always consistent with the traces, also when traces are deleted
\* while they run.
LEMMA SlotInvHolds == Spec => []SlotInv
  BY InitSlotInv, NextSlotInv, PTL DEF Spec

\* Only a trace that works, or whose result could not be saved, is in the slot:
\* every other way a trace ends frees the slot for the next start().
THEOREM SlotHeldByLiveRunHolds == Spec => []SlotHeldByLiveRun
<1>1. SlotInv => SlotHeldByLiveRun
  BY DEF SlotInv
<1> QED
  BY <1>1, SlotInvHolds, PTL

-----------------------------------------------------------------------------
(* Stopping.                                                               *)

\* A working trace has its row, and no other working trace has the same.
Ownership ==
    /\ \A r \in Runs : Working(r) => tid[r] \in rows
    /\ \A r, q \in Runs : Working(r) /\ Working(q) /\ tid[r] = tid[q] => r = q

StopInv == Ownership /\ Stoppable

LEMMA InitStopInv == Init => StopInv
  BY DEF Init, StopInv, Ownership, Stoppable, Working, Looping

LEMMA NextStopInv ==
    ASSUME DeleteBusy = FALSE, SlotInv, StopInv, [Next]_vars
    PROVE  StopInv'
<1> USE TraceAssumption DEF StopInv
<1> SlotTypes /\ MutexGuards /\ SlotHeldByLiveRun
  BY DEF SlotInv
<1>1. CASE UNCHANGED <<slot, mutex, pc, tid, watch, rows>>
  BY <1>1 DEF Ownership, Stoppable, Working, Looping, rows
<1>2. ASSUME NEW r \in Runs, StartLock(r) \/ StartFails(r)
      PROVE  StopInv'
  BY <1>2 DEF StartLock, StartFails, Goto, tables, SlotTypes, Ownership, Stoppable,
     Working, Looping, rows
<1>3. ASSUME NEW r \in Runs, StartSpawn(r)
      PROVE  StopInv'
  <2>1. NextId \in Nat \ {0} /\ \A i \in rows : i < NextId
    BY NextIdProps DEF SlotTypes
  <2>2. rows' = rows \cup {NextId}
    BY <1>3 DEF StartSpawn, rows
  <2>3. /\ tid' = [tid EXCEPT ![r] = NextId] /\ pc' = [pc EXCEPT ![r] = "loop"]
        /\ slot' = r /\ watch' = watch /\ slot = NoRun
    BY <1>3 DEF StartSpawn, Goto, MutexGuards
  <2>4. \A q \in Runs : q # r => /\ Working(q)' <=> Working(q)
                                 /\ Looping(q)' <=> Looping(q)
                                 /\ tid'[q] = tid[q]
    BY <2>3 DEF Working, Looping, SlotTypes
  <2>5. tid'[r] = NextId
    BY <2>3 DEF SlotTypes
  <2>6. \A q \in Runs : q # r /\ Working(q)' => tid'[q] \in rows /\ tid'[q] # NextId
    BY <2>1, <2>4 DEF Ownership, SlotTypes
  <2>7. Ownership'
    <3>1. \A q \in Runs : Working(q)' => tid'[q] \in rows'
      BY <2>2, <2>5, <2>6
    <3>2. \A p, q \in Runs : Working(p)' /\ Working(q)' /\ tid'[p] = tid'[q] => p = q
      BY <2>4, <2>5, <2>6 DEF Ownership
    <3> QED
      BY <3>1, <3>2 DEF Ownership, Working, Looping
  <2>8. Stoppable'
    BY <2>3, <2>4 DEF Stoppable
  <2> QED
    BY <2>7, <2>8
<1>4. ASSUME NEW r \in Runs, StopTake(r)
      PROVE  StopInv'
  BY <1>4 DEF StopTake, tables, SlotTypes, Ownership, Stoppable, Working, Looping, rows
<1>5. ASSUME NEW r \in Runs, Clear(r)
      PROVE  StopInv'
  <2>1. Working(r)
    BY <1>5 DEF Clear, Working
  <2>2. slot' # slot => ~Looping(slot) /\ watch' = [watch EXCEPT ![slot] = "dropped"]
    <3>1. CASE slot # NoRun /\ tid[slot] = tid[r]
      BY <1>5, <2>1, <3>1 DEF Clear, SlotTypes, Ownership, Working, Looping
    <3>2. CASE ~(slot # NoRun /\ tid[slot] = tid[r])
      BY <1>5, <3>2 DEF Clear
    <3> QED
      BY <3>1, <3>2
  <2>3. slot' = slot => watch' = watch
    BY <1>5 DEF Clear, SlotTypes
  <2>4. \A q \in Runs : Looping(q)' => Looping(q) /\ (slot' # slot => q # slot)
    BY <1>5, <2>2 DEF Clear, Goto, SlotTypes, Looping
  <2>5. Stoppable'
    BY <2>2, <2>3, <2>4 DEF Stoppable, SlotTypes
  <2>6. Ownership'
    BY <1>5 DEF Clear, Goto, tables, SlotTypes, Ownership, Working, Looping, rows
  <2> QED
    BY <2>5, <2>6
<1>6. ASSUME NEW r \in Runs, RunControl(r)
      PROVE  StopInv'
  BY <1>6, RunControlEffect DEF SlotTypes, Ownership, Stoppable, Working, Looping
<1>7. ASSUME NEW i \in rows, Delete(i)
      PROVE  StopInv'
  <2>1. rows' = rows \ {i} /\ UNCHANGED <<pc, tid, watch, slot>>
    BY <1>7 DEF Delete, rows, manager, run
  <2>2. \A r \in Runs : Working(r) => tid[r] # i
    BY <1>7 DEF Delete, Busy
  <2> QED
    BY <2>1, <2>2 DEF Ownership, Stoppable, Working, Looping
<1> QED
  BY <1>1, <1>2, <1>3, <1>4, <1>5, <1>6, <1>7, StepCases

\* As long as only traces that are done are deleted, a trace whose loop runs is
\* the one stop() would find, or has been told to stop: traces that overlap
\* after a stop() never clear each other's slot.
THEOREM StoppableHolds ==
    ASSUME DeleteBusy = FALSE
    PROVE  Spec => []Stoppable
<1>1. SlotInv /\ StopInv /\ [Next]_vars => StopInv'
  BY NextStopInv
<1>2. StopInv => Stoppable
  BY DEF StopInv
<1> QED
  BY InitStopInv, SlotInvHolds, <1>1, <1>2, PTL DEF Spec

-----------------------------------------------------------------------------
(***************************************************************************)
(* The history: every table and every task keeps its type and its bounds,  *)
(* a finished trace has all of its hops, a hostname goes to hops of its    *)
(* address only, and the whole implements RunHistory.                      *)
(*                                                                         *)
(* The types hold whatever is deleted when.  The rest needs that only      *)
(* traces which are done are deleted (DeleteBusy = FALSE): otherwise a     *)
(* row id is used again while the trace that had it still writes.          *)
(***************************************************************************)

Names == Addresses \cup {NoAddr}

LookupStates == {"none", "wanted", "running", "storing", "done"}

\* The parts of TypeOK that SlotTypes leaves open.
TaskTypes ==
    /\ stopper \in [Runs -> {"none", "joining", "ok", "error"}]
    /\ arrival \in [Runs -> Names]
    /\ outcome \in [Runs -> Verdicts \cup {"none"}]
    /\ dbErrors \in 0..MaxDbErrors

HopTypes ==
    /\ seen \in [Runs -> [Addresses -> SUBSET (1..MaxHops)]]
    /\ hops \in [Runs -> Seq(Hop)] /\ snapshot \in [Runs -> Seq(Hop)]
    /\ \A r \in Runs : Len(hops[r]) <= MaxHops /\ Len(snapshot[r]) <= MaxHops

LookupTypes ==
    /\ lookup \in [Runs -> [Addresses -> LookupStates]]
    /\ todo \in [Runs -> [Addresses -> SUBSET (1..MaxHops)]]
    /\ named \in [Runs -> [Addresses -> Names]]

PermitsKept == \A r \in Runs : Cardinality(Holding(r)) <= Permits

TableTypes ==
    /\ \A i \in rows : status[i] \in Verdicts \cup {"running"}
    /\ hopRows \subseteq [id : rows, run : Runs, hop : 1..MaxHops, addr : Names, name : Names]
    /\ forgotten \subseteq Runs

\* What the steps of run_trace hand on: the hop being handled has room, the
\* hop that waits for a permit has its lookup waiting, and there is a verdict
\* to save.
Handover ==
    \A r \in Runs :
        /\ pc[r] = "pushing" => Len(hops[r]) < MaxHops
        /\ pc[r] \in {"pushing", "permit"} => arrival[r] \in Addresses
        /\ pc[r] = "persist" => outcome[r] \in Verdicts

TypeInv ==
    /\ SlotTypes /\ TaskTypes /\ HopTypes /\ LookupTypes /\ PermitsKept
    /\ TableTypes /\ Handover

-----------------------------------------------------------------------------
(* Hops.                                                                   *)

\* The hops of a trace as the indices they have.
LEMMA HopFacts ==
    ASSUME HopTypes, NEW r \in Runs
    PROVE  /\ hops[r] \in Seq(Hop) /\ Len(hops[r]) \in Nat
           /\ DOMAIN hops[r] = 1..Len(hops[r])
           /\ \A n \in DOMAIN hops[r] : hops[r][n] \in Hop /\ n \in 1..MaxHops
           /\ snapshot[r] \in Seq(Hop) /\ Len(snapshot[r]) \in Nat
           /\ DOMAIN snapshot[r] = 1..Len(snapshot[r])
           /\ \A n \in DOMAIN snapshot[r] : snapshot[r][n] \in Hop /\ n \in 1..MaxHops
<1>1. hops[r] \in Seq(Hop) /\ snapshot[r] \in Seq(Hop)
  BY DEF HopTypes
<1>2. /\ Len(hops[r]) \in Nat /\ DOMAIN hops[r] = 1..Len(hops[r])
      /\ Len(snapshot[r]) \in Nat /\ DOMAIN snapshot[r] = 1..Len(snapshot[r])
  BY <1>1
<1>3. \A n \in 1..Len(hops[r]) : hops[r][n] \in Hop
  BY <1>1
<1>4. \A n \in 1..Len(snapshot[r]) : snapshot[r][n] \in Hop
  BY <1>1
<1>5. Len(hops[r]) <= MaxHops /\ Len(snapshot[r]) <= MaxHops /\ MaxHops \in Nat
  BY TraceAssumption DEF HopTypes
<1> QED
  BY <1>1, <1>2, <1>3, <1>4, <1>5

\* A hop more.
LEMMA AppendHop ==
    ASSUME NEW s \in Seq(Hop), NEW h \in Hop
    PROVE  /\ Append(s, h) \in Seq(Hop) /\ Len(Append(s, h)) = Len(s) + 1
           /\ DOMAIN Append(s, h) = 1..(Len(s) + 1)
           /\ \A n \in 1..Len(s) : Append(s, h)[n] = s[n]
           /\ Append(s, h)[Len(s) + 1] = h
  OBVIOUS

\* The hops with a hostname at some of them.
Renamed(s, mine, name) ==
    [n \in DOMAIN s |-> IF n \in mine THEN [s[n] EXCEPT !.name = name] ELSE s[n]]

\* They are as many, at the same addresses.
LEMMA NameHops ==
    ASSUME NEW s \in Seq(Hop), NEW mine, NEW name \in Names
    PROVE  /\ Renamed(s, mine, name) \in Seq(Hop)
           /\ Len(Renamed(s, mine, name)) = Len(s)
           /\ DOMAIN Renamed(s, mine, name) = DOMAIN s
           /\ \A n \in DOMAIN s : Renamed(s, mine, name)[n].addr = s[n].addr
           /\ \A n \in DOMAIN s : n \in mine =>
                Renamed(s, mine, name)[n] = [addr |-> s[n].addr, name |-> name]
           /\ \A n \in DOMAIN s : n \notin mine => Renamed(s, mine, name)[n] = s[n]
<1> DEFINE t == Renamed(s, mine, name)
<1>0. t = [n \in DOMAIN s |-> IF n \in mine THEN [s[n] EXCEPT !.name = name] ELSE s[n]]
  BY DEF Renamed
<1> HIDE DEF t
<1>1. DOMAIN s = 1..Len(s) /\ Len(s) \in Nat /\ DOMAIN t = 1..Len(s)
  BY <1>0
<1>2. \A n \in 1..Len(s) : s[n] \in Hop
  OBVIOUS
<1>3. \A n \in 1..Len(s) : n \in mine => t[n] = [addr |-> s[n].addr, name |-> name]
  BY <1>0, <1>1, <1>2 DEF Hop
<1>4. \A n \in 1..Len(s) : n \notin mine => t[n] = s[n]
  BY <1>0, <1>1
<1>5. \A n \in 1..Len(s) : t[n] \in Hop /\ t[n].addr = s[n].addr
  <2> SUFFICES ASSUME NEW n \in 1..Len(s)
               PROVE  t[n] \in Hop /\ t[n].addr = s[n].addr
    OBVIOUS
  <2>1. s[n] \in Hop /\ s[n].addr \in Names
    BY <1>2 DEF Hop, Names
  <2>2. CASE n \in mine
    <3>1. [addr |-> s[n].addr, name |-> name] \in Hop
      BY <2>1 DEF Hop, Names
    <3>2. t[n] = [addr |-> s[n].addr, name |-> name]
      BY <1>3, <2>2
    <3> HIDE DEF Hop
    <3> QED
      BY <3>1, <3>2
  <2>3. CASE n \notin mine
    BY <1>4, <2>1, <2>3
  <2> QED
    BY <2>2, <2>3
<1>6. t \in [1..Len(s) -> Hop]
  BY <1>0, <1>1, <1>5
<1>7. t \in Seq(Hop) /\ Len(t) = Len(s)
  <2> HIDE DEF Hop
  <2>1. \A S, f : \A n \in Nat : f \in [1..n -> S] => f \in Seq(S) /\ Len(f) = n
    OBVIOUS
  <2> QED
    BY <1>1, <1>6, <2>1, Zenon
<1> QED
  BY <1>1, <1>3, <1>4, <1>5, <1>7 DEF t

\* The hops that the lookup of a gives its answer to.
Mine(r, a) ==
    {n \in seen[r][a] : n <= Len(hops[r]) /\ hops[r][n] = [addr |-> a, name |-> NoAddr]}

\* A lookup that returns names the unnamed hops of its address, and no other.
LEMMA ReturnEffect ==
    ASSUME HopTypes, NEW r \in Runs, NEW a \in Addresses, LookupReturns(r, a)
    PROVE  /\ hops' \in [Runs -> Seq(Hop)] /\ \A q \in Runs \ {r} : hops'[q] = hops[q]
           /\ Len(hops'[r]) = Len(hops[r]) /\ DOMAIN hops'[r] = DOMAIN hops[r]
           /\ \A n \in DOMAIN hops[r] :
                /\ hops'[r][n].addr = hops[r][n].addr
                /\ n \notin Mine(r, a) => hops'[r][n] = hops[r][n]
           /\ todo' = [todo EXCEPT ![r][a] = Mine(r, a)]
           /\ lookup' = [lookup EXCEPT ![r][a] = IF Mine(r, a) = {} THEN "done" ELSE "storing"]
           /\ \E name \in {a, NoAddr} :
                /\ named' = [named EXCEPT ![r][a] = IF Mine(r, a) = {} THEN NoAddr ELSE name]
                /\ \A n \in DOMAIN hops[r] : n \in Mine(r, a) =>
                     hops'[r][n] = [addr |-> a, name |-> name]
<1>1. PICK name \in {a, NoAddr} :
        /\ hops' = [hops EXCEPT ![r] = Renamed(hops[r], Mine(r, a), name)]
        /\ named' = [named EXCEPT ![r][a] = IF Mine(r, a) = {} THEN NoAddr ELSE name]
        /\ todo' = [todo EXCEPT ![r][a] = Mine(r, a)]
        /\ lookup' = [lookup EXCEPT ![r][a] = IF Mine(r, a) = {} THEN "done" ELSE "storing"]
  BY DEF LookupReturns, Mine, Renamed, HopTypes
<1>2. hops[r] \in Seq(Hop) /\ name \in Names
  BY DEF HopTypes, Names
<1>3. \A n \in Mine(r, a) : hops[r][n].addr = a
  BY DEF Mine
<1> DEFINE t == Renamed(hops[r], Mine(r, a), name)
<1>4. /\ t \in Seq(Hop) /\ Len(t) = Len(hops[r]) /\ DOMAIN t = DOMAIN hops[r]
      /\ \A n \in DOMAIN hops[r] : t[n].addr = hops[r][n].addr
      /\ \A n \in DOMAIN hops[r] : n \in Mine(r, a) =>
           t[n] = [addr |-> hops[r][n].addr, name |-> name]
      /\ \A n \in DOMAIN hops[r] : n \notin Mine(r, a) => t[n] = hops[r][n]
  BY <1>2, NameHops
<1>5. hops' = [hops EXCEPT ![r] = t]
  BY <1>1
<1> HIDE DEF t
<1>6. hops' \in [Runs -> Seq(Hop)] /\ hops'[r] = t /\ \A q \in Runs \ {r} : hops'[q] = hops[q]
  BY <1>4, <1>5 DEF HopTypes
<1> QED
  BY <1>1, <1>3, <1>4, <1>6, ZenonT(40)

-----------------------------------------------------------------------------
(* Types.                                                                  *)

\* Every step is an action of a trace, of a lookup or of the user, or none.
LEMMA TraceSteps ==
    ASSUME [Next]_vars
    PROVE  \/ UNCHANGED vars
           \/ \E r \in Runs :
                \/ StartLock(r) \/ StartFails(r) \/ StartSpawn(r)
                \/ StopTake(r) \/ StopReturn(r)
                \/ Cancelled(r) \/ StreamEnds(r) \/ StreamFails(r)
                \/ HopSeen(r) \/ HopSilent(r) \/ HopPushed(r) \/ SpawnLookup(r)
                \/ Persist(r) \/ PersistFails(r) \/ Clear(r)
           \/ \E r \in Runs, a \in Addresses : LookupReturns(r, a) \/ LookupStores(r, a)
           \/ \E i \in rows : Delete(i)
  BY DEF Next, RunStep, LookupStep

LEMMA InitTypeInv == Init => TypeInv
<1> SUFFICES ASSUME Init PROVE TypeInv
  OBVIOUS
<1> USE TraceAssumption
<1>1. SlotTypes
  BY InitSlotInv DEF SlotInv
<1>2. TaskTypes /\ LookupTypes /\ Handover
  BY DEF Init, TaskTypes, LookupTypes, LookupStates, Handover, Names
<1>3. HopTypes
  <2>1. <<>> \in Seq(Hop) /\ Len(<<>>) = 0 /\ 0 <= MaxHops
    OBVIOUS
  <2>2. hops = [r \in Runs |-> <<>>] /\ snapshot = [r \in Runs |-> <<>>]
        /\ seen = [r \in Runs |-> [a \in Addresses |-> {}]]
    BY DEF Init
  <2>3. \A r \in Runs : Len(hops[r]) <= MaxHops /\ Len(snapshot[r]) <= MaxHops
    BY <2>1, <2>2, Zenon
  <2> QED
    BY <2>1, <2>2, <2>3 DEF HopTypes
<1>4. PermitsKept
  <2>1. \A r \in Runs : Holding(r) = {}
    BY DEF Init, Holding
  <2>2. Cardinality({}) = 0 /\ 0 <= Permits
    BY FS_EmptySet
  <2> QED
    BY <2>1, <2>2, Zenon DEF PermitsKept
<1>5. TableTypes
  BY DEF Init, TableTypes, rows
<1> QED
  BY <1>1, <1>2, <1>3, <1>4, <1>5 DEF TypeInv

LEMMA NextTaskTypes ==
    ASSUME TypeInv, [Next]_vars
    PROVE  TaskTypes'
<1> USE TraceAssumption DEF TypeInv, TaskTypes
<1>1. CASE UNCHANGED vars
  BY <1>1 DEF vars, manager, run
<1>2. ASSUME NEW r \in Runs,
             \/ StartLock(r) \/ StartFails(r) \/ StartSpawn(r)
             \/ StopTake(r) \/ StopReturn(r)
      PROVE  TaskTypes'
  BY <1>2 DEF StartLock, StartFails, StartSpawn, StopTake, StopReturn, run
<1>3. ASSUME NEW r \in Runs, Cancelled(r) \/ StreamEnds(r) \/ StreamFails(r)
      PROVE  TaskTypes'
  BY <1>3 DEF Cancelled, StreamEnds, StreamFails, Leave, Verdicts, manager
<1>4. ASSUME NEW r \in Runs, HopSeen(r) \/ HopSilent(r) \/ HopPushed(r) \/ SpawnLookup(r)
      PROVE  TaskTypes'
  BY <1>4 DEF HopSeen, HopSilent, HopPushed, SpawnLookup, Names, manager
<1>5. ASSUME NEW r \in Runs, Persist(r) \/ PersistFails(r) \/ Clear(r)
      PROVE  TaskTypes'
  BY <1>5 DEF Persist, PersistFails, Clear, manager
<1>6. ASSUME NEW r \in Runs, NEW a \in Addresses, LookupReturns(r, a) \/ LookupStores(r, a)
      PROVE  TaskTypes'
  BY <1>6 DEF LookupReturns, LookupStores, manager, run
<1>7. ASSUME NEW i \in rows, Delete(i)
      PROVE  TaskTypes'
  BY <1>7 DEF Delete, manager, run
<1> QED
  BY <1>1, <1>2, <1>3, <1>4, <1>5, <1>6, <1>7, TraceSteps

LEMMA NextHopTypes ==
    ASSUME TypeInv, [Next]_vars
    PROVE  HopTypes'
<1> USE TraceAssumption DEF TypeInv
<1>0. <<>> \in Seq(Hop) /\ Len(<<>>) = 0 /\ 0 <= MaxHops
  OBVIOUS
<1>1. CASE UNCHANGED <<seen, hops, snapshot>>
  BY <1>1 DEF HopTypes
<1>2. ASSUME NEW r \in Runs, Cancelled(r) \/ StreamEnds(r) \/ StreamFails(r)
      PROVE  HopTypes'
  <2>1. snapshot' = [snapshot EXCEPT ![r] = hops[r]] /\ UNCHANGED <<seen, hops>>
    BY <1>2 DEF Cancelled, StreamEnds, StreamFails, Leave
  <2> QED
    BY <2>1 DEF HopTypes
<1>3. ASSUME NEW r \in Runs, HopSeen(r)
      PROVE  HopTypes'
  <2>1. PICK a \in Addresses : seen' = [seen EXCEPT ![r][a] = @ \cup {Len(hops[r]) + 1}]
    BY <1>3 DEF HopSeen
  <2>2. Len(hops[r]) + 1 \in 1..MaxHops
    BY <1>3, HopFacts DEF HopSeen
  <2>3. seen[r][a] \cup {Len(hops[r]) + 1} \in SUBSET (1..MaxHops)
    BY <2>2 DEF HopTypes
  <2>4. seen' \in [Runs -> [Addresses -> SUBSET (1..MaxHops)]]
    <3> DEFINE more == seen[r][a] \cup {Len(hops[r]) + 1}
    <3>1. seen' = [seen EXCEPT ![r] = [seen[r] EXCEPT ![a] = more]] /\ more \in SUBSET (1..MaxHops)
      BY <2>1, <2>3
    <3> HIDE DEF more
    <3> QED
      BY <3>1 DEF HopTypes
  <2>5. UNCHANGED <<hops, snapshot>>
    BY <1>3 DEF HopSeen
  <2> QED
    BY <2>4, <2>5 DEF HopTypes
<1>4. ASSUME NEW r \in Runs, HopSilent(r) \/ HopPushed(r)
      PROVE  HopTypes'
  <2>1. PICK h \in Hop : hops' = [hops EXCEPT ![r] = Append(@, h)]
    <3>1. CASE HopSilent(r)
      BY <3>1 DEF HopSilent, Hop
    <3>2. CASE HopPushed(r)
      BY <3>2 DEF HopPushed, Hop, TaskTypes, Names
    <3> QED
      BY <1>4, <3>1, <3>2
  <2>2. Len(hops[r]) < MaxHops
    BY <1>4 DEF HopSilent, HopPushed, Handover
  <2>3. /\ Append(hops[r], h) \in Seq(Hop) /\ Len(Append(hops[r], h)) = Len(hops[r]) + 1
        /\ hops[r] \in Seq(Hop) /\ Len(hops[r]) \in Nat
    BY AppendHop, HopFacts
  <2>4. Len(hops[r]) + 1 <= MaxHops
    BY <2>2, <2>3
  <2>5. hops'[r] = Append(hops[r], h) /\ Len(hops'[r]) <= MaxHops
    <3>1. hops'[r] = Append(hops[r], h)
      BY <2>1 DEF HopTypes
    <3> QED
      BY <2>3, <2>4, <3>1
  <2>6. \A q \in Runs \ {r} : hops'[q] = hops[q]
    BY <2>1 DEF HopTypes
  <2>7. UNCHANGED <<seen, snapshot>>
    BY <1>4 DEF HopSilent, HopPushed
  <2>8. hops' \in [Runs -> Seq(Hop)]
    <3> DEFINE new == Append(hops[r], h)
    <3>1. new \in Seq(Hop) /\ hops' = [hops EXCEPT ![r] = new]
      BY <2>1, <2>3
    <3> HIDE DEF new
    <3> QED
      BY <3>1 DEF HopTypes
  <2> QED
    BY <2>5, <2>6, <2>7, <2>8 DEF HopTypes
<1>5. ASSUME NEW r \in Runs, NEW a \in Addresses, LookupReturns(r, a)
      PROVE  HopTypes'
  <2>1. /\ hops' \in [Runs -> Seq(Hop)] /\ Len(hops'[r]) = Len(hops[r])
        /\ \A q \in Runs \ {r} : hops'[q] = hops[q]
    BY <1>5, ReturnEffect
  <2>2. UNCHANGED <<seen, snapshot>>
    BY <1>5 DEF LookupReturns
  <2>3. \A q \in Runs : Len(hops'[q]) = Len(hops[q])
    BY <2>1
  <2>4. \A q \in Runs : Len(hops'[q]) <= MaxHops
    BY <2>3, Zenon DEF HopTypes
  <2> QED
    BY <2>1, <2>2, <2>4 DEF HopTypes
<1>6. ASSUME NEW r \in Runs, Persist(r) \/ PersistFails(r)
      PROVE  HopTypes'
  <2>1. snapshot' = [snapshot EXCEPT ![r] = <<>>] /\ UNCHANGED <<seen, hops>>
    BY <1>6 DEF Persist, PersistFails
  <2> QED
    BY <1>0, <2>1 DEF HopTypes
<1>7. \/ UNCHANGED <<seen, hops, snapshot>>
      \/ \E r \in Runs : \/ Cancelled(r) \/ StreamEnds(r) \/ StreamFails(r)
                         \/ HopSeen(r) \/ HopSilent(r) \/ HopPushed(r)
                         \/ Persist(r) \/ PersistFails(r)
                         \/ \E a \in Addresses : LookupReturns(r, a)
  BY TraceSteps DEF vars, run, StartLock, StartFails, StartSpawn, StopTake, StopReturn,
     SpawnLookup, Clear, LookupStores, Delete
<1> QED
  BY <1>1, <1>2, <1>3, <1>4, <1>5, <1>6, <1>7

\* One cell of a table by run and address.
LEMMA PutCell ==
    ASSUME NEW S, NEW f \in [Runs -> [Addresses -> S]],
           NEW r \in Runs, NEW a \in Addresses, NEW v \in S
    PROVE  /\ [f EXCEPT ![r][a] = v] \in [Runs -> [Addresses -> S]]
           /\ [f EXCEPT ![r][a] = v][r][a] = v
           /\ \A q \in Runs, b \in Addresses :
                q # r \/ b # a => [f EXCEPT ![r][a] = v][q][b] = f[q][b]
<1> DEFINE g == [f[r] EXCEPT ![a] = v]
<1>1. g \in [Addresses -> S] /\ g[a] = v /\ \A b \in Addresses : b # a => g[b] = f[r][b]
  OBVIOUS
<1>2. [f EXCEPT ![r][a] = v] = [f EXCEPT ![r] = g]
  OBVIOUS
<1> HIDE DEF g
<1> QED
  BY <1>1, <1>2

LEMMA NextLookupTypes ==
    ASSUME TypeInv, [Next]_vars
    PROVE  LookupTypes'
<1> USE TraceAssumption DEF TypeInv
<1>1. CASE UNCHANGED lookups
  BY <1>1 DEF LookupTypes, lookups
<1>2. ASSUME NEW r \in Runs, HopSeen(r)
      PROVE  LookupTypes'
  <2>1. PICK a \in Addresses :
          lookup' = [lookup EXCEPT ![r][a] = IF @ = "none" THEN "wanted" ELSE @]
    BY <1>2 DEF HopSeen
  <2> QED
    BY <1>2, <2>1 DEF HopSeen, LookupTypes, LookupStates
<1>3. ASSUME NEW r \in Runs, SpawnLookup(r)
      PROVE  LookupTypes'
  BY <1>3 DEF SpawnLookup, LookupTypes, LookupStates, Handover
<1>4. ASSUME NEW r \in Runs, NEW a \in Addresses, LookupReturns(r, a)
      PROVE  LookupTypes'
  <2>1. PICK name \in {a, NoAddr} :
          /\ named' = [named EXCEPT ![r][a] = IF Mine(r, a) = {} THEN NoAddr ELSE name]
          /\ todo' = [todo EXCEPT ![r][a] = Mine(r, a)]
          /\ lookup' = [lookup EXCEPT ![r][a] = IF Mine(r, a) = {} THEN "done" ELSE "storing"]
    BY <1>4 DEF LookupReturns, Mine
  <2>2. Mine(r, a) \in SUBSET (1..MaxHops)
    BY DEF Mine, HopTypes
  <2> QED
    BY <2>1, <2>2 DEF LookupTypes, LookupStates, Names
<1>5. ASSUME NEW r \in Runs, NEW a \in Addresses, LookupStores(r, a)
      PROVE  LookupTypes'
  <2>1. PICK n \in todo[r][a] : todo' = [todo EXCEPT ![r][a] = @ \ {n}]
    BY <1>5 DEF LookupStores
  <2>2. todo' \in [Runs -> [Addresses -> SUBSET (1..MaxHops)]]
    BY <2>1 DEF LookupTypes
  <2>3. \/ lookup' = [lookup EXCEPT ![r][a] = "done"] /\ named' = [named EXCEPT ![r][a] = NoAddr]
        \/ UNCHANGED <<lookup, named>>
    BY <1>5 DEF LookupStores
  <2>4. lookup' \in [Runs -> [Addresses -> LookupStates]]
    <3>1. "done" \in LookupStates /\ lookup \in [Runs -> [Addresses -> LookupStates]]
      BY DEF LookupTypes, LookupStates
    <3>2. [lookup EXCEPT ![r][a] = "done"] \in [Runs -> [Addresses -> LookupStates]]
      BY <3>1, PutCell
    <3> QED
      BY <2>3, <3>1, <3>2, Zenon
  <2>5. named' \in [Runs -> [Addresses -> Names]]
    <3>1. NoAddr \in Names /\ named \in [Runs -> [Addresses -> Names]]
      BY DEF LookupTypes, Names
    <3>2. [named EXCEPT ![r][a] = NoAddr] \in [Runs -> [Addresses -> Names]]
      BY <3>1, PutCell
    <3> QED
      BY <2>3, <3>1, <3>2, Zenon
  <2> QED
    BY <2>2, <2>4, <2>5 DEF LookupTypes
<1>6. \/ UNCHANGED lookups
      \/ \E r \in Runs : \/ HopSeen(r) \/ SpawnLookup(r)
                         \/ \E a \in Addresses : LookupReturns(r, a) \/ LookupStores(r, a)
  BY TraceSteps, ZenonT(40) DEF vars, run, lookups, StartLock, StartFails, StartSpawn, StopTake,
     StopReturn, Cancelled, StreamEnds, StreamFails, Leave, HopSilent, HopPushed,
     Persist, PersistFails, Clear, Delete
<1> QED
  BY <1>1, <1>2, <1>3, <1>4, <1>5, <1>6

\* A lookup starts only with a permit to take, and holds no more than one.
LEMMA NextPermitsKept ==
    ASSUME TypeInv, [Next]_vars
    PROVE  PermitsKept'
<1> USE TraceAssumption DEF TypeInv
<1>1. \A q \in Runs : IsFiniteSet(Holding(q)) /\ Cardinality(Holding(q)) \in Nat
  BY FS_Subset, FS_CardinalityType DEF Holding
<1>2. CASE \A q \in Runs : Holding(q)' \subseteq Holding(q)
  <2> SUFFICES ASSUME NEW q \in Runs
               PROVE  Cardinality(Holding(q)') <= Permits
    BY DEF PermitsKept
  <2>1. Cardinality(Holding(q)') <= Cardinality(Holding(q)) /\ Cardinality(Holding(q)') \in Nat
    BY <1>1, <1>2, FS_Subset, FS_CardinalityType
  <2> QED
    BY <1>1, <2>1 DEF PermitsKept
<1>3. ASSUME NEW r \in Runs, SpawnLookup(r)
      PROVE  PermitsKept'
  <2>1. lookup' = [lookup EXCEPT ![r][arrival[r]] = "running"] /\ arrival[r] \in Addresses
    BY <1>3 DEF SpawnLookup, Handover
  <2>2. Holding(r)' = Holding(r) \cup {arrival[r]}
    BY <2>1 DEF LookupTypes, Holding
  <2>3. \A q \in Runs \ {r} : Holding(q)' = Holding(q)
    BY <2>1 DEF LookupTypes, Holding
  <2>4. Cardinality(Holding(r) \cup {arrival[r]}) <= Cardinality(Holding(r)) + 1
    <3>1. IsFiniteSet(Holding(r)) /\ Cardinality(Holding(r)) \in Nat
      BY <1>1
    <3>2. \/ Cardinality(Holding(r) \cup {arrival[r]}) = Cardinality(Holding(r))
          \/ Cardinality(Holding(r) \cup {arrival[r]}) = Cardinality(Holding(r)) + 1
      BY <3>1, FS_AddElement, Zenon
    <3> QED
      BY <3>1, <3>2
  <2>5. Cardinality(Holding(r) \cup {arrival[r]}) \in Nat
    BY <1>1, FS_AddElement, FS_CardinalityType
  <2>6. Cardinality(Holding(r)) < Permits
    BY <1>3 DEF SpawnLookup
  <2>7. Cardinality(Holding(r)') <= Permits
    BY <1>1, <2>2, <2>4, <2>5, <2>6
  <2> QED
    BY <2>3, <2>7 DEF PermitsKept
<1>4. ASSUME NEW r \in Runs, HopSeen(r)
      PROVE  \A q \in Runs : Holding(q)' \subseteq Holding(q)
  <2>1. PICK a \in Addresses :
          lookup' = [lookup EXCEPT ![r][a] = IF @ = "none" THEN "wanted" ELSE @]
    BY <1>4 DEF HopSeen
  <2> QED
    BY <2>1 DEF LookupTypes, Holding
<1>5. ASSUME NEW r \in Runs, NEW a \in Addresses, LookupReturns(r, a) \/ LookupStores(r, a)
      PROVE  \A q \in Runs : Holding(q)' \subseteq Holding(q)
  <2>1. /\ lookup[r][a] \in {"running", "storing"}
        /\ \E v \in LookupStates : lookup' = [lookup EXCEPT ![r][a] = v]
    <3>1. CASE LookupReturns(r, a)
      BY <3>1, ReturnEffect DEF LookupReturns, LookupStates
    <3>2. CASE LookupStores(r, a)
      BY <3>2 DEF LookupStores, LookupTypes, LookupStates
    <3> QED
      BY <1>5, <3>1, <3>2, SMTT(30)
  <2> QED
    BY <2>1 DEF LookupTypes, Holding
<1>6. \/ lookup' = lookup
      \/ \E r \in Runs : \/ HopSeen(r) \/ SpawnLookup(r)
                         \/ \E a \in Addresses : LookupReturns(r, a) \/ LookupStores(r, a)
  BY TraceSteps DEF vars, run, lookups, StartLock, StartFails, StartSpawn, StopTake,
     StopReturn, Cancelled, StreamEnds, StreamFails, Leave, HopSilent, HopPushed,
     Persist, PersistFails, Clear, Delete
<1>7. lookup' = lookup => \A q \in Runs : Holding(q)' \subseteq Holding(q)
  BY DEF Holding
<1> QED
  BY <1>2, <1>3, <1>4, <1>5, <1>6, <1>7

\* Lookups fill in names, they never change how many hops there are.
LEMMA HopCount ==
    ASSUME HopTypes, NEW r \in Runs, NEW a \in Addresses, LookupReturns(r, a)
    PROVE  \A q \in Runs : Len(hops'[q]) = Len(hops[q])
  BY ReturnEffect

LEMMA NextHandover ==
    ASSUME TypeInv, [Next]_vars
    PROVE  Handover'
<1> USE DEF TypeInv
<1>0. pc \in [Runs -> Labels] /\ hops \in [Runs -> Seq(Hop)] /\ arrival \in [Runs -> Names]
      /\ outcome \in [Runs -> Verdicts \cup {"none"}]
  BY DEF SlotTypes, HopTypes, TaskTypes
<1>1. CASE UNCHANGED <<pc, arrival, hops, outcome>>
  BY <1>1 DEF Handover
<1>2. ASSUME NEW r \in Runs,
             \/ StartLock(r) \/ StartFails(r) \/ StartSpawn(r)
             \/ PersistFails(r) \/ Persist(r) \/ Clear(r)
      PROVE  Handover'
  <2>1. PICK l \in {"rejected", "starting", "failed", "loop", "broken", "clear", "ended"} :
          pc' = [pc EXCEPT ![r] = l]
    BY <1>2 DEF StartLock, StartFails, StartSpawn, PersistFails, Persist, Clear, Goto
  <2>2. UNCHANGED <<arrival, hops, outcome>>
    BY <1>2 DEF StartLock, StartFails, StartSpawn, PersistFails, Persist, Clear
  <2> QED
    BY <1>0, <2>1, <2>2 DEF Handover
<1>3. ASSUME NEW r \in Runs, Cancelled(r) \/ StreamEnds(r) \/ StreamFails(r)
      PROVE  Handover'
  <2>1. PICK v \in Verdicts : outcome' = [outcome EXCEPT ![r] = v]
    BY <1>3 DEF Cancelled, StreamEnds, StreamFails, Leave, Verdicts
  <2>2. pc' = [pc EXCEPT ![r] = "persist"] /\ UNCHANGED <<arrival, hops>>
    BY <1>3 DEF Cancelled, StreamEnds, StreamFails, Leave, Goto
  <2> QED
    BY <1>0, <2>1, <2>2 DEF Handover
<1>4. ASSUME NEW r \in Runs, HopSeen(r)
      PROVE  Handover'
  <2>1. PICK a \in Addresses : arrival' = [arrival EXCEPT ![r] = a]
    BY <1>4 DEF HopSeen
  <2>2. /\ pc' = [pc EXCEPT ![r] = "pushing"] /\ UNCHANGED <<hops, outcome>>
        /\ Len(hops[r]) < MaxHops
    BY <1>4 DEF HopSeen, Goto
  <2> QED
    BY <1>0, <2>1, <2>2 DEF Handover
<1>5. ASSUME NEW r \in Runs, HopSilent(r)
      PROVE  Handover'
  <2>1. /\ pc[r] = "loop" /\ UNCHANGED <<pc, arrival, outcome>>
        /\ \A q \in Runs : q # r => hops'[q] = hops[q]
    BY <1>0, <1>5 DEF HopSilent
  <2> QED
    BY <2>1 DEF Handover
<1>6. ASSUME NEW r \in Runs, HopPushed(r)
      PROVE  Handover'
  <2>1. /\ pc[r] = "pushing" /\ UNCHANGED outcome
        /\ \A q \in Runs : q # r => hops'[q] = hops[q]
        /\ \/ pc' = [pc EXCEPT ![r] = "permit"] /\ UNCHANGED arrival
           \/ pc' = [pc EXCEPT ![r] = "loop"] /\ arrival' = [arrival EXCEPT ![r] = NoAddr]
    BY <1>0, <1>6 DEF HopPushed, Goto
  <2> QED
    BY <1>0, <2>1 DEF Handover
<1>7. ASSUME NEW r \in Runs, SpawnLookup(r)
      PROVE  Handover'
  BY <1>0, <1>7 DEF SpawnLookup, Goto, Handover
<1>8. ASSUME NEW r \in Runs, NEW a \in Addresses, LookupReturns(r, a)
      PROVE  Handover'
  <2>1. \A q \in Runs : Len(hops'[q]) = Len(hops[q])
    BY <1>8, HopCount
  <2> QED
    BY <1>8, <2>1 DEF LookupReturns, Handover
<1>9. \/ UNCHANGED <<pc, arrival, hops, outcome>>
      \/ \E r \in Runs :
           \/ StartLock(r) \/ StartFails(r) \/ StartSpawn(r)
           \/ PersistFails(r) \/ Persist(r) \/ Clear(r)
           \/ Cancelled(r) \/ StreamEnds(r) \/ StreamFails(r)
           \/ HopSeen(r) \/ HopSilent(r) \/ HopPushed(r) \/ SpawnLookup(r)
      \/ \E r \in Runs, a \in Addresses : LookupReturns(r, a)
  BY TraceSteps DEF vars, run, StopTake, StopReturn, LookupStores, Delete
<1> QED
  BY <1>1, <1>2, <1>3, <1>4, <1>5, <1>6, <1>7, <1>8, <1>9

LEMMA NextTableTypes ==
    ASSUME TypeInv, [Next]_vars
    PROVE  TableTypes'
<1> USE DEF TypeInv
<1> DEFINE Row(ids) == [id : ids, run : Runs, hop : 1..MaxHops, addr : Names, name : Names]
<1>1. CASE UNCHANGED tables
  BY <1>1 DEF TableTypes, tables, rows
<1>2. ASSUME NEW r \in Runs, StartSpawn(r)
      PROVE  TableTypes'
  <2>1. /\ rows' = rows \cup {NextId} /\ UNCHANGED <<hopRows, forgotten>>
        /\ \A i \in rows' : status'[i] = IF i = NextId THEN "running" ELSE status[i]
    BY <1>2 DEF StartSpawn, rows
  <2> QED
    BY <2>1 DEF TableTypes
<1>3. ASSUME NEW r \in Runs, Persist(r)
      PROVE  TableTypes'
  <2>1. /\ rows' = rows /\ forgotten' = forgotten
        /\ hopRows' = hopRows \cup HopRowsOf(r)
        /\ \A i \in rows : status'[i] = IF i = tid[r] THEN outcome[r] ELSE status[i]
    BY <1>3 DEF Persist, rows
  <2>2. outcome[r] \in Verdicts
    BY <1>3 DEF Persist, Handover
  <2>3. HopRowsOf(r) \subseteq Row(rows)
    <3>1. \A n \in DOMAIN snapshot[r] :
            snapshot[r][n].addr \in Names /\ snapshot[r][n].name \in Names /\ n \in 1..MaxHops
      BY HopFacts DEF Hop, Names
    <3>2. tid[r] \in rows \/ DOMAIN snapshot[r] = {}
      BY <1>3 DEF Persist
    <3> QED
      BY <3>1, <3>2 DEF HopRowsOf
  <2>4. \A i \in rows' : status'[i] \in Verdicts \cup {"running"}
    BY <2>1, <2>2 DEF TableTypes
  <2>5. hopRows' \subseteq Row(rows')
    BY <2>1, <2>3 DEF TableTypes
  <2> QED
    BY <2>1, <2>4, <2>5 DEF TableTypes
<1>4. ASSUME NEW r \in Runs, NEW a \in Addresses, LookupStores(r, a)
      PROVE  TableTypes'
  <2>1. UNCHANGED <<status, forgotten>>
    BY <1>4 DEF LookupStores
  <2>2. CASE hopRows' = hopRows
    BY <2>1, <2>2 DEF TableTypes, rows
  <2>3. CASE \E n \in todo[r][a] : hopRows' = Named(r, n, named[r][a])
    <3>1. named[r][a] \in Names
      BY DEF LookupTypes
    <3>2. hopRows' \subseteq Row(rows)
      BY <2>3, <3>1 DEF Named, TableTypes
    <3> QED
      BY <2>1, <3>2 DEF TableTypes, rows
  <2> QED
    BY <1>4, <2>2, <2>3 DEF LookupStores
<1>5. ASSUME NEW i \in rows, Delete(i)
      PROVE  TableTypes'
  <2>1. /\ rows' = rows \ {i} /\ \A j \in rows' : status'[j] = status[j]
        /\ hopRows' = {row \in hopRows : row.id # i}
        /\ forgotten' \subseteq forgotten \cup Runs
    BY <1>5 DEF Delete, rows
  <2>2. hopRows' \subseteq Row(rows')
    BY <2>1 DEF TableTypes
  <2> QED
    BY <2>1, <2>2 DEF TableTypes
<1>6. \/ UNCHANGED tables
      \/ \E r \in Runs : \/ StartSpawn(r) \/ Persist(r)
                         \/ \E a \in Addresses : LookupStores(r, a)
      \/ \E i \in rows : Delete(i)
  BY TraceSteps, ZenonT(40) DEF vars, tables, StartLock, StartFails, StopTake, StopReturn,
     Cancelled, StreamEnds, StreamFails, Leave, HopSeen, HopSilent, HopPushed,
     SpawnLookup, PersistFails, Clear, LookupReturns
<1> QED
  BY <1>1, <1>2, <1>3, <1>4, <1>5, <1>6

LEMMA TypeInvHolds == Spec => []TypeInv
<1>1. TypeInv /\ SlotInv' /\ [Next]_vars => TypeInv'
  BY NextTaskTypes, NextHopTypes, NextLookupTypes, NextPermitsKept, NextHandover,
     NextTableTypes DEF SlotInv, TypeInv
<1> QED
  BY InitTypeInv, SlotInvHolds, <1>1, PTL DEF Spec

\* Every variable keeps its type, whatever is deleted when; in particular no
\* trace has more lookups than permits, or more hops than it may.
THEOREM TypeOKHolds == Spec => []TypeOK
<1>1. TypeInv => TypeOK
  BY DEF TypeInv, SlotTypes, TaskTypes, HopTypes, LookupTypes, PermitsKept, TableTypes,
     TypeOK, Labels, Names, LookupStates
<1> QED
  BY <1>1, TypeInvHolds, PTL

-----------------------------------------------------------------------------
(* Row ids.                                                                *)

Unsaved == {"idle", "rejected", "failed", "starting"}

\* A trace has its row, alone, until the row is deleted; as long as it or one
\* of its lookups works the row is not.
IdOf(r) ==
    /\ tid[r] = 0 <=> pc[r] \in Unsaved
    /\ r \notin forgotten /\ tid[r] # 0 => tid[r] \in rows
    /\ Working(r) \/ Holding(r) # {} => tid[r] # 0 /\ r \notin forgotten
    /\ r \in forgotten => tid[r] # 0

IdsDiffer == \A r, q \in Runs \ forgotten : tid[r] # 0 /\ tid[r] = tid[q] => r = q

RowsOwned == \A row \in hopRows : row.run \notin forgotten /\ row.id = tid[row.run]

IdInv == (\A r \in Runs : IdOf(r)) /\ IdsDiffer /\ RowsOwned

LEMMA InitIdInv == Init => IdInv
  BY DEF Init, IdInv, IdOf, IdsDiffer, RowsOwned, Unsaved, Working, Looping, Holding

\* Naming a hop leaves it the hop of its trace.
LEMMA NamedRows ==
    ASSUME TypeInv, NEW r \in Runs, NEW a \in Addresses, LookupStores(r, a)
    PROVE  /\ \A row \in hopRows' : \E old \in hopRows :
                /\ row.id = old.id /\ row.run = old.run /\ row.hop = old.hop /\ row.addr = old.addr
                /\ row.name = old.name
                     \/ /\ old.id = tid[r] /\ old.hop \in todo[r][a]
                        /\ row.name = named[r][a]
           /\ \A old \in hopRows : \E row \in hopRows' :
                /\ row.id = old.id /\ row.run = old.run /\ row.hop = old.hop /\ row.addr = old.addr
                /\ row = old
                     \/ /\ old.id = tid[r] /\ old.hop \in todo[r][a]
                        /\ row.name = named[r][a]
<1>1. CASE hopRows' = hopRows
  BY <1>1
<1>2. ASSUME NEW n \in todo[r][a], hopRows' = Named(r, n, named[r][a])
      PROVE  /\ \A row \in hopRows' : \E old \in hopRows :
                  /\ row.id = old.id /\ row.run = old.run /\ row.hop = old.hop
                  /\ row.addr = old.addr
                  /\ row.name = old.name
                       \/ /\ old.id = tid[r] /\ old.hop \in todo[r][a]
                          /\ row.name = named[r][a]
             /\ \A old \in hopRows : \E row \in hopRows' :
                  /\ row.id = old.id /\ row.run = old.run /\ row.hop = old.hop
                  /\ row.addr = old.addr
                  /\ row = old
                       \/ /\ old.id = tid[r] /\ old.hop \in todo[r][a]
                          /\ row.name = named[r][a]
  <2> DEFINE F(old) == IF old.id = tid[r] /\ old.hop = n
                       THEN [old EXCEPT !.name = named[r][a]] ELSE old
  <2>1. hopRows' = {F(old) : old \in hopRows}
    BY <1>2 DEF Named
  <2>2. \A old \in hopRows :
          /\ F(old).id = old.id /\ F(old).run = old.run /\ F(old).hop = old.hop
          /\ F(old).addr = old.addr
          /\ F(old) = old \/ /\ old.id = tid[r] /\ old.hop \in todo[r][a]
                             /\ F(old).name = named[r][a]
    <3> SUFFICES ASSUME NEW old \in hopRows
                 PROVE  /\ F(old).id = old.id /\ F(old).run = old.run /\ F(old).hop = old.hop
                        /\ F(old).addr = old.addr
                        /\ F(old) = old \/ /\ old.id = tid[r] /\ old.hop \in todo[r][a]
                                           /\ F(old).name = named[r][a]
      OBVIOUS
    <3>1. old \in [id : rows, run : Runs, hop : 1..MaxHops, addr : Names, name : Names]
      BY DEF TypeInv, TableTypes
    <3> QED
      BY <1>2, <3>1
  <2> HIDE DEF F
  <2> QED
    BY <2>1, <2>2
<1> QED
  BY <1>1, <1>2 DEF LookupStores

LEMMA NextIdInv ==
    ASSUME DeleteBusy = FALSE, TypeInv, IdInv, [Next]_vars
    PROVE  IdInv'
<1>0. /\ pc \in [Runs -> Labels] /\ tid \in [Runs -> Nat] /\ forgotten \subseteq Runs
      /\ hopRows \subseteq [id : rows, run : Runs, hop : 1..MaxHops, addr : Names, name : Names]
      /\ rows \subseteq Nat \ {0}
  BY DEF TypeInv, SlotTypes, TableTypes
<1>1. CASE UNCHANGED vars
  BY <1>1 DEF vars, run, lookups, tables, IdInv, IdOf, IdsDiffer, RowsOwned, Working,
     Looping, Holding, rows
<1>2. ASSUME NEW r \in Runs, StartLock(r) \/ StartFails(r)
      PROVE  IdInv'
  <2>1. UNCHANGED <<tid, lookup, tables>>
    BY <1>2 DEF StartLock, StartFails, lookups
  <2>2. pc[r] \in Unsaved /\ \E l \in Unsaved : pc' = [pc EXCEPT ![r] = l]
    BY <1>2 DEF StartLock, StartFails, Goto, Unsaved
  <2> QED
    BY <1>0, <2>1, <2>2 DEF tables, IdInv, IdOf, IdsDiffer, RowsOwned, Working, Looping,
       Holding, Unsaved, rows
<1>3. ASSUME NEW r \in Runs, StartSpawn(r)
      PROVE  IdInv'
  <2>1. NextId \in Nat \ {0} /\ \A i \in rows : i < NextId
    BY NextIdProps DEF TypeInv, SlotTypes
  <2>2. /\ rows' = rows \cup {NextId} /\ tid' = [tid EXCEPT ![r] = NextId]
        /\ pc' = [pc EXCEPT ![r] = "loop"] /\ pc[r] = "starting"
        /\ UNCHANGED <<lookup, hopRows, forgotten>>
    BY <1>3 DEF StartSpawn, Goto, rows, lookups
  <2>3. tid[r] = 0 /\ r \notin forgotten
    BY <2>2 DEF IdInv, IdOf, Unsaved
  <2>4. IdOf(r)'
    BY <1>0, <2>1, <2>2, <2>3 DEF IdOf, Unsaved
  <2>5. \A q \in Runs \ {r} : IdOf(q)'
    BY <1>0, <2>2 DEF IdInv, IdOf, Working, Looping, Holding
  <2>6. IdsDiffer'
    <3>1. \A q \in Runs \ forgotten : q # r => tid[q] # NextId
      BY <1>0, <2>1 DEF IdInv, IdOf
    <3>2. tid'[r] = NextId /\ \A q \in Runs \ {r} : tid'[q] = tid[q]
      BY <1>0, <2>2
    <3> QED
      BY <2>2, <3>1, <3>2 DEF IdInv, IdsDiffer
  <2>7. RowsOwned'
    BY <1>0, <2>2, <2>3 DEF IdInv, RowsOwned
  <2> QED
    BY <2>4, <2>5, <2>6, <2>7 DEF IdInv
<1>4. ASSUME NEW r \in Runs, StopTake(r) \/ StopReturn(r)
      PROVE  IdInv'
  BY <1>4 DEF StopTake, StopReturn, run, lookups, tables, IdInv, IdOf, IdsDiffer,
     RowsOwned, Working, Looping, Holding, rows
<1>5. ASSUME NEW r \in Runs, RunControl(r)
      PROVE  IdInv'
  <2>1. UNCHANGED <<tid, rows>> /\ Working(r)
    BY <1>5, RunControlEffect DEF TypeInv
  <2>2. PICK l \in {"loop", "pushing", "permit", "persist", "clear", "broken"} :
          pc' = [pc EXCEPT ![r] = l]
    BY <1>5, RunControlEffect DEF TypeInv
  <2>3. tid[r] # 0 /\ r \notin forgotten
    BY <2>1 DEF IdInv, IdOf
  <2>4. \A q \in Runs \ {r} : Holding(q)' = Holding(q)
    BY <1>5 DEF RunControl, Cancelled, StreamEnds, StreamFails, Leave, HopSeen, HopSilent,
       HopPushed, SpawnLookup, Persist, PersistFails, lookups, Holding, TypeInv, LookupTypes
  <2>5. /\ forgotten' = forgotten
        /\ hopRows' = hopRows \/ hopRows' = hopRows \cup HopRowsOf(r)
    BY <1>5 DEF RunControl, Cancelled, StreamEnds, StreamFails, Leave, HopSeen, HopSilent,
       HopPushed, SpawnLookup, Persist, PersistFails, tables
  <2>6. \A q \in Runs : IdOf(q)'
    <3>1. IdOf(r)'
      BY <1>0, <2>1, <2>2, <2>3, <2>5 DEF IdInv, IdOf, Unsaved, Working, Looping
    <3>2. \A q \in Runs \ {r} : IdOf(q)'
      BY <1>0, <2>1, <2>2, <2>4, <2>5 DEF IdInv, IdOf, Working, Looping
    <3> QED
      BY <3>1, <3>2
  <2>7. RowsOwned'
    BY <2>1, <2>3, <2>5 DEF IdInv, RowsOwned, HopRowsOf
  <2> QED
    BY <2>1, <2>5, <2>6, <2>7 DEF IdInv, IdsDiffer
<1>6. ASSUME NEW r \in Runs, Clear(r)
      PROVE  IdInv'
  BY <1>0, <1>6 DEF Clear, Goto, lookups, tables, IdInv, IdOf, IdsDiffer, RowsOwned,
     Unsaved, Working, Looping, Holding, rows
<1>7. ASSUME NEW r \in Runs, NEW a \in Addresses, LookupReturns(r, a) \/ LookupStores(r, a)
      PROVE  IdInv'
  <2>1. UNCHANGED <<pc, tid, status, forgotten>>
    BY <1>7 DEF LookupReturns, LookupStores, run, tables
  <2>2. \A q \in Runs : Holding(q)' # {} => Holding(q) # {}
    <3>1. lookup[r][a] \in {"running", "storing"}
      BY <1>7 DEF LookupReturns, LookupStores
    <3>2. \A q \in Runs \ {r} : Holding(q)' = Holding(q)
      BY <1>7 DEF LookupReturns, LookupStores, Holding, TypeInv, LookupTypes
    <3> QED
      BY <3>1, <3>2 DEF Holding
  <2>3. RowsOwned'
    <3>1. CASE LookupReturns(r, a)
      BY <2>1, <3>1 DEF LookupReturns, tables, IdInv, RowsOwned
    <3>2. CASE LookupStores(r, a)
      <4>1. \A row \in hopRows' : \E old \in hopRows : row.id = old.id /\ row.run = old.run
        BY <3>2, NamedRows
      <4> QED
        BY <2>1, <4>1 DEF IdInv, RowsOwned
    <3> QED
      BY <1>7, <3>1, <3>2
  <2> QED
    BY <2>1, <2>2, <2>3 DEF IdInv, IdOf, IdsDiffer, Working, Looping, rows
<1>8. ASSUME NEW i \in rows, Delete(i)
      PROVE  IdInv'
  <2>1. /\ rows' = rows \ {i} /\ UNCHANGED <<pc, tid, lookup>>
        /\ hopRows' = {row \in hopRows : row.id # i}
        /\ forgotten' = forgotten \cup {r \in Runs : tid[r] = i}
    BY <1>8 DEF Delete, rows, run, lookups
  <2>2. \A r \in Runs : Working(r) \/ Holding(r) # {} => tid[r] # i
    BY <1>8 DEF Delete, Busy
  <2>3. \A r \in Runs : IdOf(r)'
    BY <1>0, <2>1, <2>2 DEF IdInv, IdOf, Working, Looping, Holding
  <2>4. RowsOwned'
    BY <1>0, <2>1 DEF IdInv, RowsOwned
  <2> QED
    BY <2>1, <2>3, <2>4 DEF IdInv, IdsDiffer
<1> QED
  BY <1>1, <1>2, <1>3, <1>4, <1>5, <1>6, <1>7, <1>8, TraceSteps DEF RunControl

-----------------------------------------------------------------------------
(* Hostnames.                                                              *)

\* The hops of an address are unnamed until its lookup returns, and those it
\* still has to store carry the name it returned.
LookupOf(r, a) ==
    /\ named[r][a] \in {a, NoAddr}
    /\ lookup[r][a] \in {"none", "wanted", "running"} =>
         \A n \in DOMAIN hops[r] : hops[r][n].addr = a => hops[r][n].name = NoAddr
    /\ \A n \in todo[r][a] :
         n \in DOMAIN hops[r] /\ hops[r][n] = [addr |-> a, name |-> named[r][a]]

HopOf(r) ==
    /\ \A n \in DOMAIN hops[r] : hops[r][n].name \in {NoAddr, hops[r][n].addr}
    /\ pc[r] = "permit" => lookup[r][arrival[r]] = "wanted"

\* A hop that was copied: it may lack the name, but has no other one.
CopyOf(r, n, hop) ==
    /\ n \in DOMAIN hops[r]
    /\ hop.addr = hops[r][n].addr /\ hop.name \in {NoAddr, hops[r][n].name}

SnapshotOf(r) ==
    /\ pc[r] = "persist" => Len(snapshot[r]) = Len(hops[r])
    /\ \A n \in DOMAIN snapshot[r] : CopyOf(r, n, snapshot[r][n])

RowsCopied == \A row \in hopRows : CopyOf(row.run, row.hop, row)

NameInv ==
    /\ \A r \in Runs : HopOf(r) /\ SnapshotOf(r) /\ \A a \in Addresses : LookupOf(r, a)
    /\ RowsCopied

\* The hops of a trace are only added to, and only unnamed hops get a name.
Grown ==
    \A r \in Runs : \A n \in DOMAIN hops[r] :
        /\ n \in DOMAIN hops'[r] /\ hops'[r][n].addr = hops[r][n].addr
        /\ hops[r][n].name # NoAddr => hops'[r][n].name = hops[r][n].name

LEMMA InitNameInv == Init => NameInv
  BY DEF Init, NameInv, HopOf, SnapshotOf, LookupOf, RowsCopied

LEMMA StepGrown ==
    ASSUME TypeInv, [Next]_vars
    PROVE  Grown
<1> HopTypes
  BY DEF TypeInv
<1>1. CASE hops' = hops
  BY <1>1 DEF Grown
<1>2. ASSUME NEW r \in Runs, HopSilent(r) \/ HopPushed(r)
      PROVE  Grown
  <2>1. PICK h \in Hop : hops' = [hops EXCEPT ![r] = Append(@, h)]
    BY <1>2 DEF HopSilent, HopPushed, Hop, TypeInv, TaskTypes, Names
  <2>2. \A n \in DOMAIN hops[r] : n \in DOMAIN hops'[r] /\ hops'[r][n] = hops[r][n]
    BY <2>1, AppendHop, HopFacts DEF HopTypes
  <2>3. \A q \in Runs \ {r} : hops'[q] = hops[q]
    BY <2>1 DEF HopTypes
  <2> QED
    BY <2>2, <2>3 DEF Grown
<1>3. ASSUME NEW r \in Runs, NEW a \in Addresses, LookupReturns(r, a)
      PROVE  Grown
  <2>1. /\ \A q \in Runs \ {r} : hops'[q] = hops[q]
        /\ DOMAIN hops'[r] = DOMAIN hops[r]
        /\ \A n \in DOMAIN hops[r] : /\ hops'[r][n].addr = hops[r][n].addr
                                     /\ n \notin Mine(r, a) => hops'[r][n] = hops[r][n]
    BY <1>3, ReturnEffect
  <2>2. \A n \in Mine(r, a) : hops[r][n].name = NoAddr
    BY DEF Mine
  <2> QED
    BY <2>1, <2>2 DEF Grown
<1>4. \/ hops' = hops
      \/ \E r \in Runs : \/ HopSilent(r) \/ HopPushed(r)
                         \/ \E a \in Addresses : LookupReturns(r, a)
  BY TraceSteps DEF vars, run, StartLock, StartFails, StartSpawn, StopTake, StopReturn,
     Cancelled, StreamEnds, StreamFails, Leave, HopSeen, SpawnLookup, Persist,
     PersistFails, Clear, LookupStores, Delete
<1> QED
  BY <1>1, <1>2, <1>3, <1>4

\* So a copy stays one.
LEMMA CopyKept ==
    ASSUME Grown, NEW r \in Runs, NEW n, NEW hop, CopyOf(r, n, hop)
    PROVE  CopyOf(r, n, hop)'
  BY DEF Grown, CopyOf

\* The rows of the id a lookup writes to are those of its trace.
LEMMA LookupRows ==
    ASSUME IdInv, NEW r \in Runs, NEW a \in Addresses, lookup[r][a] = "storing",
           NEW row \in hopRows, row.id = tid[r], row.run \in Runs
    PROVE  row.run = r
<1>1. Holding(r) # {}
  BY DEF Holding
<1>2. tid[r] # 0 /\ r \notin forgotten
  BY <1>1 DEF IdInv, IdOf
<1> QED
  BY <1>2 DEF IdInv, RowsOwned, IdsDiffer

LEMMA NextRowsCopied ==
    ASSUME TypeInv, IdInv, NameInv, Grown, [Next]_vars
    PROVE  RowsCopied'
<1>0. hopRows \subseteq [id : rows, run : Runs, hop : 1..MaxHops, addr : Names, name : Names]
  BY DEF TypeInv, TableTypes
<1>1. CASE hopRows' \subseteq hopRows
  BY <1>0, <1>1, CopyKept DEF NameInv, RowsCopied
<1>2. ASSUME NEW r \in Runs, Persist(r)
      PROVE  RowsCopied'
  <2>1. hopRows' = hopRows \cup HopRowsOf(r) /\ hops' = hops
    BY <1>2 DEF Persist
  <2>2. \A row \in HopRowsOf(r) : CopyOf(row.run, row.hop, row)
    BY DEF HopRowsOf, NameInv, SnapshotOf, CopyOf
  <2> QED
    BY <2>1, <2>2 DEF NameInv, RowsCopied, CopyOf
<1>3. ASSUME NEW r \in Runs, NEW a \in Addresses, LookupStores(r, a)
      PROVE  RowsCopied'
  <2>1. hops' = hops /\ lookup[r][a] = "storing"
    BY <1>3 DEF LookupStores, run
  <2> SUFFICES ASSUME NEW row \in hopRows'
               PROVE  CopyOf(row.run, row.hop, row)'
    BY DEF RowsCopied
  <2>2. PICK old \in hopRows :
          /\ row.id = old.id /\ row.run = old.run /\ row.hop = old.hop /\ row.addr = old.addr
          /\ row.name = old.name
               \/ /\ old.id = tid[r] /\ old.hop \in todo[r][a]
                  /\ row.name = named[r][a]
    BY <1>3, NamedRows
  <2>3. CopyOf(old.run, old.hop, old)
    BY DEF NameInv, RowsCopied
  <2>4. CASE row.name = old.name
    BY <2>1, <2>2, <2>3, <2>4 DEF CopyOf
  <2>5. CASE old.id = tid[r] /\ old.hop \in todo[r][a] /\ row.name = named[r][a]
    <3>1. old.run = r
      BY <1>0, <2>1, <2>5, LookupRows
    <3>2. hops[r][old.hop].name = named[r][a]
      <4>1. LookupOf(r, a)
        BY DEF NameInv
      <4>2. hops[r][old.hop] = [addr |-> a, name |-> named[r][a]]
        BY <2>5, <4>1 DEF LookupOf
      <4> QED
        BY <4>2
    <3> QED
      BY <2>1, <2>2, <2>3, <2>5, <3>1, <3>2 DEF CopyOf
  <2> QED
    BY <2>2, <2>4, <2>5
<1>4. \/ hopRows' \subseteq hopRows
      \/ \E r \in Runs : \/ Persist(r)
                         \/ \E a \in Addresses : LookupStores(r, a)
  BY TraceSteps, ZenonT(40) DEF vars, tables, StartLock, StartFails, StartSpawn, StopTake, StopReturn,
     Cancelled, StreamEnds, StreamFails, Leave, HopSeen, HopSilent, HopPushed, SpawnLookup,
     PersistFails, Clear, LookupReturns, Delete
<1> QED
  BY <1>1, <1>2, <1>3, <1>4

LEMMA NextSnapshotOf ==
    ASSUME TypeInv, NameInv, Grown, [Next]_vars, NEW q \in Runs
    PROVE  SnapshotOf(q)'
<1>0. /\ pc \in [Runs -> Labels] /\ hops \in [Runs -> Seq(Hop)]
      /\ snapshot \in [Runs -> Seq(Hop)] /\ SnapshotOf(q)
  BY DEF TypeInv, SlotTypes, HopTypes, NameInv
<1>1. CASE snapshot'[q] = <<>> /\ pc'[q] # "persist"
  BY <1>1 DEF SnapshotOf
<1>2. CASE /\ snapshot'[q] = snapshot[q]
           /\ pc'[q] = "persist" => pc[q] = "persist" /\ Len(hops'[q]) = Len(hops[q])
  BY <1>0, <1>2, CopyKept DEF SnapshotOf
<1>3. ASSUME NEW r \in Runs, Cancelled(r) \/ StreamEnds(r) \/ StreamFails(r)
      PROVE  SnapshotOf(q)'
  <2>1. /\ snapshot' = [snapshot EXCEPT ![r] = hops[r]] /\ hops' = hops
        /\ pc' = [pc EXCEPT ![r] = "persist"]
    BY <1>3 DEF Cancelled, StreamEnds, StreamFails, Leave, Goto
  <2>2. CASE q = r
    BY <1>0, <2>1, <2>2 DEF SnapshotOf, CopyOf
  <2>3. CASE q # r
    BY <1>0, <1>2, <2>1, <2>3
  <2> QED
    BY <2>2, <2>3
<1>4. ASSUME NEW r \in Runs, HopSilent(r) \/ HopPushed(r)
      PROVE  SnapshotOf(q)'
  <2>1. snapshot' = snapshot /\ (q # r => hops'[q] = hops[q] /\ pc'[q] = pc[q])
        /\ pc'[r] # "persist"
    BY <1>0, <1>4 DEF HopSilent, HopPushed, Goto
  <2> QED
    BY <1>2, <2>1
<1>5. ASSUME NEW r \in Runs, NEW a \in Addresses, LookupReturns(r, a)
      PROVE  SnapshotOf(q)'
  <2>1. Len(hops'[q]) = Len(hops[q])
    BY <1>5, HopCount DEF TypeInv
  <2> QED
    BY <1>2, <1>5, <2>1 DEF LookupReturns
<1>6. ASSUME NEW r \in Runs, Persist(r) \/ PersistFails(r)
      PROVE  SnapshotOf(q)'
  <2>1. /\ snapshot' = [snapshot EXCEPT ![r] = <<>>] /\ hops' = hops
        /\ \E l \in {"clear", "broken"} : pc' = [pc EXCEPT ![r] = l]
    BY <1>6 DEF Persist, PersistFails, Goto
  <2> QED
    BY <1>0, <1>1, <1>2, <2>1
<1>7. ASSUME NEW r \in Runs,
             \/ StartLock(r) \/ StartFails(r) \/ StartSpawn(r)
             \/ HopSeen(r) \/ SpawnLookup(r) \/ Clear(r)
      PROVE  SnapshotOf(q)'
  <2>1. /\ UNCHANGED <<snapshot, hops>>
        /\ \E l \in Labels \ {"persist"} : pc' = [pc EXCEPT ![r] = l]
    BY <1>7 DEF StartLock, StartFails, StartSpawn, HopSeen, SpawnLookup, Clear, Goto, Labels
  <2> QED
    BY <1>0, <1>2, <2>1
<1>8. CASE UNCHANGED <<snapshot, hops, pc>>
  BY <1>2, <1>8
<1>9. \/ UNCHANGED <<snapshot, hops, pc>>
      \/ \E r \in Runs :
           \/ StartLock(r) \/ StartFails(r) \/ StartSpawn(r)
           \/ HopSeen(r) \/ SpawnLookup(r) \/ Clear(r)
           \/ Persist(r) \/ PersistFails(r)
           \/ Cancelled(r) \/ StreamEnds(r) \/ StreamFails(r)
           \/ HopSilent(r) \/ HopPushed(r)
           \/ \E a \in Addresses : LookupReturns(r, a)
  BY TraceSteps DEF vars, run, StopTake, StopReturn, LookupStores, Delete
<1> QED
  BY <1>3, <1>4, <1>5, <1>6, <1>7, <1>8, <1>9

LEMMA NextLookupOf ==
    ASSUME TypeInv, NameInv, [Next]_vars, NEW q \in Runs, NEW b \in Addresses
    PROVE  LookupOf(q, b)'
<1>0. /\ LookupTypes /\ HopTypes /\ LookupOf(q, b)
  BY DEF TypeInv, NameInv
<1>1. CASE /\ named'[q][b] = named[q][b] /\ todo'[q][b] = todo[q][b] /\ hops'[q] = hops[q]
           /\ lookup'[q][b] \in {"none", "wanted", "running"} =>
                lookup[q][b] \in {"none", "wanted", "running"}
  BY <1>0, <1>1 DEF LookupOf
<1>2. ASSUME NEW r \in Runs, HopSeen(r)
      PROVE  LookupOf(q, b)'
  <2>1. PICK a \in Addresses :
          lookup' = [lookup EXCEPT ![r][a] = IF @ = "none" THEN "wanted" ELSE @]
    BY <1>2 DEF HopSeen
  <2>2. UNCHANGED <<named, todo, hops>>
    BY <1>2 DEF HopSeen
  <2>3. lookup'[q][b] \in {"none", "wanted", "running"} =>
          lookup[q][b] \in {"none", "wanted", "running"}
    BY <1>0, <2>1 DEF LookupTypes
  <2> QED
    BY <1>1, <2>2, <2>3
<1>3. ASSUME NEW r \in Runs, SpawnLookup(r)
      PROVE  LookupOf(q, b)'
  <2>1. /\ lookup[r][arrival[r]] = "wanted" /\ arrival[r] \in Addresses
        /\ lookup' = [lookup EXCEPT ![r][arrival[r]] = "running"]
    BY <1>3 DEF SpawnLookup, NameInv, HopOf, TypeInv, Handover
  <2>2. UNCHANGED <<named, todo, hops>>
    BY <1>3 DEF SpawnLookup
  <2>3. lookup'[q][b] \in {"none", "wanted", "running"} =>
          lookup[q][b] \in {"none", "wanted", "running"}
    BY <1>0, <2>1 DEF LookupTypes
  <2> QED
    BY <1>1, <2>2, <2>3
<1>4. ASSUME NEW r \in Runs, HopSilent(r) \/ HopPushed(r)
      PROVE  LookupOf(q, b)'
  <2>1. PICK h \in Hop : hops' = [hops EXCEPT ![r] = Append(@, h)] /\ h.name = NoAddr
    BY <1>4 DEF HopSilent, HopPushed, Hop, TypeInv, TaskTypes, Names
  <2>2. UNCHANGED <<named, todo, lookup>>
    BY <1>4 DEF HopSilent, HopPushed, lookups
  <2>3. CASE q # r
    BY <1>0, <1>1, <2>1, <2>2, <2>3 DEF HopTypes
  <2>4. CASE q = r
    <3>1. hops[r] \in Seq(Hop) /\ hops'[r] = Append(hops[r], h)
          /\ DOMAIN hops[r] = 1..Len(hops[r]) /\ Len(hops[r]) \in Nat
      BY <1>0, <2>1, HopFacts DEF HopTypes
    <3>2. /\ DOMAIN hops'[r] = 1..(Len(hops[r]) + 1)
          /\ \A n \in 1..Len(hops[r]) : hops'[r][n] = hops[r][n]
          /\ hops'[r][Len(hops[r]) + 1] = h
      BY <3>1, AppendHop
    <3>3. \A n \in DOMAIN hops'[r] : n \in DOMAIN hops[r] \/ n = Len(hops[r]) + 1
      BY <3>1, <3>2
    <3>4. \A n \in DOMAIN hops[r] : n \in DOMAIN hops'[r] /\ hops'[r][n] = hops[r][n]
      BY <3>1, <3>2
    <3>5. \A n \in DOMAIN hops'[r] : n \notin DOMAIN hops[r] => hops'[r][n].name = NoAddr
      BY <2>1, <3>2, <3>3
    <3> QED
      BY <1>0, <2>2, <2>4, <3>4, <3>5 DEF LookupOf
  <2> QED
    BY <2>3, <2>4
<1>5. ASSUME NEW r \in Runs, NEW a \in Addresses, LookupReturns(r, a)
      PROVE  LookupOf(q, b)'
  <2>1. /\ \A p \in Runs \ {r} : hops'[p] = hops[p]
        /\ DOMAIN hops'[r] = DOMAIN hops[r]
        /\ \A n \in DOMAIN hops[r] : /\ hops'[r][n].addr = hops[r][n].addr
                                     /\ n \notin Mine(r, a) => hops'[r][n] = hops[r][n]
        /\ todo' = [todo EXCEPT ![r][a] = Mine(r, a)]
        /\ lookup' = [lookup EXCEPT ![r][a] = IF Mine(r, a) = {} THEN "done" ELSE "storing"]
    BY <1>0, <1>5, ReturnEffect
  <2>2. PICK name \in {a, NoAddr} :
          /\ named' = [named EXCEPT ![r][a] = IF Mine(r, a) = {} THEN NoAddr ELSE name]
          /\ \A n \in DOMAIN hops[r] : n \in Mine(r, a) =>
               hops'[r][n] = [addr |-> a, name |-> name]
    BY <1>0, <1>5, ReturnEffect
  <2>3. \A n \in Mine(r, a) : n \in DOMAIN hops[r] /\ hops[r][n].addr = a
    BY <1>0, HopFacts DEF Mine, HopTypes
  <2>4. CASE q = r /\ b = a
    <3>1. /\ named'[r][a] = IF Mine(r, a) = {} THEN NoAddr ELSE name
          /\ todo'[r][a] = Mine(r, a) /\ lookup'[r][a] \in {"done", "storing"}
      BY <1>0, <2>1, <2>2 DEF LookupTypes
    <3> QED
      BY <2>1, <2>2, <2>3, <2>4, <3>1 DEF LookupOf
  <2>5. CASE q # r \/ b # a
    <3>1. /\ named'[q][b] = named[q][b] /\ todo'[q][b] = todo[q][b]
          /\ lookup'[q][b] = lookup[q][b]
      BY <1>0, <2>1, <2>2, <2>5 DEF LookupTypes
    <3>2. CASE q # r
      BY <1>1, <2>1, <3>1, <3>2
    <3>3. CASE q = r
      <4>1. \A n \in DOMAIN hops[r] : hops[r][n].addr = b => hops'[r][n] = hops[r][n]
        BY <2>1, <2>3, <2>5, <3>3
      <4>2. \A n \in todo[r][b] : n \in DOMAIN hops[r] /\ hops[r][n].addr = b
        BY <1>0, <3>3 DEF LookupOf
      <4> QED
        BY <1>0, <2>1, <3>1, <3>3, <4>1, <4>2 DEF LookupOf
    <3> QED
      BY <3>2, <3>3
  <2> QED
    BY <2>4, <2>5
<1>6. ASSUME NEW r \in Runs, NEW a \in Addresses, LookupStores(r, a)
      PROVE  LookupOf(q, b)'
  <2>1. PICK n \in todo[r][a] :
          /\ todo' = [todo EXCEPT ![r][a] = @ \ {n}]
          /\ \/ /\ todo[r][a] = {n}
                /\ lookup' = [lookup EXCEPT ![r][a] = "done"]
                /\ named' = [named EXCEPT ![r][a] = NoAddr]
             \/ UNCHANGED <<lookup, named>>
    BY <1>6 DEF LookupStores
  <2>2. hops' = hops
    BY <1>6 DEF LookupStores, run
  <2>3. todo'[q][b] \subseteq todo[q][b]
    BY <1>0, <2>1 DEF LookupTypes
  <2>4. CASE UNCHANGED <<lookup, named>>
    BY <1>0, <2>2, <2>3, <2>4 DEF LookupOf
  <2>5. CASE /\ todo[r][a] = {n}
             /\ lookup' = [lookup EXCEPT ![r][a] = "done"]
             /\ named' = [named EXCEPT ![r][a] = NoAddr]
    <3>1. CASE q = r /\ b = a
      <4>1. todo'[r][a] = {} /\ lookup'[r][a] = "done" /\ named'[r][a] = NoAddr
        BY <1>0, <2>1, <2>5 DEF LookupTypes
      <4> QED
        BY <3>1, <4>1 DEF LookupOf
    <3>2. CASE q # r \/ b # a
      <4>1. /\ named'[q][b] = named[q][b] /\ todo'[q][b] = todo[q][b]
            /\ lookup'[q][b] = lookup[q][b]
        BY <1>0, <2>1, <2>5, <3>2 DEF LookupTypes
      <4> QED
        BY <1>1, <2>2, <4>1
    <3> QED
      BY <3>1, <3>2
  <2> QED
    BY <2>1, <2>4, <2>5
<1>7. CASE UNCHANGED <<lookups, hops>>
  BY <1>1, <1>7 DEF lookups
<1>8. \/ UNCHANGED <<lookups, hops>>
      \/ \E r \in Runs :
           \/ HopSeen(r) \/ SpawnLookup(r) \/ HopSilent(r) \/ HopPushed(r)
           \/ \E a \in Addresses : LookupReturns(r, a) \/ LookupStores(r, a)
  BY TraceSteps DEF vars, run, StartLock, StartFails, StartSpawn, StopTake, StopReturn,
     Cancelled, StreamEnds, StreamFails, Leave, Persist, PersistFails, Clear, Delete
<1> QED
  BY <1>2, <1>3, <1>4, <1>5, <1>6, <1>7, <1>8

LEMMA NextHopOf ==
    ASSUME TypeInv, NameInv, [Next]_vars, NEW q \in Runs
    PROVE  HopOf(q)'
<1>0. /\ LookupTypes /\ HopTypes /\ HopOf(q) /\ pc \in [Runs -> Labels]
      /\ arrival \in [Runs -> Names]
  BY DEF TypeInv, NameInv, SlotTypes, TaskTypes
<1>1. CASE /\ hops'[q] = hops[q]
           /\ pc'[q] = "permit" => /\ pc[q] = "permit" /\ lookup'[q] = lookup[q]
                                   /\ arrival'[q] = arrival[q]
  BY <1>0, <1>1 DEF HopOf
<1>2. ASSUME NEW r \in Runs,
             \/ Cancelled(r) \/ StreamEnds(r) \/ StreamFails(r)
             \/ StartLock(r) \/ StartFails(r) \/ StartSpawn(r)
             \/ Persist(r) \/ PersistFails(r) \/ Clear(r)
             \/ HopSeen(r) \/ SpawnLookup(r)
      PROVE  HopOf(q)'
  <2>1. hops' = hops /\ \A p \in Runs \ {r} : lookup'[p] = lookup[p] /\ arrival'[p] = arrival[p]
    BY <1>0, <1>2 DEF Cancelled, StreamEnds, StreamFails, Leave, StartLock, StartFails,
       StartSpawn, Persist, PersistFails, Clear, HopSeen, SpawnLookup, lookups, LookupTypes
  <2>2. \E l \in Labels \ {"permit"} : pc' = [pc EXCEPT ![r] = l]
    BY <1>2 DEF Cancelled, StreamEnds, StreamFails, Leave, StartLock, StartFails,
       StartSpawn, Persist, PersistFails, Clear, HopSeen, SpawnLookup, Goto, Labels
  <2> QED
    BY <1>0, <1>1, <2>1, <2>2
<1>3. ASSUME NEW r \in Runs, HopSilent(r) \/ HopPushed(r)
      PROVE  HopOf(q)'
  <2>1. PICK h \in Hop : hops' = [hops EXCEPT ![r] = Append(@, h)] /\ h.name = NoAddr
    BY <1>3 DEF HopSilent, HopPushed, Hop, TypeInv, TaskTypes, Names
  <2>2. /\ lookup' = lookup
        /\ q # r => pc'[q] = pc[q] /\ arrival'[q] = arrival[q] /\ hops'[q] = hops[q]
        /\ pc'[r] = "permit" => lookup[r][arrival[r]] = "wanted" /\ arrival'[r] = arrival[r]
    BY <1>0, <1>3 DEF HopSilent, HopPushed, Goto, lookups, HopTypes
  <2>3. CASE q = r
    <3>1. hops[r] \in Seq(Hop) /\ hops'[r] = Append(hops[r], h)
          /\ DOMAIN hops[r] = 1..Len(hops[r]) /\ Len(hops[r]) \in Nat
      BY <1>0, <2>1, HopFacts DEF HopTypes
    <3>2. /\ DOMAIN hops'[r] = 1..(Len(hops[r]) + 1)
          /\ \A n \in 1..Len(hops[r]) : hops'[r][n] = hops[r][n]
          /\ hops'[r][Len(hops[r]) + 1] = h
      BY <3>1, AppendHop
    <3>3. \A n \in DOMAIN hops'[r] : hops'[r][n].name \in {NoAddr, hops'[r][n].addr}
      BY <1>0, <2>1, <2>3, <3>1, <3>2 DEF HopOf
    <3> QED
      BY <2>2, <2>3, <3>3 DEF HopOf
  <2> QED
    BY <1>1, <2>2, <2>3
<1>4. ASSUME NEW r \in Runs, NEW a \in Addresses, LookupReturns(r, a)
      PROVE  HopOf(q)'
  <2>1. /\ \A p \in Runs \ {r} : hops'[p] = hops[p]
        /\ DOMAIN hops'[r] = DOMAIN hops[r]
        /\ \A n \in DOMAIN hops[r] : n \notin Mine(r, a) => hops'[r][n] = hops[r][n]
        /\ lookup' = [lookup EXCEPT ![r][a] = IF Mine(r, a) = {} THEN "done" ELSE "storing"]
    BY <1>0, <1>4, ReturnEffect
  <2>2. PICK name \in {a, NoAddr} :
          \A n \in DOMAIN hops[r] : n \in Mine(r, a) => hops'[r][n] = [addr |-> a, name |-> name]
    BY <1>0, <1>4, ReturnEffect
  <2>3. lookup[r][a] = "running" /\ UNCHANGED <<pc, arrival>>
    BY <1>4 DEF LookupReturns
  <2>4. pc'[q] = "permit" => lookup'[q][arrival'[q]] = "wanted"
    <3> SUFFICES ASSUME pc[q] = "permit"
                 PROVE  lookup'[q][arrival[q]] = "wanted"
      BY <2>3
    <3>1. lookup[q][arrival[q]] = "wanted" /\ arrival[q] \in Addresses
      BY <1>0 DEF HopOf, TypeInv, Handover
    <3> QED
      BY <1>0, <2>1, <2>3, <3>1 DEF LookupTypes
  <2>5. \A n \in DOMAIN hops'[q] : hops'[q][n].name \in {NoAddr, hops'[q][n].addr}
    BY <1>0, <2>1, <2>2 DEF HopOf
  <2> QED
    BY <2>4, <2>5 DEF HopOf
<1>5. ASSUME NEW r \in Runs, NEW a \in Addresses, LookupStores(r, a)
      PROVE  HopOf(q)'
  <2>1. lookup[r][a] = "storing" /\ UNCHANGED <<pc, arrival, hops>>
    BY <1>5 DEF LookupStores, run
  <2>2. lookup' = [lookup EXCEPT ![r][a] = "done"] \/ lookup' = lookup
    BY <1>5 DEF LookupStores
  <2>3. pc'[q] = "permit" => lookup'[q][arrival'[q]] = "wanted"
    <3> SUFFICES ASSUME pc[q] = "permit"
                 PROVE  lookup'[q][arrival[q]] = "wanted"
      BY <2>1
    <3>1. lookup[q][arrival[q]] = "wanted" /\ arrival[q] \in Addresses
      BY <1>0 DEF HopOf, TypeInv, Handover
    <3> QED
      BY <1>0, <2>1, <2>2, <3>1, SMTT(30) DEF LookupTypes
  <2> QED
    BY <1>0, <2>1, <2>3 DEF HopOf
<1>6. CASE UNCHANGED <<lookup, hops, pc, arrival>>
  BY <1>1, <1>6
<1>7. \/ UNCHANGED <<lookup, hops, pc, arrival>>
      \/ \E r \in Runs :
           \/ Cancelled(r) \/ StreamEnds(r) \/ StreamFails(r)
           \/ StartLock(r) \/ StartFails(r) \/ StartSpawn(r)
           \/ Persist(r) \/ PersistFails(r) \/ Clear(r)
           \/ HopSeen(r) \/ SpawnLookup(r) \/ HopSilent(r) \/ HopPushed(r)
           \/ \E a \in Addresses : LookupReturns(r, a) \/ LookupStores(r, a)
  BY TraceSteps DEF vars, run, lookups, StopTake, StopReturn, Delete
<1> QED
  BY <1>2, <1>3, <1>4, <1>5, <1>6, <1>7

LEMMA NextNameInv ==
    ASSUME TypeInv, IdInv, NameInv, [Next]_vars
    PROVE  NameInv'
<1>1. Grown
  BY StepGrown
<1>2. \A r \in Runs : HopOf(r)' /\ SnapshotOf(r)'
  BY <1>1, NextHopOf, NextSnapshotOf
<1>3. \A r \in Runs : \A a \in Addresses : LookupOf(r, a)'
  BY NextLookupOf
<1>4. RowsCopied'
  BY <1>1, NextRowsCopied
<1> QED
  BY <1>2, <1>3, <1>4 DEF NameInv

-----------------------------------------------------------------------------
(* What the history shows.                                                 *)

\* The hops that the history has of a trace.
Kept(r) == {row.hop : row \in {h \in hopRows : h.run = r}}

\* A trace shows as running, without hops, until all of it is saved at once.
StatusOf(r) ==
    r \notin forgotten /\ tid[r] # 0 =>
        IF pc[r] \in {"clear", "ended"}
        THEN status[tid[r]] \in Verdicts /\ Kept(r) = 1..Len(hops[r])
        ELSE status[tid[r]] = "running" /\ Kept(r) = {}

StatusInv == \A r \in Runs : StatusOf(r)

HistoryInv == TypeInv /\ IdInv /\ NameInv /\ StatusInv

\* The hops of a trace that is saved are the copied ones, all of them.
LEMMA SavedHops ==
    ASSUME TypeInv, IdInv, NameInv, StatusInv, NEW r \in Runs, Persist(r)
    PROVE  /\ tid[r] \in rows /\ r \notin forgotten /\ tid[r] # 0 /\ outcome[r] \in Verdicts
           /\ Kept(r)' = 1..Len(hops[r]) /\ Kept(r) = {} /\ status[tid[r]] = "running"
<1>1. pc[r] = "persist" /\ Working(r)
  BY DEF Persist, Working
<1>2. tid[r] # 0 /\ r \notin forgotten /\ tid[r] \in rows /\ outcome[r] \in Verdicts
  BY <1>1 DEF IdInv, IdOf, TypeInv, Handover
<1>3. status[tid[r]] = "running" /\ Kept(r) = {}
  BY <1>1, <1>2 DEF StatusInv, StatusOf
<1>4. DOMAIN snapshot[r] = 1..Len(hops[r])
  BY <1>1, HopFacts DEF TypeInv, NameInv, SnapshotOf
<1>5. hopRows' = hopRows \cup HopRowsOf(r)
  BY DEF Persist
<1>6. {row.hop : row \in {h \in HopRowsOf(r) : h.run = r}} = DOMAIN snapshot[r]
  <2>1. \A row \in HopRowsOf(r) : row.run = r /\ row.hop \in DOMAIN snapshot[r]
    BY DEF HopRowsOf
  <2>2. \A n \in DOMAIN snapshot[r] : \E row \in HopRowsOf(r) : row.hop = n
    <3> SUFFICES ASSUME NEW n \in DOMAIN snapshot[r]
                 PROVE  \E row \in HopRowsOf(r) : row.hop = n
      OBVIOUS
    <3> DEFINE row == [id |-> tid[r], run |-> r, hop |-> n,
                       addr |-> snapshot[r][n].addr, name |-> snapshot[r][n].name]
    <3>1. row \in HopRowsOf(r) /\ row.hop = n
      BY DEF HopRowsOf
    <3> QED
      BY <3>1
  <2> HIDE DEF HopRowsOf
  <2> QED
    BY <2>1, <2>2
<1>7. Kept(r)' = Kept(r) \cup {row.hop : row \in {h \in HopRowsOf(r) : h.run = r}}
  BY <1>5 DEF Kept
<1> QED
  BY <1>2, <1>3, <1>4, <1>6, <1>7

\* A name that is stored changes neither which hops there are nor whose.
LEMMA KeptNamed ==
    ASSUME TypeInv, NEW r \in Runs, NEW a \in Addresses, LookupStores(r, a), NEW q \in Runs
    PROVE  Kept(q)' = Kept(q)
<1>1. Kept(q)' \subseteq Kept(q)
  BY NamedRows DEF Kept
<1>2. Kept(q) \subseteq Kept(q)'
  BY NamedRows DEF Kept
<1> QED
  BY <1>1, <1>2

\* A step that leaves the row, the hops and the phase of a trace as they are.
LEMMA StatusKept ==
    ASSUME NEW q \in Runs, StatusOf(q),
           q \notin forgotten' => q \notin forgotten,
           tid'[q] = tid[q], q \notin forgotten' /\ tid[q] # 0 => status'[tid[q]] = status[tid[q]],
           q \notin forgotten' => Kept(q)' = Kept(q),
           (pc'[q] \in {"clear", "ended"}) = (pc[q] \in {"clear", "ended"}),
           pc[q] \in {"clear", "ended"} => Len(hops'[q]) = Len(hops[q])
    PROVE  StatusOf(q)'
  BY DEF StatusOf

LEMMA InitStatusInv == Init => StatusInv
  BY DEF Init, StatusInv, StatusOf

LEMMA NextStatusInv ==
    ASSUME HistoryInv, [Next]_vars
    PROVE  StatusInv'
<1> TypeInv /\ IdInv /\ NameInv /\ StatusInv
  BY DEF HistoryInv
<1>0. /\ pc \in [Runs -> Labels] /\ tid \in [Runs -> Nat] /\ hops \in [Runs -> Seq(Hop)]
      /\ rows \subseteq Nat \ {0} /\ \A r \in Runs : StatusOf(r)
      /\ hopRows \subseteq [id : rows, run : Runs, hop : 1..MaxHops, addr : Names, name : Names]
  BY DEF TypeInv, SlotTypes, HopTypes, StatusInv, TableTypes
<1>1. CASE UNCHANGED <<pc, tid, hops, status, hopRows, forgotten>>
  BY <1>1 DEF StatusInv, StatusOf, Kept
<1>2. ASSUME NEW r \in Runs,
             \/ Cancelled(r) \/ StreamEnds(r) \/ StreamFails(r)
             \/ HopSeen(r) \/ HopSilent(r) \/ HopPushed(r) \/ SpawnLookup(r)
             \/ StartLock(r) \/ StartFails(r) \/ PersistFails(r) \/ Clear(r)
      PROVE  StatusInv'
  <2>1. /\ UNCHANGED <<tid, status, hopRows, forgotten>>
        /\ \A q \in Runs : pc[q] \in {"clear", "ended"} => hops'[q] = hops[q]
        /\ \E l \in Labels : /\ pc' = [pc EXCEPT ![r] = l]
                             /\ (l \in {"clear", "ended"}) = (pc[r] \in {"clear", "ended"})
    BY <1>0, <1>2 DEF Cancelled, StreamEnds, StreamFails, Leave, HopSeen, HopSilent,
       HopPushed, SpawnLookup, StartLock, StartFails, PersistFails, Clear, Goto, Labels, tables
  <2>2. \A q \in Runs : Kept(q)' = Kept(q)
    BY <2>1 DEF Kept
  <2>3. \A q \in Runs : (pc'[q] \in {"clear", "ended"}) = (pc[q] \in {"clear", "ended"})
    BY <1>0, <2>1
  <2> QED
    BY <1>0, <2>1, <2>2, <2>3, StatusKept DEF StatusInv
<1>3. ASSUME NEW r \in Runs, StartSpawn(r)
      PROVE  StatusInv'
  <2>1. NextId \in Nat \ {0} /\ \A i \in rows : i < NextId
    BY NextIdProps DEF TypeInv, SlotTypes
  <2>2. /\ tid' = [tid EXCEPT ![r] = NextId] /\ UNCHANGED <<hops, hopRows, forgotten>>
        /\ pc' = [pc EXCEPT ![r] = "loop"] /\ pc[r] = "starting"
        /\ status'[NextId] = "running" /\ \A i \in rows : i # NextId => status'[i] = status[i]
    BY <1>3 DEF StartSpawn, Goto
  <2>3. tid[r] = 0 /\ r \notin forgotten
    BY <2>2 DEF IdInv, IdOf, Unsaved
  <2>4. Kept(r)' = {}
    BY <1>0, <2>2, <2>3 DEF IdInv, RowsOwned, Kept
  <2>5. StatusOf(r)'
    <3>1. tid'[r] = NextId /\ pc'[r] = "loop"
      BY <1>0, <2>2
    <3> QED
      BY <2>2, <2>4, <3>1 DEF StatusOf
  <2>6. ASSUME NEW q \in Runs, q # r
        PROVE  StatusOf(q)'
    <3>1. tid'[q] = tid[q] /\ pc'[q] = pc[q] /\ Kept(q)' = Kept(q)
      BY <1>0, <2>2, <2>6 DEF Kept
    <3>2. q \notin forgotten /\ tid[q] # 0 => tid[q] \in rows /\ tid[q] # NextId
      BY <1>0, <2>1 DEF IdInv, IdOf
    <3> QED
      BY <1>0, <2>2, <3>1, <3>2, StatusKept
  <2> QED
    BY <2>5, <2>6 DEF StatusInv
<1>4. ASSUME NEW r \in Runs, Persist(r)
      PROVE  StatusInv'
  <2>1. /\ tid[r] \in rows /\ r \notin forgotten /\ tid[r] # 0 /\ outcome[r] \in Verdicts
        /\ Kept(r)' = 1..Len(hops[r])
    BY <1>4, SavedHops
  <2>2. /\ UNCHANGED <<tid, hops, forgotten>> /\ pc' = [pc EXCEPT ![r] = "clear"]
        /\ \A i \in rows : status'[i] = IF i = tid[r] THEN outcome[r] ELSE status[i]
        /\ hopRows' = hopRows \cup HopRowsOf(r)
    BY <1>4 DEF Persist, Goto
  <2>3. StatusOf(r)'
    BY <1>0, <2>1, <2>2 DEF StatusOf
  <2>4. ASSUME NEW q \in Runs, q # r
        PROVE  StatusOf(q)'
    <3>1. Kept(q)' = Kept(q)
      BY <2>2, <2>4 DEF Kept, HopRowsOf
    <3>2. q \notin forgotten /\ tid[q] # 0 => tid[q] \in rows /\ tid[q] # tid[r]
      BY <2>1, <2>4 DEF IdInv, IdOf, IdsDiffer
    <3> QED
      BY <1>0, <2>2, <2>4, <3>1, <3>2, StatusKept
  <2> QED
    BY <2>3, <2>4 DEF StatusInv
<1>5. ASSUME NEW r \in Runs, NEW a \in Addresses, LookupReturns(r, a) \/ LookupStores(r, a)
      PROVE  StatusInv'
  <2>1. UNCHANGED <<tid, status, forgotten, pc>>
    BY <1>5 DEF LookupReturns, LookupStores, run, tables
  <2>2. \A q \in Runs : Kept(q)' = Kept(q)
    <3>1. CASE LookupReturns(r, a)
      BY <3>1 DEF LookupReturns, tables, Kept
    <3> QED
      BY <1>5, <3>1, KeptNamed
  <2>3. \A q \in Runs : Len(hops'[q]) = Len(hops[q])
    <3>1. CASE LookupStores(r, a)
      BY <3>1 DEF LookupStores, run
    <3> QED
      BY <1>5, <3>1, HopCount DEF TypeInv
  <2> QED
    BY <1>0, <2>1, <2>2, <2>3, StatusKept DEF StatusInv
<1>6. ASSUME NEW i \in rows, Delete(i)
      PROVE  StatusInv'
  <2>1. /\ UNCHANGED <<pc, tid, hops>> /\ \A j \in rows \ {i} : status'[j] = status[j]
        /\ hopRows' = {row \in hopRows : row.id # i}
        /\ forgotten' = forgotten \cup {r \in Runs : tid[r] = i}
    BY <1>6 DEF Delete, run
  <2>2. ASSUME NEW q \in Runs, q \notin forgotten'
        PROVE  q \notin forgotten /\ Kept(q)' = Kept(q) /\ (tid[q] # 0 => tid[q] \in rows \ {i})
    <3>1. tid[q] # i /\ q \notin forgotten
      BY <2>1, <2>2
    <3>2. \A row \in hopRows : row.run = q => row.id # i
      BY <3>1 DEF IdInv, RowsOwned
    <3>3. Kept(q)' = Kept(q)
      BY <2>1, <3>2 DEF Kept
    <3> QED
      BY <3>1, <3>3 DEF IdInv, IdOf
  <2> QED
    BY <1>0, <2>1, <2>2, StatusKept DEF StatusInv
<1>7. \/ UNCHANGED <<pc, tid, hops, status, hopRows, forgotten>>
      \/ \E r \in Runs :
           \/ Cancelled(r) \/ StreamEnds(r) \/ StreamFails(r)
           \/ HopSeen(r) \/ HopSilent(r) \/ HopPushed(r) \/ SpawnLookup(r)
           \/ StartLock(r) \/ StartFails(r) \/ PersistFails(r) \/ Clear(r)
           \/ StartSpawn(r) \/ Persist(r)
           \/ \E a \in Addresses : LookupReturns(r, a) \/ LookupStores(r, a)
      \/ \E i \in rows : Delete(i)
  BY TraceSteps DEF vars, run, tables, StopTake, StopReturn
<1> QED
  BY <1>1, <1>2, <1>3, <1>4, <1>5, <1>6, <1>7

\* The inductive invariant of the history.
LEMMA HistoryInvHolds ==
    ASSUME DeleteBusy = FALSE
    PROVE  Spec => []HistoryInv
<1>1. Init => HistoryInv
  BY InitTypeInv, InitIdInv, InitNameInv, InitStatusInv DEF HistoryInv
<1>2. HistoryInv /\ TypeInv' /\ [Next]_vars => HistoryInv'
  BY NextIdInv, NextNameInv, NextStatusInv DEF HistoryInv
<1> QED
  BY <1>1, <1>2, TypeInvHolds, PTL DEF Spec

\* A finished trace has each of its hops in the history, under the address it
\* answered from, and a trace that runs or could not be saved has none.
THEOREM HopsCompleteHolds ==
    ASSUME DeleteBusy = FALSE
    PROVE  Spec => []HopsComplete
<1>1. HistoryInv => HopsComplete
  <2> SUFFICES ASSUME HistoryInv, NEW r \in Runs, r \notin forgotten, tid[r] \in rows
               PROVE  LET mine == {row \in hopRows : row.id = tid[r]} IN
                      IF status[tid[r]] = "running" THEN mine = {}
                      ELSE /\ {row.hop : row \in mine} = 1..Len(hops[r])
                           /\ \A row \in mine : row.run = r /\ row.addr = hops[r][row.hop].addr
    BY DEF HopsComplete
  <2> DEFINE mine == {row \in hopRows : row.id = tid[r]}
  <2>1. tid[r] # 0 /\ hopRows \subseteq [id : rows, run : Runs, hop : 1..MaxHops,
                                         addr : Names, name : Names]
    BY DEF HistoryInv, TypeInv, SlotTypes, TableTypes
  <2>2. \A row \in mine : row.run = r
    BY <2>1 DEF HistoryInv, IdInv, RowsOwned, IdsDiffer
  <2>3. \A row \in hopRows : row.run = r => row \in mine
    BY DEF HistoryInv, IdInv, RowsOwned
  <2>4. {row.hop : row \in mine} = Kept(r)
    BY <2>2, <2>3 DEF Kept
  <2>5. \A row \in mine : row.addr = hops[r][row.hop].addr
    BY <2>2 DEF HistoryInv, NameInv, RowsCopied, CopyOf
  <2>6. IF status[tid[r]] = "running" THEN Kept(r) = {} ELSE Kept(r) = 1..Len(hops[r])
    BY <2>1 DEF HistoryInv, StatusInv, StatusOf, Verdicts
  <2>7. Kept(r) = {} => mine = {}
    BY <2>4
  <2> HIDE DEF mine
  <2>8. IF status[tid[r]] = "running" THEN mine = {}
        ELSE /\ {row.hop : row \in mine} = 1..Len(hops[r])
             /\ \A row \in mine : row.run = r /\ row.addr = hops[r][row.hop].addr
    BY <2>2, <2>4, <2>5, <2>6, <2>7
  <2> QED
    BY <2>8 DEF mine
<1> QED
  BY <1>1, HistoryInvHolds, PTL

\* A name that is stored is the one the hop has, so a row that has a name
\* already is left as it is.
LEMMA NameKept ==
    ASSUME HistoryInv, [Next]_vars, NEW row \in hopRows, row.name # NoAddr, row.id \in rows'
    PROVE  row \in hopRows'
<1>0. hopRows \subseteq [id : rows, run : Runs, hop : 1..MaxHops, addr : Names, name : Names]
  BY DEF HistoryInv, TypeInv, TableTypes
<1>1. CASE hopRows \subseteq hopRows'
  BY <1>1
<1>2. ASSUME NEW r \in Runs, NEW a \in Addresses, LookupStores(r, a)
      PROVE  row \in hopRows'
  <2>1. PICK new \in hopRows' :
          /\ new.id = row.id /\ new.run = row.run /\ new.hop = row.hop /\ new.addr = row.addr
          /\ new = row \/ /\ row.id = tid[r] /\ row.hop \in todo[r][a]
                          /\ new.name = named[r][a]
    BY <1>2, NamedRows DEF HistoryInv
  <2>2. CASE row.id = tid[r] /\ row.hop \in todo[r][a] /\ new.name = named[r][a]
    <3>1. lookup[r][a] = "storing" /\ row.run \in Runs
      BY <1>0, <1>2 DEF LookupStores
    <3>2. row.run = r
      BY <2>2, <3>1, LookupRows DEF HistoryInv
    <3>3. LookupOf(r, a) /\ CopyOf(r, row.hop, row)
      BY <3>2 DEF HistoryInv, NameInv, RowsCopied
    <3>4. hops[r][row.hop].name = named[r][a]
      <4>1. hops[r][row.hop] = [addr |-> a, name |-> named[r][a]]
        BY <2>2, <3>3 DEF LookupOf
      <4> QED
        BY <4>1
    <3>5. new.name = row.name
      BY <2>2, <3>3, <3>4 DEF CopyOf
    <3>6. TypeInv /\ [Next]_vars
      BY DEF HistoryInv
    <3>7. new \in [id : rows', run : Runs, hop : 1..MaxHops, addr : Names, name : Names]
      BY <3>6, NextTableTypes DEF TableTypes
    <3>8. new = row
      BY <1>0, <2>1, <3>5, <3>7
    <3> QED
      BY <3>8
  <2> QED
    BY <2>1, <2>2
<1>3. ASSUME NEW i \in rows, Delete(i)
      PROVE  row \in hopRows'
  BY <1>3 DEF Delete, rows
<1>4. \/ hopRows \subseteq hopRows'
      \/ \E r \in Runs, a \in Addresses : LookupStores(r, a)
      \/ \E i \in rows : Delete(i)
  BY TraceSteps, ZenonT(40) DEF vars, tables, StartLock, StartFails, StartSpawn, StopTake, StopReturn,
     Cancelled, StreamEnds, StreamFails, Leave, HopSeen, HopSilent, HopPushed, SpawnLookup,
     Persist, PersistFails, Clear, LookupReturns
<1> QED
  BY <1>1, <1>2, <1>3, <1>4

LEMMA NamesFollow == HistoryInv => NamesBelong
<1> SUFFICES ASSUME HistoryInv, NEW row \in hopRows
             PROVE  row.name \in {NoAddr, row.addr}
  BY DEF NamesBelong
<1>1. row.run \in Runs
  BY DEF HistoryInv, TypeInv, TableTypes
<1>2. CopyOf(row.run, row.hop, row) /\ HopOf(row.run)
  BY <1>1 DEF HistoryInv, NameInv, RowsCopied
<1> QED
  BY <1>2 DEF CopyOf, HopOf

\* A hostname enters the history at a hop of its address, however late the
\* lookup returns, and the history does not lose one while it has the trace.
THEOREM NamesTrueHolds ==
    ASSUME DeleteBusy = FALSE
    PROVE  Spec => NamesTrue
<1>1. HistoryInv /\ HistoryInv' /\ [Next]_vars =>
        [/\ NamesBelong'
         /\ \A row \in hopRows : row.name # NoAddr /\ row.id \in rows' => row \in hopRows']_vars
  <2>1. HistoryInv' => NamesBelong'
    BY NamesFollow, PTL
  <2> QED
    BY <2>1, NameKept
<1> QED
  BY <1>1, HistoryInvHolds, PTL DEF Spec, NamesTrue

-----------------------------------------------------------------------------
(* The refinement.                                                         *)

\* What RunHistory sees of a trace (the substitution of History).
StateOf(r) ==
    IF tid[r] = 0 THEN "new"
    ELSE IF r \in forgotten THEN "deleted"
    ELSE IF pc[r] = "broken" THEN "abandoned"
    ELSE IF status[tid[r]] = "running" THEN "open" ELSE status[tid[r]]

ViewOf(r) == <<StateOf(r), Len(hops[r]), Kept(r)>>

\* If the history sees nothing change in any trace, its variables stay.
LEMMA HistoryBlind ==
    ASSUME \A q \in Runs : ViewOf(q)' = ViewOf(q)
    PROVE  UNCHANGED History!historyVars
<1>1. \A q \in Runs : /\ StateOf(q)' = StateOf(q) /\ Len(hops'[q]) = Len(hops[q])
                      /\ Kept(q)' = Kept(q)
  BY DEF ViewOf
<1>2. [q \in Runs |-> StateOf(q)]' = [q \in Runs |-> StateOf(q)]
  BY <1>1
<1>3. [q \in Runs |-> Len(hops[q])]' = [q \in Runs |-> Len(hops[q])]
  BY <1>1
<1>4. [q \in Runs |-> Kept(q)]' = [q \in Runs |-> Kept(q)]
  BY <1>1
<1> QED
  BY <1>2, <1>3, <1>4 DEF History!historyVars, StateOf, Kept

\* A step that the history sees in one trace only.
LEMMA ViewIn ==
    ASSUME NEW r \in Runs, \A q \in Runs \ {r} : ViewOf(q)' = ViewOf(q)
    PROVE  /\ \A v : StateOf(r)' = v =>
                [q \in Runs |-> StateOf(q)]' = [[q \in Runs |-> StateOf(q)] EXCEPT ![r] = v]
           /\ \A v : Len(hops'[r]) = v =>
                [q \in Runs |-> Len(hops[q])]' = [[q \in Runs |-> Len(hops[q])] EXCEPT ![r] = v]
           /\ \A v : Kept(r)' = v =>
                [q \in Runs |-> Kept(q)]' = [[q \in Runs |-> Kept(q)] EXCEPT ![r] = v]
           /\ StateOf(r)' = StateOf(r) =>
                [q \in Runs |-> StateOf(q)]' = [q \in Runs |-> StateOf(q)]
           /\ Len(hops'[r]) = Len(hops[r]) =>
                [q \in Runs |-> Len(hops[q])]' = [q \in Runs |-> Len(hops[q])]
           /\ Kept(r)' = Kept(r) => [q \in Runs |-> Kept(q)]' = [q \in Runs |-> Kept(q)]
<1>1. \A q \in Runs \ {r} : /\ StateOf(q)' = StateOf(q) /\ Len(hops'[q]) = Len(hops[q])
                            /\ Kept(q)' = Kept(q)
  BY DEF ViewOf
<1> QED
  BY <1>1

\* create_trace opens the trace.
LEMMA SpawnHistory ==
    ASSUME HistoryInv, NEW r \in Runs, StartSpawn(r)
    PROVE  History!Open(r)
<1>0. /\ pc \in [Runs -> Labels] /\ tid \in [Runs -> Nat] /\ rows \subseteq Nat \ {0}
  BY DEF HistoryInv, TypeInv, SlotTypes
<1>1. NextId \in Nat \ {0} /\ \A i \in rows : i < NextId
  BY NextIdProps DEF HistoryInv, TypeInv, SlotTypes
<1>2. /\ tid' = [tid EXCEPT ![r] = NextId] /\ UNCHANGED <<hops, hopRows, forgotten>>
      /\ pc' = [pc EXCEPT ![r] = "loop"] /\ pc[r] = "starting"
      /\ status'[NextId] = "running" /\ \A i \in rows : i # NextId => status'[i] = status[i]
  BY DEF StartSpawn, Goto
<1>3. tid[r] = 0 /\ r \notin forgotten
  BY <1>2 DEF HistoryInv, IdInv, IdOf, Unsaved
<1>4. \A q \in Runs : Kept(q)' = Kept(q) /\ Len(hops'[q]) = Len(hops[q])
  BY <1>2 DEF Kept
<1>5. \A q \in Runs \ {r} : StateOf(q)' = StateOf(q)
  <2>1. \A q \in Runs \ {r} : tid'[q] = tid[q] /\ pc'[q] = pc[q]
    BY <1>0, <1>2
  <2>2. \A q \in Runs : q \notin forgotten /\ tid[q] # 0 => tid[q] \in rows /\ tid[q] # NextId
    BY <1>0, <1>1 DEF HistoryInv, IdInv, IdOf
  <2> QED
    BY <1>2, <2>1, <2>2 DEF StateOf
<1>6. StateOf(r) = "new" /\ StateOf(r)' = "open"
  <2>1. tid'[r] = NextId /\ pc'[r] = "loop"
    BY <1>0, <1>2
  <2> QED
    BY <1>1, <1>2, <1>3, <2>1 DEF StateOf
<1>7. \A q \in Runs \ {r} : ViewOf(q)' = ViewOf(q)
  BY <1>4, <1>5 DEF ViewOf
<1> QED
  BY <1>4, <1>6, <1>7, ViewIn DEF History!Open, StateOf, Kept

\* A hop that is handled is shown.
LEMMA HopHistory ==
    ASSUME HistoryInv, NEW r \in Runs, HopSilent(r) \/ HopPushed(r)
    PROVE  History!Show(r)
<1>0. /\ pc \in [Runs -> Labels] /\ hops \in [Runs -> Seq(Hop)] /\ arrival \in [Runs -> Names]
  BY DEF HistoryInv, TypeInv, SlotTypes, HopTypes, TaskTypes
<1>1. PICK h \in Hop : hops' = [hops EXCEPT ![r] = Append(@, h)]
  BY <1>0 DEF HopSilent, HopPushed, Hop, Names
<1>2. /\ UNCHANGED <<tid, status, hopRows, forgotten>> /\ pc[r] \in {"loop", "pushing"}
      /\ \E l \in {"loop", "permit"} : pc' = [pc EXCEPT ![r] = l]
  BY <1>0 DEF HopSilent, HopPushed, Goto, tables
<1>3. /\ Len(hops'[r]) = Len(hops[r]) + 1
      /\ \A q \in Runs \ {r} : hops'[q] = hops[q]
  <2>1. Len(Append(hops[r], h)) = Len(hops[r]) + 1
    BY <1>0, AppendHop
  <2> QED
    BY <1>0, <1>1, <2>1
<1>4. \A q \in Runs : Kept(q)' = Kept(q) /\ StateOf(q)' = StateOf(q)
  BY <1>0, <1>2 DEF Kept, StateOf
<1>5. StateOf(r) = "open"
  <2>1. tid[r] # 0 /\ r \notin forgotten
    BY <1>2 DEF HistoryInv, IdInv, IdOf, Working, Looping
  <2> QED
    BY <1>2, <2>1 DEF HistoryInv, StatusInv, StatusOf, StateOf
<1>6. \A q \in Runs \ {r} : ViewOf(q)' = ViewOf(q)
  BY <1>3, <1>4 DEF ViewOf
<1> QED
  BY <1>3, <1>4, <1>5, <1>6, ViewIn, ZenonT(40) DEF History!Show, StateOf, Kept

\* The transaction gives the trace its verdict and its hops.
LEMMA PersistHistory ==
    ASSUME HistoryInv, NEW r \in Runs, Persist(r)
    PROVE  History!Close(r)
<1>0. /\ pc \in [Runs -> Labels] /\ TypeInv /\ IdInv /\ NameInv /\ StatusInv
  BY DEF HistoryInv, TypeInv, SlotTypes
<1>1. /\ tid[r] \in rows /\ r \notin forgotten /\ tid[r] # 0 /\ outcome[r] \in Verdicts
      /\ Kept(r)' = 1..Len(hops[r]) /\ status[tid[r]] = "running"
  BY <1>0, SavedHops
<1>2. /\ UNCHANGED <<tid, hops, forgotten>> /\ pc' = [pc EXCEPT ![r] = "clear"]
      /\ pc[r] = "persist"
      /\ \A i \in rows : status'[i] = IF i = tid[r] THEN outcome[r] ELSE status[i]
      /\ hopRows' = hopRows \cup HopRowsOf(r)
  BY DEF Persist, Goto
<1>3. ASSUME NEW q \in Runs \ {r}
      PROVE  ViewOf(q)' = ViewOf(q)
  <2>1. Kept(q)' = Kept(q)
    BY <1>2 DEF Kept, HopRowsOf
  <2>2. q \notin forgotten /\ tid[q] # 0 => tid[q] \in rows /\ tid[q] # tid[r]
    BY <1>0, <1>1 DEF IdInv, IdOf, IdsDiffer
  <2>3. StateOf(q)' = StateOf(q)
    BY <1>0, <1>2, <2>2 DEF StateOf
  <2> QED
    BY <1>2, <2>1, <2>3 DEF ViewOf
<1>4. StateOf(r) = "open" /\ StateOf(r)' = outcome[r]
  BY <1>0, <1>1, <1>2 DEF StateOf, Verdicts
<1>5. Len(hops'[r]) = Len(hops[r])
  BY <1>2
<1> QED
  BY <1>1, <1>3, <1>4, <1>5, ViewIn DEF History!Close, StateOf, Kept

\* A transaction that fails leaves the trace open for ever.
LEMMA PersistFailsHistory ==
    ASSUME HistoryInv, NEW r \in Runs, PersistFails(r)
    PROVE  History!Abandon(r)
<1>0. pc \in [Runs -> Labels]
  BY DEF HistoryInv, TypeInv, SlotTypes
<1>1. /\ UNCHANGED <<tid, hops, tables>> /\ pc' = [pc EXCEPT ![r] = "broken"]
      /\ pc[r] = "persist"
  BY DEF PersistFails, Goto
<1>2. tid[r] # 0 /\ r \notin forgotten
  BY <1>1 DEF HistoryInv, IdInv, IdOf, Working, Looping
<1>3. \A q \in Runs : Kept(q)' = Kept(q) /\ Len(hops'[q]) = Len(hops[q])
  BY <1>1 DEF Kept, tables
<1>4. \A q \in Runs \ {r} : ViewOf(q)' = ViewOf(q)
  BY <1>0, <1>1, <1>3 DEF ViewOf, StateOf, tables
<1>5. StateOf(r) = "open" /\ StateOf(r)' = "abandoned"
  BY <1>0, <1>1, <1>2 DEF HistoryInv, StatusInv, StatusOf, StateOf, tables
<1> QED
  BY <1>3, <1>4, <1>5, ViewIn DEF History!Abandon, StateOf, Kept

\* A row that is deleted is that of one trace, whatever ids were used before.
LEMMA DeleteHistory ==
    ASSUME HistoryInv, NEW i \in rows, Delete(i)
    PROVE  (\E r \in Runs : History!Delete(r)) \/ UNCHANGED History!historyVars
<1>0. rows \subseteq Nat \ {0} /\ IdInv
  BY DEF HistoryInv, TypeInv, SlotTypes
<1>1. /\ UNCHANGED <<pc, tid, hops>> /\ \A j \in rows \ {i} : status'[j] = status[j]
      /\ hopRows' = {row \in hopRows : row.id # i}
      /\ forgotten' = forgotten \cup {r \in Runs : tid[r] = i}
  BY DEF Delete, run
<1>2. ASSUME NEW q \in Runs, tid[q] # i \/ q \in forgotten
      PROVE  ViewOf(q)' = ViewOf(q)
  <2>1. q \in forgotten' <=> q \in forgotten
    BY <1>1, <1>2
  <2>2. \A row \in hopRows : row.run = q => row.id # i
    BY <1>0, <1>2 DEF IdInv, RowsOwned
  <2>3. Kept(q)' = Kept(q)
    BY <1>1, <2>2 DEF Kept
  <2>4. q \notin forgotten /\ tid[q] # 0 => tid[q] \in rows \ {i}
    BY <1>0, <1>2 DEF IdInv, IdOf
  <2>5. StateOf(q)' = StateOf(q)
    BY <1>1, <2>1, <2>4 DEF StateOf
  <2> QED
    BY <1>1, <2>3, <2>5 DEF ViewOf
<1>3. CASE \A q \in Runs : tid[q] # i \/ q \in forgotten
  BY <1>2, <1>3, HistoryBlind
<1>4. ASSUME NEW r \in Runs, tid[r] = i, r \notin forgotten
      PROVE  History!Delete(r)
  <2>1. tid[r] # 0
    BY <1>0, <1>4
  <2>2. \A q \in Runs \ {r} : tid[q] # i \/ q \in forgotten
    BY <1>0, <1>4, <2>1 DEF IdInv, IdsDiffer
  <2>3. \A q \in Runs \ {r} : ViewOf(q)' = ViewOf(q)
    BY <1>2, <2>2
  <2>4. StateOf(r) # "new" /\ StateOf(r)' = "deleted"
    <3>1. StateOf(r) # "new"
      <4>1. status[tid[r]] \in Verdicts \cup {"running"}
        BY <1>4 DEF HistoryInv, TypeInv, TableTypes
      <4> QED
        BY <1>4, <2>1, <4>1 DEF StateOf, Verdicts
    <3> QED
      BY <1>1, <1>4, <2>1, <3>1 DEF StateOf
  <2>5. Kept(r)' = {}
    BY <1>0, <1>1, <1>4 DEF Kept, IdInv, RowsOwned
  <2>6. Len(hops'[r]) = Len(hops[r])
    BY <1>1
  <2> QED
    BY <2>3, <2>4, <2>5, <2>6, ViewIn DEF History!Delete, StateOf, Kept
<1> QED
  BY <1>3, <1>4

\* The other steps are the trace's own business.
LEMMA QuietHistory ==
    ASSUME HistoryInv, NEW r \in Runs,
           \/ StartLock(r) \/ StartFails(r) \/ StopTake(r) \/ StopReturn(r)
           \/ Cancelled(r) \/ StreamEnds(r) \/ StreamFails(r)
           \/ HopSeen(r) \/ SpawnLookup(r) \/ Clear(r)
           \/ \E a \in Addresses : LookupReturns(r, a) \/ LookupStores(r, a)
    PROVE  UNCHANGED History!historyVars
<1>0. pc \in [Runs -> Labels] /\ TypeInv /\ HopTypes
  BY DEF HistoryInv, TypeInv, SlotTypes
<1>1. UNCHANGED <<tid, status, forgotten>>
  BY DEF StartLock, StartFails, StopTake, StopReturn, Cancelled, StreamEnds, StreamFails,
     Leave, HopSeen, SpawnLookup, Clear, LookupReturns, LookupStores, run, tables
<1>2. \A q \in Runs : (pc'[q] = "broken") = (pc[q] = "broken")
  BY <1>0 DEF StartLock, StartFails, StopTake, StopReturn, Cancelled, StreamEnds, StreamFails,
     Leave, HopSeen, SpawnLookup, Clear, LookupReturns, LookupStores, run, Goto
<1>3. \A q \in Runs : Len(hops'[q]) = Len(hops[q])
  <2>1. CASE hops' = hops
    BY <2>1
  <2>2. CASE \E a \in Addresses : LookupReturns(r, a)
    BY <1>0, <2>2, HopCount
  <2> QED
    BY <2>1, <2>2 DEF StartLock, StartFails, StopTake, StopReturn, Cancelled, StreamEnds,
       StreamFails, Leave, HopSeen, SpawnLookup, Clear, LookupStores, run
<1>4. \A q \in Runs : Kept(q)' = Kept(q)
  <2>1. CASE hopRows' = hopRows
    BY <2>1 DEF Kept
  <2>2. CASE \E a \in Addresses : LookupStores(r, a)
    BY <1>0, <2>2, KeptNamed
  <2> QED
    BY <2>1, <2>2 DEF StartLock, StartFails, StopTake, StopReturn, Cancelled, StreamEnds,
       StreamFails, Leave, HopSeen, SpawnLookup, Clear, LookupReturns, tables
<1>5. \A q \in Runs : ViewOf(q)' = ViewOf(q)
  BY <1>1, <1>2, <1>3, <1>4 DEF ViewOf, StateOf
<1> QED
  BY <1>5, HistoryBlind

LEMMA InitHistory == Init => History!HistoryInit
<1> SUFFICES ASSUME Init
             PROVE  History!HistoryInit
  OBVIOUS
<1>1. Len(<<>>) = 0
  OBVIOUS
<1>2. \A q \in Runs : hops[q] = <<>> /\ StateOf(q) = "new" /\ Kept(q) = {}
  BY DEF Init, StateOf, Kept
<1>3. \A q \in Runs : Len(hops[q]) = 0
  BY <1>1, <1>2, Zenon
<1> QED
  BY <1>2, <1>3 DEF History!HistoryInit, StateOf, Kept

\* Every step is a step of the history or invisible to it.
LEMMA NextHistory == HistoryInv /\ [Next]_vars => [History!HistoryNext]_(History!historyVars)
<1> SUFFICES ASSUME HistoryInv, [Next]_vars
             PROVE  History!HistoryNext \/ UNCHANGED History!historyVars
  OBVIOUS
<1>1. CASE UNCHANGED vars
  <2>1. \A q \in Runs : ViewOf(q)' = ViewOf(q)
    BY <1>1 DEF vars, run, tables, ViewOf, StateOf, Kept
  <2> QED
    BY <2>1, HistoryBlind
<1>2. ASSUME NEW r \in Runs, StartSpawn(r)
      PROVE  History!HistoryNext
  BY <1>2, SpawnHistory DEF History!HistoryNext
<1>3. ASSUME NEW r \in Runs, HopSilent(r) \/ HopPushed(r)
      PROVE  History!HistoryNext
  BY <1>3, HopHistory DEF History!HistoryNext
<1>4. ASSUME NEW r \in Runs, Persist(r) \/ PersistFails(r)
      PROVE  History!HistoryNext
  BY <1>4, PersistHistory, PersistFailsHistory DEF History!HistoryNext
<1>5. ASSUME NEW i \in rows, Delete(i)
      PROVE  History!HistoryNext \/ UNCHANGED History!historyVars
  BY <1>5, DeleteHistory DEF History!HistoryNext
<1> QED
  BY <1>1, <1>2, <1>3, <1>4, <1>5, TraceSteps, QuietHistory

\* Traces - loop, lookups, stop(), failures and deletions - implement the
\* history of RunHistory, for any number of traces: a trace is closed once, its
\* verdict and all of its hops appear together, and a closed one does not
\* change until it is deleted.
THEOREM ImplementsHistoryHolds ==
    ASSUME DeleteBusy = FALSE
    PROVE  Spec => ImplementsHistory
<1>1. Init => History!HistoryInit
  BY InitHistory
<1>2. HistoryInv /\ [Next]_vars => [History!HistoryNext]_(History!historyVars)
  BY NextHistory
<1> QED
  BY <1>1, <1>2, HistoryInvHolds, PTL DEF Spec, ImplementsHistory, History!HistorySpec
=============================================================================
