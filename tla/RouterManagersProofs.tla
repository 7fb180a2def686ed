------------------------- MODULE RouterManagersProofs ------------------------
(***************************************************************************)
(* Proofs about RouterManagers: MikrotikSessions, MikrotikLogs and         *)
(* Backups, for any number of calls, any profiles, names, cap and number   *)
(* of failures: a router has one task, which stop() reaches, the history   *)
(* of each session is its own, and a record of a backup has its files.     *)
(*                                                                         *)
(* clear_active goes by session id, so whoever has the id loses its slot.  *)
(* That is harmless to the slots (SlotInv), as the task of the entry sees  *)
(* its sender gone.  The history needs the ids to be unique (OwnInv).      *)
(* Backups rest on a name having one call at a time (TidyInv, BookInv).    *)
(***************************************************************************)
EXTENDS RouterManagers, TLAPS, WellFoundedInduction, FiniteSetTheorems

\* Nobody, which stands for None, is neither a session nor a profile, and the
\* limits are numbers; a session survives at least no failure at all.
SettingAssumption ==
    /\ Nobody \notin Sessions \cup Profiles
    /\ MaxActive \in Nat
    /\ MaxCoreFailures \in Nat \ {0}

-----------------------------------------------------------------------------
(* Types.                                                                  *)

Live == {"tick", "fetch", "identity", "snapshot"}
Over == {"complete", "clear", "ended", "broken"}
Stages == {"idle", "refused", "failed", "connect", "claim"} \cup Live \cup Over
Verdicts == {"running", "cancelled", "error"}

SessionTypes ==
    [pc : Stages, profile : Profiles \cup {Nobody}, id : Nat, stop : BOOLEAN,
     stopper : {"none", "joining", "returned"}, ticks : Nat, failures : Nat, streak : Nat,
     identity : BOOLEAN, count : Nat, status : Verdicts,
     probe : {"none", "polling", "save", "done"}]

RowTypes ==
    [owner : Sessions, profile : Profiles, status : Verdicts, identity : BOOLEAN,
     version : Sessions \cup {Nobody}]

TypeInv ==
    /\ active \in [Profiles -> Sessions \cup {Nobody}]
    /\ session \in [Sessions -> SessionTypes]
    /\ rows \in [ids -> RowTypes]
    /\ ids \subseteq Nat \ {0} /\ \E n \in Nat : \A i \in ids : i <= n
    /\ snapshots \subseteq [id : ids, owner : Sessions, n : Nat]
    /\ profiles \subseteq Profiles

\* A bounded set of row ids has a largest one (0 when it is empty).
LEMMA MaxRowExists ==
    ASSUME NEW S \in SUBSET Nat, NEW b \in Nat, \A i \in S : i <= b
    PROVE  \E m \in S \cup {0} : \A i \in S : i <= m
<1> DEFINE bounds == {n \in Nat : \A i \in S : i <= n}
<1>1. bounds # {} /\ bounds \subseteq Nat
  OBVIOUS
<1>2. IsWellFoundedOn(OpToRel(<, Nat), Nat)
  BY NatLessThanWellFounded
<1>3. PICK m \in bounds : \A n \in bounds : ~(<<n, m>> \in OpToRel(<, Nat))
  <2> HIDE DEF bounds
  <2>1. IsWellFoundedOn(OpToRel(<, Nat), bounds)
    BY <1>1, <1>2, IsWellFoundedOnSubset, Zenon
  <2> QED
    BY <1>1, <2>1, WFMin, Zenon
<1>4. \A n \in bounds : ~(n < m)
  BY <1>1, <1>3 DEF OpToRel
<1>5. m \in S \cup {0}
  <2> SUFFICES ASSUME m \notin S, m # 0
               PROVE  FALSE
    OBVIOUS
  <2>1. m - 1 \in Nat /\ \A i \in S : i <= m - 1
    OBVIOUS
  <2> QED
    BY <1>4, <2>1
<1> QED
  BY <1>5

\* The id of a new row is new.
LEMMA NextIdProps ==
    ASSUME TypeInv
    PROVE  /\ NextId \in Nat \ {0} /\ NextId \notin ids
           /\ \A i \in ids : i <= NextId
<1> DEFINE max == CHOOSE m \in ids \cup {0} : \A i \in ids : i <= m
<1>1. \E m \in ids \cup {0} : \A i \in ids : i <= m
  <2>1. PICK b \in Nat : \A i \in ids : i <= b
    BY DEF TypeInv
  <2> QED
    BY <2>1, MaxRowExists DEF TypeInv
<1>2. max \in ids \cup {0} /\ \A i \in ids : i <= max
  BY <1>1
<1>3. NextId = 1 + max
  BY DEF NextId
<1> HIDE DEF max
<1> QED
  BY <1>2, <1>3 DEF TypeInv

-----------------------------------------------------------------------------
(* What the steps do.                                                      *)

Becomes(s, u) == session' = [session EXCEPT ![s] = u]
TablesKept == rows' = rows /\ snapshots' = snapshots /\ profiles' = profiles

LEMMA StartCheckEffect ==
    ASSUME TypeInv, NEW s \in Sessions, NEW p \in Profiles, StartCheck(s, p)
    PROVE  /\ session[s].pc = "idle" /\ active' = active /\ TablesKept
           /\ \E pc \in {"refused", "connect"} :
                Becomes(s, [session[s] EXCEPT !.pc = pc, !.profile = p])
BY DEF TypeInv, StartCheck, TablesKept, Becomes

LEMMA ConnectEffect ==
    ASSUME TypeInv, NEW s \in Sessions, Connect(s)
    PROVE  /\ session[s].pc = "connect" /\ active' = active /\ TablesKept
           /\ \E pc \in {"claim", "failed"} : Becomes(s, [session[s] EXCEPT !.pc = pc])
BY DEF TypeInv, Connect, Go, TablesKept, Becomes

LEMMA ClaimEffect ==
    ASSUME TypeInv, NEW s \in Sessions, Claim(s)
    PROVE  /\ session[s].pc = "claim" /\ snapshots' = snapshots /\ profiles' = profiles
           /\ \/ /\ active' = active /\ rows' = rows
                 /\ \E pc \in {"refused", "failed"} :
                      Becomes(s, [session[s] EXCEPT !.pc = pc])
              \/ /\ session[s].profile \in profiles \ watched
                 /\ ~(Cardinality(watched) >= MaxActive)
                 /\ Register(s, session[s].profile)
BY DEF TypeInv, Claim, Go, Becomes

LEMMA StopEffect ==
    ASSUME TypeInv, NEW s \in Sessions, Stop(s)
    PROVE  /\ s \in held /\ TablesKept
           /\ active' = [p \in Profiles |-> IF active[p] = s THEN Nobody ELSE active[p]]
           /\ Becomes(s, [session[s] EXCEPT !.stop = TRUE, !.stopper = "joining"])
BY DEF TypeInv, Stop, TablesKept, Becomes

LEMMA StopReturnEffect ==
    ASSUME TypeInv, NEW s \in Sessions, StopReturn(s)
    PROVE  /\ active' = active /\ TablesKept
           /\ Becomes(s, [session[s] EXCEPT !.stopper = "returned"])
BY DEF TypeInv, StopReturn, TablesKept, Becomes

LEMMA CancelEffect ==
    ASSUME TypeInv, NEW s \in Sessions, Cancel(s)
    PROVE  /\ session[s].pc = "tick" /\ session[s].stop /\ active' = active /\ TablesKept
           /\ Becomes(s, [session[s] EXCEPT !.pc = "complete", !.status = "cancelled"])
BY DEF TypeInv, Cancel, TablesKept, Becomes

LEMMA TickEffect ==
    ASSUME TypeInv, NEW s \in Sessions, Tick(s)
    PROVE  /\ session[s].pc = "tick" /\ active' = active /\ TablesKept
           /\ Becomes(s, [session[s] EXCEPT !.pc = "fetch", !.ticks = session[s].ticks + 1])
BY DEF TypeInv, Tick, TablesKept, Becomes

LEMMA FetchedEffect ==
    ASSUME TypeInv, NEW s \in Sessions, Fetched(s)
    PROVE  /\ session[s].pc = "fetch" /\ active' = active /\ TablesKept
           /\ \E pc \in {"snapshot", "identity"} :
                Becomes(s, [session[s] EXCEPT !.failures = 0, !.streak = 0, !.pc = pc])
BY DEF TypeInv, Fetched, TablesKept, Becomes

LEMMA FetchFailedEffect ==
    ASSUME TypeInv, NEW s \in Sessions, FetchFailed(s)
    PROVE  /\ session[s].pc = "fetch" /\ TablesKept
           /\ \/ /\ session[s].failures + 1 < MaxCoreFailures /\ active' = active
                 /\ Becomes(s, [session[s] EXCEPT !.failures = session[s].failures + 1,
                                                  !.streak = session[s].streak + 1,
                                                  !.pc = "tick"])
              \/ /\ ~(session[s].failures + 1 < MaxCoreFailures)
                 /\ Clear(s, [session[s] EXCEPT !.failures = session[s].failures + 1,
                                                !.streak = session[s].streak + 1,
                                                !.pc = "complete", !.status = "error"])
BY DEF TypeInv, FetchFailed, TablesKept, Becomes

LEMMA SnapshotEffect ==
    ASSUME TypeInv, NEW s \in Sessions, Snapshot(s)
    PROVE  /\ session[s].pc = "snapshot" /\ active' = active
           /\ rows' = rows /\ profiles' = profiles
           /\ \/ /\ session[s].id \in ids
                 /\ snapshots' = snapshots \cup {[id |-> session[s].id, owner |-> s,
                                                  n |-> session[s].count + 1]}
                 /\ Becomes(s, [session[s] EXCEPT !.pc = "tick",
                                                  !.count = session[s].count + 1])
              \/ /\ snapshots' = snapshots
                 /\ Becomes(s, [session[s] EXCEPT !.pc = "broken"])
BY DEF TypeInv, Snapshot, Go, Becomes

LEMMA ClearAtEndEffect ==
    ASSUME TypeInv, NEW s \in Sessions, ClearAtEnd(s)
    PROVE  /\ session[s].pc = "clear" /\ TablesKept
           /\ Clear(s, [session[s] EXCEPT !.pc = "ended"])
BY DEF TypeInv, ClearAtEnd, TablesKept

\* The steps that write columns of a row, if it is there.
Written(i, row) == rows' = [j \in ids |-> IF j = i THEN row ELSE rows[j]]

LEMMA IdentityEffect ==
    ASSUME TypeInv, NEW s \in Sessions, Identity(s)
    PROVE  LET i == session[s].id IN
           /\ session[s].pc = "identity" /\ active' = active
           /\ snapshots' = snapshots /\ profiles' = profiles
           /\ \/ /\ Written(i, [rows[i] EXCEPT !.identity = TRUE])
                 /\ Becomes(s, [session[s] EXCEPT !.pc = "snapshot", !.identity = TRUE])
              \/ rows' = rows /\ Becomes(s, [session[s] EXCEPT !.pc = "broken"])
BY DEF TypeInv, Identity, WithIdentity, Written, Go, Becomes

LEMMA CompleteEffect ==
    ASSUME TypeInv, NEW s \in Sessions, Complete(s)
    PROVE  LET i == session[s].id IN
           /\ session[s].pc = "complete" /\ active' = active
           /\ snapshots' = snapshots /\ profiles' = profiles
           /\ \/ /\ Written(i, [rows[i] EXCEPT !.status = session[s].status])
                 /\ Becomes(s, [session[s] EXCEPT !.pc = "clear"])
              \/ rows' = rows /\ Becomes(s, [session[s] EXCEPT !.pc = "broken"])
BY DEF TypeInv, Complete, Written, Go, Becomes

LEMMA CheckUpdatesEffect ==
    ASSUME TypeInv, NEW s \in Sessions, CheckUpdates(s)
    PROVE  /\ s \in held /\ active' = active /\ TablesKept
           /\ Becomes(s, [session[s] EXCEPT !.probe = "polling"])
BY DEF TypeInv, CheckUpdates, TablesKept, Becomes

LEMMA ProbedEffect ==
    ASSUME TypeInv, NEW s \in Sessions, Probed(s)
    PROVE  LET i == session[s].id IN
           /\ session[s].probe = "polling" /\ active' = active /\ TablesKept
           /\ \/ Becomes(s, [session[s] EXCEPT !.probe = "done"])
              \/ IsActive(i) /\ Becomes(s, [session[s] EXCEPT !.probe = "save"])
BY DEF TypeInv, Probed, TablesKept, Becomes

LEMMA SaveVersionEffect ==
    ASSUME TypeInv, NEW s \in Sessions, SaveVersion(s)
    PROVE  LET i == session[s].id IN
           /\ session[s].probe = "save" /\ active' = active
           /\ snapshots' = snapshots /\ profiles' = profiles
           /\ Becomes(s, [session[s] EXCEPT !.probe = "done"])
           /\ rows' = rows \/ Written(i, [rows[i] EXCEPT !.version = s])
BY DEF TypeInv, SaveVersion, Written, Becomes

\* A record that changes some of its fields.
LEMMA Changed ==
    ASSUME TypeInv, NEW s \in Sessions, NEW u \in SessionTypes, Becomes(s, u)
    PROVE  /\ session'[s] = u /\ \A t \in Sessions \ {s} : session'[t] = session[t]
           /\ session' \in [Sessions -> SessionTypes]
BY DEF TypeInv, Becomes

LEMMA QuietType ==
    ASSUME TypeInv, active' = active, TablesKept, session' \in [Sessions -> SessionTypes]
    PROVE  TypeInv'
<1>1. ids' = ids
  BY DEF TablesKept, ids
<1> QED
  BY <1>1 DEF TypeInv, TablesKept

\* A write to the columns of a row reaches that row only.
LEMMA WrittenRow ==
    ASSUME TypeInv, NEW i, NEW row, i \in ids => row \in RowTypes, Written(i, row)
    PROVE  /\ ids' = ids /\ rows' \in [ids -> RowTypes]
           /\ \A j \in ids : j # i => rows'[j] = rows[j]
           /\ i \in ids => rows'[i] = row
<1>1. rows' = [j \in ids |-> IF j = i THEN row ELSE rows[j]]
  BY DEF Written
<1>2. ids' = ids
  BY <1>1 DEF ids
<1> QED
  BY <1>1, <1>2 DEF TypeInv

LEMMA WrittenType ==
    ASSUME TypeInv, NEW i, NEW row, i \in ids => row \in RowTypes, Written(i, row),
           active' = active, snapshots' = snapshots, profiles' = profiles,
           session' \in [Sessions -> SessionTypes]
    PROVE  TypeInv'
BY WrittenRow DEF TypeInv

\* Entries that clear_active takes out.
Mine(s) == {p \in watched : session[active[p]].id = session[s].id}

LEMMA Cleared ==
    ASSUME TypeInv, NEW s \in Sessions, NEW u \in SessionTypes, Clear(s, u)
    PROVE  /\ session' \in [Sessions -> SessionTypes] /\ session'[s] = u
           /\ active' \in [Profiles -> Sessions \cup {Nobody}]
           /\ \A p \in Profiles : active'[p] = IF p \in Mine(s) THEN Nobody ELSE active[p]
           /\ \A t \in Sessions \ {s} :
                session'[t] = IF \E p \in Mine(s) : active[p] = t
                              THEN [session[t] EXCEPT !.stop = TRUE] ELSE session[t]
<1>1. /\ active' = [p \in Profiles |-> IF p \in Mine(s) THEN Nobody ELSE active[p]]
      /\ session' = [t \in Sessions |->
             IF t = s THEN u
             ELSE IF \E p \in Mine(s) : active[p] = t THEN [session[t] EXCEPT !.stop = TRUE]
             ELSE session[t]]
  BY DEF Clear, Mine
<1>2. \A t \in Sessions : [session[t] EXCEPT !.stop = TRUE] \in SessionTypes
  BY DEF TypeInv, SessionTypes
<1> QED
  BY <1>1, <1>2 DEF TypeInv

\* What a start() that is through has made.
LEMMA Registered ==
    ASSUME TypeInv, NEW s \in Sessions, NEW p \in Profiles, Register(s, p)
    PROVE  /\ session'[s] = [session[s] EXCEPT !.pc = "tick", !.id = NextId, !.probe = "polling"]
           /\ session' \in [Sessions -> SessionTypes]
           /\ \A t \in Sessions \ {s} : session'[t] = session[t]
           /\ active' = [active EXCEPT ![p] = s]
           /\ ids' = ids \cup {NextId} /\ rows' \in [ids' -> RowTypes]
           /\ \A j \in ids : rows'[j] = rows[j]
           /\ rows'[NextId] = [owner |-> s, profile |-> p, status |-> "running",
                               identity |-> FALSE, version |-> Nobody]
<1> DEFINE new == [owner |-> s, profile |-> p, status |-> "running",
                   identity |-> FALSE, version |-> Nobody]
<1>1. rows' = [j \in ids \cup {NextId} |-> IF j = NextId THEN new ELSE rows[j]]
  BY DEF Register
<1>2. ids' = ids \cup {NextId}
  BY <1>1 DEF ids
<1>3. new \in RowTypes
  BY DEF RowTypes, Verdicts
<1> HIDE DEF new
<1>4. /\ rows' \in [ids' -> RowTypes] /\ rows'[NextId] = new
      /\ \A j \in ids : rows'[j] = rows[j]
  BY <1>1, <1>2, <1>3, NextIdProps DEF TypeInv
<1>5. session' = [session EXCEPT ![s].pc = "tick", ![s].id = NextId, ![s].probe = "polling"]
  BY DEF Register
<1>6. /\ session'[s] = [session[s] EXCEPT !.pc = "tick", !.id = NextId, !.probe = "polling"]
      /\ \A t \in Sessions \ {s} : session'[t] = session[t]
      /\ session' \in [Sessions -> SessionTypes]
  <2> DEFINE u == [session[s] EXCEPT !.pc = "tick", !.id = NextId, !.probe = "polling"]
  <2>1. NextId \in Nat
    BY NextIdProps
  <2>2. u \in SessionTypes
    <3>1. \A n \in Nat :
            [session[s] EXCEPT !.pc = "tick", !.id = n, !.probe = "polling"] \in SessionTypes
      <4>1. session[s] \in SessionTypes /\ "tick" \in Stages
        BY DEF TypeInv, Stages, Live
      <4> QED
        BY <4>1 DEF SessionTypes
    <3> QED
      BY <2>1, <3>1
  <2>3. Becomes(s, u)
    BY <1>5 DEF TypeInv, Becomes
  <2> HIDE DEF u
  <2>4. /\ session'[s] = u /\ \A t \in Sessions \ {s} : session'[t] = session[t]
        /\ session' \in [Sessions -> SessionTypes]
    BY <2>2, <2>3, Changed
  <2> QED
    BY <2>4 DEF u
<1>7. active' = [active EXCEPT ![p] = s]
  BY DEF Register
<1> QED
  BY <1>2, <1>4, <1>6, <1>7 DEF new

LEMMA RegisteredType ==
    ASSUME TypeInv, NEW s \in Sessions, NEW p \in Profiles, Register(s, p),
           snapshots' = snapshots, profiles' = profiles
    PROVE  TypeInv'
<1>1. ids' \subseteq Nat \ {0} /\ \A i \in ids' : i <= NextId
  <2>1. ids' = ids \cup {NextId}
    BY Registered
  <2> QED
    <3>1. ids \subseteq Nat \ {0} /\ NextId \in Nat \ {0} /\ \A i \in ids : i <= NextId
      BY NextIdProps DEF TypeInv
    <3>2. NextId <= NextId
      BY <3>1
    <3> QED
      BY <2>1, <3>1, <3>2, Zenon
<1>2. active' \in [Profiles -> Sessions \cup {Nobody}]
  <2>1. active' = [active EXCEPT ![p] = s]
    BY Registered
  <2> QED
    BY <2>1 DEF TypeInv
<1>3. snapshots' \subseteq [id : ids', owner : Sessions, n : Nat]
  <2>1. ids \subseteq ids'
    BY Registered
  <2> QED
    BY <2>1 DEF TypeInv
<1> QED
  BY <1>1, <1>2, <1>3, Registered, NextIdProps DEF TypeInv

\* What a delete leaves.
LEMMA Removed ==
    ASSUME TypeInv, NEW gone, Remove(gone)
    PROVE  /\ ids' = ids \ gone /\ \A j \in ids' : rows'[j] = rows[j]
           /\ rows' \in [ids' -> RowTypes]
           /\ snapshots' = {n \in snapshots : n.id \notin gone}
<1>1. rows' = [i \in ids \ gone |-> rows[i]]
  BY DEF Remove
<1>2. ids' = ids \ gone
  BY <1>1 DEF ids
<1> QED
  BY <1>1, <1>2 DEF TypeInv, Remove

LEMMA RemovedType ==
    ASSUME TypeInv, NEW gone, Remove(gone), active' = active, session' = session,
           profiles' \subseteq profiles
    PROVE  TypeInv'
<1>1. snapshots' \subseteq [id : ids', owner : Sessions, n : Nat]
  BY Removed DEF TypeInv
<1> QED
  BY <1>1, Removed DEF TypeInv

-----------------------------------------------------------------------------
(* Types are kept.                                                         *)

\* The steps of one session, and those that delete.
Moves(s) ==
    \/ \E p \in Profiles : StartCheck(s, p)
    \/ Connect(s) \/ Claim(s) \/ Stop(s) \/ StopReturn(s) \/ Task(s) \/ Tick(s)
    \/ CheckUpdates(s) \/ Probed(s) \/ SaveVersion(s)

RowDeletes ==
    \/ \E i \in ids : Delete(i)
    \/ \E p \in Profiles : DeleteProfileCheck(p) \/ DeleteProfile(p)

LEMMA Steps ==
    ASSUME [Next]_vars
    PROVE  (\E s \in Sessions : Moves(s)) \/ RowDeletes \/ UNCHANGED vars
BY DEF Next, Moves, RowDeletes

\* A delete removes rows with their snapshots, or only announces itself.
LEMMA DeleteEffects ==
    ASSUME RowDeletes
    PROVE  /\ active' = active /\ session' = session
           /\ \/ TablesKept
              \/ \E i \in ids : Delete(i) /\ Remove({i}) /\ profiles' = profiles
              \/ \E p \in Profiles :
                   /\ DeleteProfile(p) /\ profiles' = profiles \ {p}
                   /\ Remove({i \in ids : rows[i].profile = p})
BY DEF RowDeletes, Delete, DeleteProfileCheck, DeleteProfile, TablesKept

LEMMA DeleteType ==
    ASSUME TypeInv, RowDeletes
    PROVE  TypeInv'
<1>1. CASE TablesKept
  BY <1>1, DeleteEffects, QuietType DEF TypeInv
<1>2. ASSUME NEW gone, Remove(gone), profiles' \subseteq profiles
      PROVE  TypeInv'
  BY <1>2, DeleteEffects, RemovedType
<1> QED
  BY <1>1, <1>2, DeleteEffects

\* A step of start(), stop() or the probe that leaves the tables alone.
LEMMA StartType ==
    ASSUME TypeInv, NEW s \in Sessions,
           \/ \E p \in Profiles : StartCheck(s, p)
           \/ Connect(s) \/ Claim(s) \/ Stop(s) \/ StopReturn(s)
    PROVE  TypeInv'
<1>1. session[s] \in SessionTypes
  BY DEF TypeInv
<1>2. CASE \E p \in Profiles : StartCheck(s, p)
  <2>1. PICK p \in Profiles, pc \in {"refused", "connect"} :
          /\ active' = active /\ TablesKept
          /\ Becomes(s, [session[s] EXCEPT !.pc = pc, !.profile = p])
    BY <1>2, StartCheckEffect
  <2>2. [session[s] EXCEPT !.pc = pc, !.profile = p] \in SessionTypes
    <3>1. pc \in Stages
      BY DEF Stages
    <3> QED
      BY <1>1, <3>1 DEF SessionTypes
  <2> QED
    BY <2>1, <2>2, Changed, QuietType, SMTT(30)
<1>3. ASSUME NEW pc \in {"refused", "failed", "claim"}
      PROVE  [session[s] EXCEPT !.pc = pc] \in SessionTypes
  <2>1. pc \in Stages
    BY DEF Stages
  <2> QED
    BY <1>1, <2>1 DEF SessionTypes
<1>4. CASE Connect(s)
  BY <1>3, <1>4, ConnectEffect, Changed, QuietType
<1>5. CASE Claim(s)
  <2>1. CASE active' = active /\ rows' = rows
    <3>1. TablesKept
      BY <1>5, <2>1, ClaimEffect DEF TablesKept
    <3>2. \E pc \in {"refused", "failed"} : Becomes(s, [session[s] EXCEPT !.pc = pc])
      <4>1. CASE Register(s, session[s].profile)
        <5>1. ids' = ids \cup {NextId} /\ ids' = ids
          BY <2>1, <4>1 DEF Register, ids
        <5> QED
          BY <5>1, NextIdProps
      <4> QED
        BY <1>5, <4>1, ClaimEffect
    <3> QED
      BY <1>3, <2>1, <3>1, <3>2, Changed, QuietType
  <2>2. CASE session[s].profile \in profiles /\ Register(s, session[s].profile)
    BY <1>5, <2>2, ClaimEffect, RegisteredType DEF TypeInv
  <2> QED
    BY <1>5, <2>1, <2>2, ClaimEffect
<1>6. CASE Stop(s)
  <2>1. [session[s] EXCEPT !.stop = TRUE, !.stopper = "joining"] \in SessionTypes
    BY <1>1 DEF SessionTypes
  <2>2. session' \in [Sessions -> SessionTypes]
    BY <1>6, <2>1, StopEffect, Changed
  <2>3. active' \in [Profiles -> Sessions \cup {Nobody}]
    BY <1>6, StopEffect DEF TypeInv
  <2>4. ids' = ids /\ TablesKept
    BY <1>6, StopEffect DEF TablesKept, ids
  <2> QED
    BY <2>2, <2>3, <2>4 DEF TypeInv, TablesKept
<1>7. CASE StopReturn(s)
  <2>1. [session[s] EXCEPT !.stopper = "returned"] \in SessionTypes
    BY <1>1 DEF SessionTypes
  <2> QED
    BY <1>7, <2>1, StopReturnEffect, Changed, QuietType
<1> QED
  BY <1>2, <1>4, <1>5, <1>6, <1>7

LEMMA ClearType ==
    ASSUME TypeInv, NEW s \in Sessions, NEW u \in SessionTypes, Clear(s, u), TablesKept
    PROVE  TypeInv'
<1>1. ids' = ids
  BY DEF TablesKept, ids
<1> QED
  BY <1>1, Cleared DEF TypeInv, TablesKept

LEMMA SnapshotType ==
    ASSUME TypeInv, NEW s \in Sessions, Snapshot(s)
    PROVE  TypeInv'
<1>1. session[s] \in SessionTypes
  BY DEF TypeInv
<1>2. ids' = ids /\ rows' = rows /\ active' = active /\ profiles' = profiles
  BY SnapshotEffect DEF ids
<1>3. CASE /\ session[s].id \in ids
           /\ snapshots' = snapshots \cup {[id |-> session[s].id, owner |-> s,
                                            n |-> session[s].count + 1]}
           /\ Becomes(s, [session[s] EXCEPT !.pc = "tick", !.count = session[s].count + 1])
  <2>1. session[s].count + 1 \in Nat
    BY <1>1 DEF SessionTypes
  <2>2. [session[s] EXCEPT !.pc = "tick", !.count = session[s].count + 1] \in SessionTypes
    BY <1>1, <2>1 DEF SessionTypes, Stages, Live
  <2>3. session' \in [Sessions -> SessionTypes]
    BY <1>3, <2>2, Changed
  <2>4. snapshots' \subseteq [id : ids, owner : Sessions, n : Nat]
    BY <1>3, <2>1 DEF TypeInv
  <2> QED
    BY <1>2, <2>3, <2>4 DEF TypeInv
<1>4. CASE snapshots' = snapshots /\ Becomes(s, [session[s] EXCEPT !.pc = "broken"])
  <2>1. [session[s] EXCEPT !.pc = "broken"] \in SessionTypes
    BY <1>1 DEF SessionTypes, Stages, Over
  <2> QED
    BY <1>2, <1>4, <2>1, Changed, QuietType DEF TablesKept
<1> QED
  BY <1>3, <1>4, SnapshotEffect

LEMMA TaskType ==
    ASSUME TypeInv, NEW s \in Sessions,
           Cancel(s) \/ Tick(s) \/ Fetched(s) \/ FetchFailed(s) \/ ClearAtEnd(s)
    PROVE  TypeInv'
<1>1. session[s] \in SessionTypes
  BY DEF TypeInv
<1>2. /\ \A pc \in {"tick", "fetch", "identity", "snapshot", "complete", "ended"} : pc \in Stages
      /\ "cancelled" \in Verdicts /\ "error" \in Verdicts
  BY DEF Stages, Live, Over, Verdicts
<1>3. CASE Cancel(s)
  <2>1. [session[s] EXCEPT !.pc = "complete", !.status = "cancelled"] \in SessionTypes
    BY <1>1, <1>2 DEF SessionTypes
  <2> QED
    BY <1>3, <2>1, CancelEffect, Changed, QuietType
<1>4. CASE Tick(s)
  <2>1. [session[s] EXCEPT !.pc = "fetch", !.ticks = session[s].ticks + 1] \in SessionTypes
    <3>1. \A n \in Nat : [session[s] EXCEPT !.pc = "fetch", !.ticks = n] \in SessionTypes
      BY <1>1, <1>2 DEF SessionTypes
    <3>2. session[s].ticks + 1 \in Nat
      BY <1>1 DEF SessionTypes
    <3> QED
      BY <3>1, <3>2
  <2> QED
    BY <1>4, <2>1, TickEffect, Changed, QuietType
<1>5. CASE Fetched(s)
  <2>1. \A pc \in {"snapshot", "identity"} :
          [session[s] EXCEPT !.failures = 0, !.streak = 0, !.pc = pc] \in SessionTypes
    BY <1>1, <1>2 DEF SessionTypes
  <2> QED
    BY <1>5, <2>1, FetchedEffect, Changed, QuietType
<1>6. CASE FetchFailed(s)
  <2>1. session[s].failures + 1 \in Nat /\ session[s].streak + 1 \in Nat
    BY <1>1 DEF SessionTypes
  <2>2. \A f, g \in Nat :
          /\ [session[s] EXCEPT !.failures = f, !.streak = g, !.pc = "tick"] \in SessionTypes
          /\ [session[s] EXCEPT !.failures = f, !.streak = g, !.pc = "complete",
                                !.status = "error"] \in SessionTypes
    <3>1. {"tick", "complete"} \subseteq Stages /\ "error" \in Verdicts
      BY DEF Stages, Live, Over, Verdicts
    <3>2. \A f, g \in Nat :
            [session[s] EXCEPT !.failures = f, !.streak = g, !.pc = "tick"] \in SessionTypes
      BY <1>1, <3>1 DEF SessionTypes
    <3>3. \A f, g \in Nat :
            [session[s] EXCEPT !.failures = f, !.streak = g, !.pc = "complete",
                               !.status = "error"] \in SessionTypes
      BY <1>1, <3>1 DEF SessionTypes
    <3> QED
      BY <3>2, <3>3
  <2> DEFINE u == [session[s] EXCEPT !.failures = session[s].failures + 1,
                                     !.streak = session[s].streak + 1, !.pc = "tick"]
             v == [session[s] EXCEPT !.failures = session[s].failures + 1,
                                     !.streak = session[s].streak + 1,
                                     !.pc = "complete", !.status = "error"]
  <2>3. u \in SessionTypes /\ v \in SessionTypes
    BY <2>1, <2>2
  <2>4. TablesKept /\ ((active' = active /\ Becomes(s, u)) \/ Clear(s, v))
    BY <1>6, FetchFailedEffect, ZenonT(40)
  <2> HIDE DEF u, v
  <2> QED
    BY <2>3, <2>4, Changed, QuietType, ClearType
<1>7. CASE ClearAtEnd(s)
  <2>1. [session[s] EXCEPT !.pc = "ended"] \in SessionTypes
    BY <1>1, <1>2 DEF SessionTypes
  <2> QED
    BY <1>7, <2>1, ClearAtEndEffect, ClearType
<1> QED
  BY <1>3, <1>4, <1>5, <1>6, <1>7

LEMMA WriteType ==
    ASSUME TypeInv, NEW s \in Sessions,
           Identity(s) \/ Complete(s) \/ CheckUpdates(s) \/ Probed(s) \/ SaveVersion(s)
    PROVE  TypeInv'
<1>1. session[s] \in SessionTypes
  BY DEF TypeInv
<1>2. ASSUME NEW pc \in {"clear", "broken"}
      PROVE  [session[s] EXCEPT !.pc = pc] \in SessionTypes
  BY <1>1 DEF SessionTypes, Stages, Over
<1>3. ASSUME NEW probe \in {"polling", "save", "done"}
      PROVE  [session[s] EXCEPT !.probe = probe] \in SessionTypes
  BY <1>1 DEF SessionTypes
<1> DEFINE i == session[s].id
<1>4. ASSUME i \in ids
      PROVE  /\ [rows[i] EXCEPT !.identity = TRUE] \in RowTypes
             /\ [rows[i] EXCEPT !.status = session[s].status] \in RowTypes
             /\ [rows[i] EXCEPT !.version = s] \in RowTypes
  <2>1. rows[i] \in RowTypes /\ session[s].status \in Verdicts
    BY <1>1, <1>4 DEF TypeInv, SessionTypes
  <2> QED
    BY <2>1 DEF RowTypes
<1>5. CASE Identity(s)
  <2>1. [session[s] EXCEPT !.pc = "snapshot", !.identity = TRUE] \in SessionTypes
    BY <1>1 DEF SessionTypes, Stages, Live
  <2>2. CASE /\ Written(i, [rows[i] EXCEPT !.identity = TRUE])
             /\ Becomes(s, [session[s] EXCEPT !.pc = "snapshot", !.identity = TRUE])
    <3>1. session' \in [Sessions -> SessionTypes]
      BY <2>1, <2>2, Changed, SMTT(30)
    <3> QED
      BY <1>4, <1>5, <2>2, <3>1, IdentityEffect, WrittenType
  <2>3. CASE rows' = rows /\ Becomes(s, [session[s] EXCEPT !.pc = "broken"])
    BY <1>2, <1>5, <2>3, IdentityEffect, Changed, QuietType DEF TablesKept
  <2> QED
    BY <1>5, <2>2, <2>3, IdentityEffect
<1>6. CASE Complete(s)
  <2>1. CASE /\ Written(i, [rows[i] EXCEPT !.status = session[s].status])
             /\ Becomes(s, [session[s] EXCEPT !.pc = "clear"])
    <3>1. session' \in [Sessions -> SessionTypes]
      BY <1>2, <2>1, Changed
    <3> QED
      BY <1>4, <1>6, <2>1, <3>1, CompleteEffect, WrittenType
  <2>2. CASE rows' = rows /\ Becomes(s, [session[s] EXCEPT !.pc = "broken"])
    BY <1>2, <1>6, <2>2, CompleteEffect, Changed, QuietType DEF TablesKept
  <2> QED
    BY <1>6, <2>1, <2>2, CompleteEffect
<1>7. CASE CheckUpdates(s)
  BY <1>3, <1>7, CheckUpdatesEffect, Changed, QuietType
<1>8. CASE Probed(s)
  BY <1>3, <1>8, ProbedEffect, Changed, QuietType
<1>9. CASE SaveVersion(s)
  <2>1. session' \in [Sessions -> SessionTypes]
    BY <1>3, <1>9, SaveVersionEffect, Changed
  <2>2. CASE Written(i, [rows[i] EXCEPT !.version = s])
    BY <1>4, <1>9, <2>1, <2>2, SaveVersionEffect, WrittenType
  <2>3. CASE rows' = rows
    BY <1>9, <2>1, <2>3, SaveVersionEffect, QuietType DEF TablesKept
  <2> QED
    BY <1>9, <2>2, <2>3, SaveVersionEffect
<1> QED
  BY <1>5, <1>6, <1>7, <1>8, <1>9

LEMMA NextType ==
    ASSUME TypeInv, [Next]_vars
    PROVE  TypeInv'
<1>1. ASSUME NEW s \in Sessions, Moves(s)
      PROVE  TypeInv'
  BY <1>1, StartType, TaskType, SnapshotType, WriteType DEF Moves, Task
<1>2. CASE UNCHANGED vars
  BY <1>2, QuietType DEF vars, TablesKept, TypeInv
<1> QED
  BY <1>1, <1>2, Steps, DeleteType

LEMMA InitType ==
    ASSUME Init
    PROVE  TypeInv
<1>1. ids = {}
  BY DEF Init, ids
<1>2. Idle \in SessionTypes
  BY DEF Idle, SessionTypes, Stages, Verdicts
<1>3. rows \in [ids -> RowTypes]
  BY <1>1 DEF Init
<1> QED
  BY <1>1, <1>2, <1>3 DEF Init, TypeInv

-----------------------------------------------------------------------------
(* Slots.                                                                  *)

\* A session has a slot only while its task runs or has died of the database,
\* and it is not told to stop then; a task that runs has one unless it was told.
Starting == {"idle", "connect", "claim"}

SlotOf(s) ==
    /\ s \in held => session[s].pc \in Live \cup {"broken"} /\ ~session[s].stop
    /\ session[s].pc \in Live /\ ~session[s].stop => s \in held
    /\ session[s].pc \in {"complete", "clear"} => session[s].stop \/ session[s].status = "error"
    /\ session[s].pc \in Starting => ~session[s].stop

SlotInv ==
    /\ \A p \in watched : session[active[p]].profile = p
    /\ \A s \in Sessions : SlotOf(s)
    /\ IsFiniteSet(watched) /\ Cardinality(watched) <= MaxActive

LEMMA SameSlots == active' = active => watched' = watched /\ held' = held
BY DEF watched, held

\* A step that leaves the slots alone.
LEMMA QuietSlot ==
    ASSUME TypeInv, SettingAssumption, SlotInv, NEW s \in Sessions, active' = active,
           \A t \in Sessions \ {s} : session'[t] = session[t],
           s \in held => session'[s].profile = session[s].profile,
           s \in held => session'[s].pc \in Live \cup {"broken"} /\ ~session'[s].stop,
           session'[s].pc \in Live /\ ~session'[s].stop => s \in held,
           session'[s].pc \in {"complete", "clear"} =>
               session'[s].stop \/ session'[s].status = "error",
           session'[s].pc \in Starting => ~session'[s].stop
    PROVE  SlotInv'
<1>1. watched' = watched /\ held' = held
  BY SameSlots
<1>2. \A t \in Sessions : SlotOf(t)'
  BY <1>1 DEF SlotInv, SlotOf
<1>3. \A p \in watched : active[p] \in held /\ active[p] \in Sessions
  BY DEF watched, held, TypeInv
<1>4. \A p \in watched' : session'[active'[p]].profile = p
  BY <1>1, <1>3 DEF SlotInv
<1> QED
  BY <1>1, <1>2, <1>4 DEF SlotInv

\* Slots that are taken out belong to sessions that are told.
LEMMA FewerSlots ==
    ASSUME TypeInv, SettingAssumption, SlotInv, NEW gone,
           \A p \in Profiles : active'[p] = IF p \in gone THEN Nobody ELSE active[p]
    PROVE  /\ watched' = watched \ gone
           /\ held' = {active[p] : p \in watched \ gone}
           /\ IsFiniteSet(watched') /\ Cardinality(watched') <= MaxActive
<1>1. watched' = watched \ gone
  BY DEF watched
<1>2. held' = {active[p] : p \in watched \ gone}
  <2>1. \A p \in watched \ gone : p \in Profiles /\ active'[p] = active[p]
    BY DEF watched
  <2> QED
    BY <1>1, <2>1 DEF held
<1>3. IsFiniteSet(watched \ gone) /\ Cardinality(watched \ gone) <= Cardinality(watched)
  BY FS_Subset DEF SlotInv
<1>4. Cardinality(watched \ gone) \in Nat /\ Cardinality(watched) \in Nat
  BY <1>3, FS_CardinalityType DEF SlotInv
<1> QED
  BY <1>1, <1>2, <1>3, <1>4 DEF SlotInv, SettingAssumption

LEMMA StopSlot ==
    ASSUME TypeInv, SettingAssumption, SlotInv, NEW s \in Sessions, Stop(s)
    PROVE  SlotInv'
<1> DEFINE gone == {p \in Profiles : active[p] = s}
           u == [session[s] EXCEPT !.stop = TRUE, !.stopper = "joining"]
<1>1. /\ u \in SessionTypes /\ u.pc = session[s].pc /\ u.stop = TRUE
      /\ u.profile = session[s].profile
  <2>1. session[s] \in SessionTypes
    BY DEF TypeInv
  <2> QED
    BY <2>1 DEF SessionTypes
<1>2. session'[s] = u /\ \A t \in Sessions \ {s} : session'[t] = session[t]
  BY <1>1, StopEffect, Changed
<1>3. \A p \in Profiles : active'[p] = IF p \in gone THEN Nobody ELSE active[p]
  BY StopEffect
<1> HIDE DEF gone, u
<1>4. /\ watched' = watched \ gone /\ held' = {active[p] : p \in watched \ gone}
      /\ IsFiniteSet(watched') /\ Cardinality(watched') <= MaxActive
  BY <1>3, FewerSlots
<1>5. held' = held \ {s} /\ s \in held
  <2>1. \A p \in watched : p \in gone <=> active[p] = s
    BY DEF gone, watched
  <2>2. s \in held
    BY StopEffect
  <2> QED
    BY <1>4, <2>1, <2>2 DEF held
<1>6. \A t \in Sessions : SlotOf(t)'
  <2>1. SlotOf(s)'
    BY <1>1, <1>2, <1>5 DEF SlotOf, SlotInv, Live, Starting
  <2>2. ASSUME NEW t \in Sessions \ {s}
        PROVE  SlotOf(t)'
    BY <1>2, <1>5 DEF SlotOf, SlotInv
  <2> QED
    BY <2>1, <2>2
<1>7. \A p \in watched' : session'[active'[p]].profile = p
  <2>1. \A p \in watched' : p \in watched /\ active'[p] = active[p] /\ active[p] \in Sessions
    BY <1>3, <1>4 DEF watched, TypeInv
  <2>2. \A t \in Sessions : session'[t].profile = session[t].profile
    BY <1>1, <1>2
  <2> QED
    BY <2>1, <2>2 DEF SlotInv
<1> QED
  BY <1>4, <1>6, <1>7 DEF SlotInv

LEMMA ClearSlot ==
    ASSUME TypeInv, SettingAssumption, SlotInv, NEW s \in Sessions, NEW u \in SessionTypes,
           Clear(s, u), u.pc \in Over, u.pc \in {"complete", "clear"} => u.status = "error"
    PROVE  SlotInv'
<1>1. /\ session'[s] = u
      /\ \A p \in Profiles : active'[p] = IF p \in Mine(s) THEN Nobody ELSE active[p]
      /\ \A t \in Sessions \ {s} :
           session'[t] = IF \E p \in Mine(s) : active[p] = t
                         THEN [session[t] EXCEPT !.stop = TRUE] ELSE session[t]
  BY Cleared
<1>2. /\ watched' = watched \ Mine(s) /\ held' = {active[p] : p \in watched \ Mine(s)}
      /\ IsFiniteSet(watched') /\ Cardinality(watched') <= MaxActive
  BY <1>1, FewerSlots
<1>3. ASSUME NEW t \in held'
      PROVE  t \in held /\ t # s /\ ~\E p \in Mine(s) : active[p] = t
  <2>1. PICK q \in watched \ Mine(s) : t = active[q]
    BY <1>2, <1>3
  <2> QED
    BY <2>1 DEF held, Mine
<1>4. ASSUME NEW t \in held, t \notin held', t # s, t \in Sessions
      PROVE  \E p \in Mine(s) : active[p] = t
  <2>1. PICK q \in watched : t = active[q]
    BY <1>4 DEF held
  <2> QED
    BY <1>2, <1>4, <2>1
<1>5. ASSUME NEW t \in Sessions \ {s}
      PROVE  /\ session'[t].pc = session[t].pc /\ session'[t].status = session[t].status
             /\ session'[t].profile = session[t].profile
             /\ session[t].stop => session'[t].stop
             /\ (\E p \in Mine(s) : active[p] = t) => session'[t].stop
             /\ (~\E p \in Mine(s) : active[p] = t) => session'[t] = session[t]
  <2>1. session[t] \in SessionTypes
    BY DEF TypeInv
  <2>2. CASE \E p \in Mine(s) : active[p] = t
    <3>1. session'[t] = [session[t] EXCEPT !.stop = TRUE]
      BY <1>1, <2>2
    <3> QED
      BY <2>1, <2>2, <3>1 DEF SessionTypes
  <2>3. CASE ~\E p \in Mine(s) : active[p] = t
    BY <1>1, <2>3
  <2> QED
    BY <2>2, <2>3
<1>6. SlotOf(s)'
  <2>1. s \notin held'
    BY <1>3
  <2> QED
    BY <1>1, <2>1 DEF SlotOf, Live, Over, Starting
<1>7. ASSUME NEW t \in Sessions \ {s}
      PROVE  SlotOf(t)'
  <2>1. CASE t \in held'
    BY <1>3, <1>5, <2>1 DEF SlotOf, SlotInv
  <2>2. CASE t \notin held'
    <3>1. CASE t \in held
      <4>1. session'[t].stop /\ session'[t].pc \in Live \cup {"broken"}
        BY <1>4, <1>5, <2>2, <3>1 DEF SlotOf, SlotInv
      <4> QED
        BY <2>2, <4>1 DEF SlotOf, Live, Starting
    <3>2. CASE t \notin held
      <4>1. ~\E p \in Mine(s) : active[p] = t
        BY <3>2 DEF Mine, held
      <4> QED
        BY <1>5, <2>2, <3>2, <4>1 DEF SlotOf, SlotInv
    <3> QED
      BY <3>1, <3>2
  <2> QED
    BY <2>1, <2>2
<1>8. \A p \in watched' : session'[active'[p]].profile = p
  <2> SUFFICES ASSUME NEW p \in watched' PROVE session'[active'[p]].profile = p
    OBVIOUS
  <2>1. p \in watched \ Mine(s) /\ active'[p] = active[p] /\ active[p] \in Sessions
    BY <1>1, <1>2 DEF watched, TypeInv
  <2>2. active[p] # s
    BY <2>1 DEF Mine
  <2> QED
    BY <1>5, <2>1, <2>2 DEF SlotInv
<1> QED
  BY <1>2, <1>6, <1>7, <1>8 DEF SlotInv

LEMMA RegisterSlot ==
    ASSUME TypeInv, SettingAssumption, SlotInv, NEW s \in Sessions, NEW p \in Profiles,
           session[s].pc = "claim", session[s].profile = p, p \notin watched,
           ~(Cardinality(watched) >= MaxActive), Register(s, p)
    PROVE  SlotInv'
<1> DEFINE u == [session[s] EXCEPT !.pc = "tick", !.id = NextId, !.probe = "polling"]
<1>1. session'[s] = u /\ \A t \in Sessions \ {s} : session'[t] = session[t]
  BY Registered
<1>2. s \notin held
  BY DEF SlotInv, SlotOf, Live
<1>3. ~session[s].stop
  BY DEF SlotInv, SlotOf, Starting
<1>4. u.pc = "tick" /\ u.profile = p /\ u.stop = session[s].stop
  <2>1. session[s] \in SessionTypes
    BY DEF TypeInv
  <2> QED
    BY <2>1 DEF SessionTypes
<1> HIDE DEF u
<1>5. watched' = watched \cup {p} /\ held' = held \cup {s}
  <2>1. active' = [active EXCEPT ![p] = s] /\ s # Nobody
    BY Registered DEF SettingAssumption
  <2>2. watched' = watched \cup {p}
    BY <2>1 DEF watched, TypeInv
  <2>3. active'[p] = s /\ \A q \in watched : active'[q] = active[q]
    BY <2>1 DEF watched, TypeInv
  <2> QED
    BY <2>2, <2>3 DEF held
<1>6. SlotOf(s)'
  BY <1>1, <1>3, <1>4, <1>5 DEF SlotOf, Live, Starting
<1>7. ASSUME NEW t \in Sessions \ {s}
      PROVE  SlotOf(t)'
  BY <1>1, <1>5 DEF SlotOf, SlotInv
<1>8. ASSUME NEW q \in watched'
      PROVE  session'[active'[q]].profile = q
  <2>1. active' = [active EXCEPT ![p] = s]
    BY Registered
  <2>2. CASE q = p
    BY <1>1, <1>4, <2>1, <2>2 DEF TypeInv
  <2>3. CASE q # p
    <3>1. q \in watched /\ active'[q] = active[q] /\ active[q] \in held /\ active[q] \in Sessions
      BY <1>5, <2>1, <2>3 DEF watched, held, TypeInv
    <3> QED
      BY <1>1, <1>2, <3>1 DEF SlotInv
  <2> QED
    BY <2>2, <2>3
<1>9. IsFiniteSet(watched') /\ Cardinality(watched') <= MaxActive
  <2>1. /\ IsFiniteSet(watched \cup {p})
        /\ Cardinality(watched \cup {p}) = Cardinality(watched) + 1
    BY FS_AddElement DEF SlotInv
  <2>2. Cardinality(watched) \in Nat
    BY FS_CardinalityType DEF SlotInv
  <2> QED
    BY <1>5, <2>1, <2>2 DEF SettingAssumption
<1> QED
  BY <1>6, <1>7, <1>8, <1>9 DEF SlotInv

\* No step leaves a task without a slot unless it is told, or the other way
\* round.
LEMMA StartSlot ==
    ASSUME TypeInv, SettingAssumption, SlotInv, NEW s \in Sessions,
           \/ \E p \in Profiles : StartCheck(s, p)
           \/ Connect(s) \/ Claim(s) \/ StopReturn(s)
           \/ CheckUpdates(s) \/ Probed(s) \/ SaveVersion(s)
    PROVE  SlotInv'
<1>1. session[s] \in SessionTypes
  BY DEF TypeInv
<1>2. session[s].pc \in Starting => s \notin held /\ ~session[s].stop
  BY DEF SlotInv, SlotOf, Live, Starting
\* A start() that goes on, or fails.
<1>3. ASSUME NEW pc \in {"refused", "connect", "claim", "failed"}, NEW p,
             p \in Profiles \/ p = session[s].profile, active' = active,
             session[s].pc \in Starting,
             Becomes(s, [session[s] EXCEPT !.pc = pc, !.profile = p])
      PROVE  SlotInv'
  <2> DEFINE u == [session[s] EXCEPT !.pc = pc, !.profile = p]
  <2>1. u \in SessionTypes /\ u.pc = pc /\ u.stop = session[s].stop
    <3>1. pc \in Stages
      BY DEF Stages
    <3> QED
      BY <1>1, <1>3, <3>1 DEF SessionTypes
  <2>2. session'[s] = u /\ \A t \in Sessions \ {s} : session'[t] = session[t]
    BY <1>3, <2>1, Changed
  <2> HIDE DEF u
  <2> QED
    BY <1>2, <1>3, <2>1, <2>2, QuietSlot DEF Live
\* A step that touches neither the task nor its flag.
<1>4. ASSUME NEW u \in SessionTypes, Becomes(s, u), active' = active,
             u.pc = session[s].pc, u.stop = session[s].stop, u.status = session[s].status,
             u.profile = session[s].profile
      PROVE  SlotInv'
  <2>1. session'[s] = u /\ \A t \in Sessions \ {s} : session'[t] = session[t]
    BY <1>4, Changed
  <2> QED
    BY <1>4, <2>1, QuietSlot DEF SlotInv, SlotOf
<1>5. ASSUME NEW probe \in {"polling", "save", "done"}, active' = active,
             Becomes(s, [session[s] EXCEPT !.probe = probe])
      PROVE  SlotInv'
  <2> DEFINE u == [session[s] EXCEPT !.probe = probe]
  <2>1. /\ u \in SessionTypes /\ u.pc = session[s].pc /\ u.stop = session[s].stop
        /\ u.status = session[s].status /\ u.profile = session[s].profile
    BY <1>1 DEF SessionTypes
  <2> HIDE DEF u
  <2> QED
    BY <1>4, <1>5, <2>1 DEF u
<1>6. ASSUME NEW pc \in {"refused", "claim", "failed"}, active' = active,
             session[s].pc \in Starting, Becomes(s, [session[s] EXCEPT !.pc = pc])
      PROVE  SlotInv'
  <2>1. [session[s] EXCEPT !.pc = pc] =
        [session[s] EXCEPT !.pc = pc, !.profile = session[s].profile]
    BY <1>1 DEF SessionTypes
  <2> QED
    BY <1>3, <1>6, <2>1
<1>7. CASE \E p \in Profiles : StartCheck(s, p)
  BY <1>3, <1>7, StartCheckEffect DEF Starting
<1>8. CASE Connect(s)
  BY <1>6, <1>8, ConnectEffect DEF Starting
<1>9. CASE Claim(s)
  <2>1. CASE /\ active' = active
             /\ \E pc \in {"refused", "failed"} : Becomes(s, [session[s] EXCEPT !.pc = pc])
    BY <1>6, <1>9, <2>1, ClaimEffect DEF Starting
  <2>2. CASE /\ session[s].profile \in profiles \ watched
             /\ ~(Cardinality(watched) >= MaxActive)
             /\ Register(s, session[s].profile)
    <3>1. session[s].profile \in Profiles
      BY <2>2 DEF TypeInv
    <3> QED
      BY <1>9, <2>2, <3>1, ClaimEffect, RegisterSlot
  <2> QED
    BY <1>9, <2>1, <2>2, ClaimEffect
<1>10. CASE StopReturn(s)
  <2> DEFINE u == [session[s] EXCEPT !.stopper = "returned"]
  <2>1. /\ u \in SessionTypes /\ u.pc = session[s].pc /\ u.stop = session[s].stop
        /\ u.status = session[s].status /\ u.profile = session[s].profile
    BY <1>1 DEF SessionTypes
  <2>2. Becomes(s, u) /\ active' = active
    BY <1>10, StopReturnEffect
  <2> HIDE DEF u
  <2> QED
    BY <1>4, <2>1, <2>2
<1>11. CASE CheckUpdates(s)
  BY <1>5, <1>11, CheckUpdatesEffect
<1>12. CASE Probed(s)
  BY <1>5, <1>12, ProbedEffect
<1>13. CASE SaveVersion(s)
  BY <1>5, <1>13, SaveVersionEffect
<1> QED
  BY <1>7, <1>8, <1>9, <1>10, <1>11, <1>12, <1>13

-----------------------------------------------------------------------------
(* What the task does to its own record.                                   *)

\* It never touches these.
SameSession(s) ==
    /\ session'[s].id = session[s].id /\ session'[s].profile = session[s].profile
    /\ session'[s].stop = session[s].stop /\ session'[s].probe = session[s].probe

SameCount(s) ==
    /\ session'[s].failures = session[s].failures /\ session'[s].streak = session[s].streak
    /\ session'[s].status = session[s].status

LEMMA CancelMove ==
    ASSUME TypeInv, NEW s \in Sessions, Cancel(s)
    PROVE  /\ SameSession(s) /\ session[s].stop /\ session'[s].count = session[s].count
           /\ session[s].pc = "tick" /\ session'[s].pc = "complete"
           /\ session'[s].status = "cancelled" /\ session'[s].failures = session[s].failures
           /\ session'[s].streak = session[s].streak
           /\ \A t \in Sessions \ {s} : session'[t] = session[t]
<1> DEFINE u == [session[s] EXCEPT !.pc = "complete", !.status = "cancelled"]
<1>1. session[s] \in SessionTypes
  BY DEF TypeInv
<1>2. u \in SessionTypes
  BY <1>1 DEF SessionTypes, Stages, Over, Verdicts
<1>3. session'[s] = u /\ \A t \in Sessions \ {s} : session'[t] = session[t]
  BY <1>2, CancelEffect, Changed
<1>4. session[s].pc = "tick" /\ session[s].stop
  BY CancelEffect
<1>5. /\ SameSession(s) /\ session'[s].count = session[s].count
      /\ session'[s].pc = "complete" /\ session'[s].status = "cancelled"
      /\ session'[s].failures = session[s].failures
      /\ session'[s].streak = session[s].streak
  BY <1>1, <1>3 DEF SameSession, SessionTypes
<1> QED
  BY <1>3, <1>4, <1>5

LEMMA TickMove ==
    ASSUME TypeInv, NEW s \in Sessions, Tick(s)
    PROVE  /\ SameSession(s) /\ SameCount(s) /\ session'[s].count = session[s].count
           /\ session[s].pc = "tick" /\ session'[s].pc = "fetch"
           /\ \A t \in Sessions \ {s} : session'[t] = session[t]
<1>1. session[s] \in SessionTypes
  BY DEF TypeInv
<1>2. PICK n \in Nat : n = session[s].ticks + 1
  BY <1>1 DEF SessionTypes
<1> DEFINE u == [session[s] EXCEPT !.pc = "fetch", !.ticks = n]
<1>3. u \in SessionTypes
  BY <1>1 DEF SessionTypes, Stages, Live
<1>4. session'[s] = u /\ \A t \in Sessions \ {s} : session'[t] = session[t]
  BY <1>2, <1>3, TickEffect, Changed
<1>5. session[s].pc = "tick"
  BY TickEffect
<1> QED
  BY <1>1, <1>4, <1>5 DEF SameSession, SameCount, SessionTypes

LEMMA FetchedMove ==
    ASSUME TypeInv, NEW s \in Sessions, Fetched(s)
    PROVE  /\ SameSession(s) /\ session'[s].count = session[s].count
           /\ session[s].pc = "fetch" /\ session'[s].pc \in {"snapshot", "identity"}
           /\ session'[s].failures = 0 /\ session'[s].streak = 0
           /\ session'[s].status = session[s].status
           /\ \A t \in Sessions \ {s} : session'[t] = session[t]
<1>1. session[s] \in SessionTypes
  BY DEF TypeInv
<1>2. PICK pc \in {"snapshot", "identity"} :
        Becomes(s, [session[s] EXCEPT !.failures = 0, !.streak = 0, !.pc = pc])
  BY FetchedEffect
<1> DEFINE u == [session[s] EXCEPT !.failures = 0, !.streak = 0, !.pc = pc]
<1>3. u \in SessionTypes
  BY <1>1 DEF SessionTypes, Stages, Live
<1>4. session'[s] = u /\ \A t \in Sessions \ {s} : session'[t] = session[t]
  BY <1>2, <1>3, Changed
<1>5. session[s].pc = "fetch"
  BY FetchedEffect
<1> QED
  BY <1>1, <1>4, <1>5, SMTT(30) DEF SameSession, SessionTypes

LEMMA FetchFailedMove ==
    ASSUME TypeInv, NEW s \in Sessions, FetchFailed(s)
    PROVE  /\ SameSession(s) /\ session'[s].count = session[s].count
           /\ session[s].pc = "fetch"
           /\ session'[s].failures = session[s].failures + 1
           /\ session'[s].streak = session[s].streak + 1
           /\ \/ /\ session[s].failures + 1 < MaxCoreFailures /\ active' = active
                 /\ session'[s].pc = "tick" /\ session'[s].status = session[s].status
                 /\ \A t \in Sessions \ {s} : session'[t] = session[t]
              \/ /\ ~(session[s].failures + 1 < MaxCoreFailures)
                 /\ session'[s].pc = "complete" /\ session'[s].status = "error"
                 /\ \E u \in SessionTypes :
                      Clear(s, u) /\ u.pc = "complete" /\ u.status = "error"
<1>1. session[s] \in SessionTypes
  BY DEF TypeInv
<1>2. PICK f \in Nat, g \in Nat : f = session[s].failures + 1 /\ g = session[s].streak + 1
  BY <1>1 DEF SessionTypes
<1> DEFINE u == [session[s] EXCEPT !.failures = f, !.streak = g, !.pc = "tick"]
           v == [session[s] EXCEPT !.failures = f, !.streak = g, !.pc = "complete",
                                   !.status = "error"]
<1>3. u \in SessionTypes /\ v \in SessionTypes
  <2>1. {"tick", "complete"} \subseteq Stages /\ "error" \in Verdicts
    BY DEF Stages, Live, Over, Verdicts
  <2>2. u \in SessionTypes
    BY <1>1, <2>1 DEF SessionTypes
  <2>3. v \in SessionTypes
    BY <1>1, <2>1 DEF SessionTypes
  <2> QED
    BY <2>2, <2>3
<1>4. /\ session[s].pc = "fetch"
      /\ \/ session[s].failures + 1 < MaxCoreFailures /\ active' = active /\ Becomes(s, u)
         \/ ~(session[s].failures + 1 < MaxCoreFailures) /\ Clear(s, v)
  BY <1>2, FetchFailedEffect
<1>5. CASE session[s].failures + 1 < MaxCoreFailures /\ active' = active /\ Becomes(s, u)
  <2>1. session'[s] = u /\ \A t \in Sessions \ {s} : session'[t] = session[t]
    BY <1>3, <1>5, Changed
  <2> QED
    BY <1>1, <1>2, <1>4, <1>5, <2>1 DEF SameSession, SessionTypes
<1>6. CASE ~(session[s].failures + 1 < MaxCoreFailures) /\ Clear(s, v)
  <2>1. session'[s] = v
    BY <1>3, <1>6, Cleared
  <2>2. v.pc = "complete" /\ v.status = "error"
    BY <1>1 DEF SessionTypes
  <2>3. \E r \in SessionTypes : Clear(s, r) /\ r.pc = "complete" /\ r.status = "error"
    <3> HIDE DEF v
    <3> QED
      BY <1>3, <1>6, <2>2
  <2>4. /\ SameSession(s) /\ session'[s].count = session[s].count
        /\ session'[s].failures = f /\ session'[s].streak = g
        /\ session'[s].pc = "complete" /\ session'[s].status = "error"
    BY <1>1, <2>1 DEF SameSession, SessionTypes
  <2> QED
    BY <1>2, <1>4, <1>6, <2>3, <2>4
<1> QED
  BY <1>4, <1>5, <1>6

LEMMA ClearAtEndMove ==
    ASSUME TypeInv, NEW s \in Sessions, ClearAtEnd(s)
    PROVE  /\ SameSession(s) /\ SameCount(s) /\ session'[s].count = session[s].count
           /\ session[s].pc = "clear" /\ session'[s].pc = "ended"
           /\ \E u \in SessionTypes : Clear(s, u) /\ u.pc = "ended"
<1> DEFINE u == [session[s] EXCEPT !.pc = "ended"]
<1>1. session[s] \in SessionTypes
  BY DEF TypeInv
<1>2. u \in SessionTypes /\ u.pc = "ended"
  BY <1>1 DEF SessionTypes, Stages, Over
<1>3. Clear(s, u) /\ session'[s] = u /\ session[s].pc = "clear"
  BY <1>2, ClearAtEndEffect, Cleared
<1>4. \E v \in SessionTypes : Clear(s, v) /\ v.pc = "ended"
  <2> HIDE DEF u
  <2> QED
    BY <1>2, <1>3
<1>5. SameSession(s) /\ SameCount(s) /\ session'[s].count = session[s].count
  BY <1>1, <1>3 DEF SameSession, SameCount, SessionTypes
<1> QED
  BY <1>2, <1>3, <1>4, <1>5

\* The steps that use the database may also be the task's last.
LEMMA DatabaseMove ==
    ASSUME TypeInv, NEW s \in Sessions, Identity(s) \/ Snapshot(s) \/ Complete(s)
    PROVE  /\ SameSession(s) /\ SameCount(s) /\ active' = active
           /\ \/ /\ session'[s].pc = "broken" /\ session'[s].count = session[s].count
                 /\ session[s].pc \in {"identity", "snapshot", "complete"}
                 /\ rows' = rows /\ snapshots' = snapshots
              \/ /\ Identity(s) /\ session[s].pc = "identity" /\ session'[s].pc = "snapshot"
                 /\ session'[s].count = session[s].count /\ snapshots' = snapshots
                 /\ Written(session[s].id, [rows[session[s].id] EXCEPT !.identity = TRUE])
              \/ /\ Snapshot(s) /\ session[s].pc = "snapshot" /\ session'[s].pc = "tick"
                 /\ session'[s].count = session[s].count + 1 /\ rows' = rows
                 /\ snapshots' = snapshots \cup {[id |-> session[s].id, owner |-> s,
                                                  n |-> session[s].count + 1]}
              \/ /\ Complete(s) /\ session[s].pc = "complete" /\ session'[s].pc = "clear"
                 /\ session'[s].count = session[s].count /\ snapshots' = snapshots
                 /\ Written(session[s].id,
                            [rows[session[s].id] EXCEPT !.status = session[s].status])
           /\ \A t \in Sessions \ {s} : session'[t] = session[t]
<1>1. session[s] \in SessionTypes
  BY DEF TypeInv
<1>2. PICK n \in Nat : n = session[s].count + 1
  BY <1>1 DEF SessionTypes
<1>3. ASSUME NEW pc \in {"broken", "clear"}, Becomes(s, [session[s] EXCEPT !.pc = pc])
      PROVE  /\ SameSession(s) /\ SameCount(s) /\ session'[s].count = session[s].count
             /\ session'[s].pc = pc /\ \A t \in Sessions \ {s} : session'[t] = session[t]
  <2> DEFINE u == [session[s] EXCEPT !.pc = pc]
  <2>1. u \in SessionTypes
    BY <1>1 DEF SessionTypes, Stages, Over
  <2>2. session'[s] = u /\ \A t \in Sessions \ {s} : session'[t] = session[t]
    BY <1>3, <2>1, Changed
  <2> QED
    BY <1>1, <2>2 DEF SameSession, SameCount, SessionTypes
<1>4. ASSUME Becomes(s, [session[s] EXCEPT !.pc = "snapshot", !.identity = TRUE])
      PROVE  /\ SameSession(s) /\ SameCount(s) /\ session'[s].count = session[s].count
             /\ session'[s].pc = "snapshot" /\ \A t \in Sessions \ {s} : session'[t] = session[t]
  <2> DEFINE u == [session[s] EXCEPT !.pc = "snapshot", !.identity = TRUE]
  <2>1. u \in SessionTypes
    BY <1>1 DEF SessionTypes, Stages, Live
  <2>2. session'[s] = u /\ \A t \in Sessions \ {s} : session'[t] = session[t]
    BY <1>4, <2>1, Changed
  <2> QED
    BY <1>1, <2>2 DEF SameSession, SameCount, SessionTypes
<1>5. ASSUME Becomes(s, [session[s] EXCEPT !.pc = "tick", !.count = n])
      PROVE  /\ SameSession(s) /\ SameCount(s) /\ session'[s].count = n
             /\ session'[s].pc = "tick" /\ \A t \in Sessions \ {s} : session'[t] = session[t]
  <2> DEFINE u == [session[s] EXCEPT !.pc = "tick", !.count = n]
  <2>1. u \in SessionTypes
    BY <1>1 DEF SessionTypes, Stages, Live
  <2>2. session'[s] = u /\ \A t \in Sessions \ {s} : session'[t] = session[t]
    BY <1>5, <2>1, Changed
  <2> QED
    BY <1>1, <2>2 DEF SameSession, SameCount, SessionTypes
<1>6. CASE Identity(s)
  BY <1>3, <1>4, <1>6, IdentityEffect
<1>7. CASE Complete(s)
  BY <1>3, <1>7, CompleteEffect
<1>8. CASE Snapshot(s)
  <2>1. CASE /\ snapshots' = snapshots \cup {[id |-> session[s].id, owner |-> s, n |-> n]}
             /\ Becomes(s, [session[s] EXCEPT !.pc = "tick", !.count = n])
    BY <1>2, <1>5, <1>8, <2>1, SnapshotEffect
  <2>2. CASE snapshots' = snapshots /\ Becomes(s, [session[s] EXCEPT !.pc = "broken"])
    BY <1>3, <1>8, <2>2, SnapshotEffect
  <2> QED
    BY <1>2, <1>8, <2>1, <2>2, SnapshotEffect
<1> QED
  BY <1>6, <1>7, <1>8

LEMMA TaskSlot ==
    ASSUME TypeInv, SettingAssumption, SlotInv, NEW s \in Sessions, Task(s) \/ Tick(s)
    PROVE  SlotInv'
<1>1. SlotOf(s)
  BY DEF SlotInv
<1>2. CASE Cancel(s)
  <2>1. s \notin held
    BY <1>1, <1>2, CancelMove DEF SlotOf
  <2> QED
    BY <1>2, <2>1, CancelMove, CancelEffect, QuietSlot DEF SameSession, Live, Starting
\* A task that goes on from one query to the next.
<1>3. ASSUME active' = active, \A t \in Sessions \ {s} : session'[t] = session[t],
             SameSession(s), session[s].pc \in Live, session'[s].pc \in Live \cup {"broken"}
      PROVE  SlotInv'
  <2>1. session'[s].pc \notin {"complete", "clear"} \cup Starting
    BY <1>3 DEF Live, Starting
  <2> QED
    BY <1>1, <1>3, <2>1, QuietSlot DEF SlotOf, SameSession
<1>4. CASE Tick(s)
  <2>1. session[s].pc \in Live /\ session'[s].pc \in Live /\ SameSession(s)
    BY <1>4, TickMove, SMTT(30) DEF Live
  <2> QED
    BY <1>3, <1>4, <2>1, TickMove, TickEffect
<1>5. CASE Fetched(s)
  <2>1. session[s].pc \in Live /\ session'[s].pc \in Live /\ SameSession(s)
    BY <1>5, FetchedMove DEF Live
  <2> QED
    BY <1>3, <1>5, <2>1, FetchedMove, FetchedEffect
<1>6. CASE FetchFailed(s)
  <2>1. CASE active' = active /\ session'[s].pc = "tick"
    BY <1>3, <1>6, <2>1, FetchFailedMove DEF Live
  <2>2. CASE \E u \in SessionTypes : Clear(s, u) /\ u.pc = "complete" /\ u.status = "error"
    BY <2>2, ClearSlot DEF Over
  <2> QED
    BY <1>6, <2>1, <2>2, FetchFailedMove
<1>7. CASE ClearAtEnd(s)
  BY <1>7, ClearAtEndMove, ClearSlot DEF Over
<1>8. CASE Identity(s) \/ Snapshot(s) \/ Complete(s)
  <2>1. CASE session[s].pc \in Live /\ session'[s].pc \in Live \cup {"broken"}
    BY <1>3, <1>8, <2>1, DatabaseMove
  <2>2. CASE session[s].pc = "complete" /\ session'[s].pc \in {"clear", "broken"}
    <3>1. s \notin held
      BY <1>1, <2>2 DEF SlotOf, Live
    <3>2. session'[s].stop = session[s].stop /\ session'[s].status = session[s].status
      BY <1>8, DatabaseMove DEF SameSession, SameCount
    <3>3. session[s].stop \/ session[s].status = "error"
      BY <1>1, <2>2 DEF SlotOf
    <3>4. session'[s].pc \notin Live \cup Starting
      BY <2>2 DEF Live, Starting
    <3> QED
      BY <1>8, <3>1, <3>2, <3>3, <3>4, DatabaseMove, QuietSlot
  <2> QED
    BY <1>8, <2>1, <2>2, DatabaseMove DEF Live
<1> QED
  BY <1>2, <1>4, <1>5, <1>6, <1>7, <1>8 DEF Task

LEMMA NextSlot ==
    ASSUME TypeInv, SettingAssumption, SlotInv, [Next]_vars
    PROVE  SlotInv'
<1>1. ASSUME active' = active, session' = session
      PROVE  SlotInv'
  BY <1>1 DEF SlotInv, SlotOf, watched, held
<1>2. CASE RowDeletes
  BY <1>1, <1>2, DeleteEffects
<1>3. CASE UNCHANGED vars
  BY <1>1, <1>3 DEF vars
<1>4. ASSUME NEW s \in Sessions, Moves(s)
      PROVE  SlotInv'
  BY <1>4, StartSlot, StopSlot, TaskSlot DEF Moves
<1> QED
  BY <1>2, <1>3, <1>4, Steps

LEMMA InitSlot ==
    ASSUME SettingAssumption, Init
    PROVE  SlotInv
<1>1. watched = {} /\ held = {}
  BY DEF Init, watched, held
<1>2. IsFiniteSet({}) /\ Cardinality({}) = 0
  BY FS_EmptySet
<1> QED
  BY <1>1, <1>2 DEF Init, Idle, SlotInv, SlotOf, Live, SettingAssumption

LEMMA SlotInvariance ==
    ASSUME SettingAssumption
    PROVE  Init /\ [][Next]_vars => [](TypeInv /\ SlotInv)
<1>1. Init => TypeInv /\ SlotInv
  BY InitType, InitSlot
<1>2. TypeInv /\ SlotInv /\ [Next]_vars => TypeInv' /\ SlotInv'
  BY NextType, NextSlot
<1> QED
  BY <1>1, <1>2, PTL

\* A session whose end the user was told of has no slot, and a task that nobody
\* has stopped can be, whatever is deleted when, and although clear_active frees
\* whichever slot has its session id.
THEOREM StoppableHolds ==
    ASSUME SettingAssumption
    PROVE  Init /\ [][Next]_vars => []Stoppable
<1>1. TypeInv /\ SlotInv => Stoppable
  <2> SUFFICES ASSUME TypeInv, SlotInv PROVE Stoppable
    OBVIOUS
  <2>1. \A s \in held : s \in Sessions
    BY DEF held, watched, TypeInv
  <2> QED
    BY <2>1 DEF SlotInv, SlotOf, Stoppable, Live
<1> QED
  BY <1>1, SlotInvariance, PTL

\* However many starts connect at the same time, no more routers are polled than
\* the cap allows and none of them twice.
THEOREM OnePollerPerRouterHolds ==
    ASSUME SettingAssumption
    PROVE  Init /\ [][Next]_vars => []OnePollerPerRouter
<1>1. TypeInv /\ SlotInv => OnePollerPerRouter
  <2> SUFFICES ASSUME TypeInv, SlotInv PROVE OnePollerPerRouter
    OBVIOUS
  <2> DEFINE pollers == {s \in Sessions :
                           Polling(s) /\ ~session[s].stop /\ session[s].status # "error"}
  <2>1. pollers \subseteq held
    BY DEF SlotInv, SlotOf, Polling, Live
  <2>2. \A s, t \in pollers : session[s].profile = session[t].profile => s = t
    BY <2>1 DEF SlotInv, held
  <2>3. \A s \in pollers : session[s].profile \in watched
    BY <2>1 DEF SlotInv, held
  <2> HIDE DEF pollers
  <2> DEFINE routerOf == [s \in pollers |-> session[s].profile]
  <2>4. routerOf \in Injection(pollers, watched)
    BY <2>2, <2>3 DEF Injection, IsInjective
  <2>5. /\ IsFiniteSet(pollers) /\ IsFiniteSet(watched)
        /\ Cardinality(pollers) <= Cardinality(watched)
    BY <2>4, FS_Injection DEF SlotInv
  <2>6. Cardinality(pollers) <= MaxActive
    BY <2>5, FS_CardinalityType DEF SlotInv, SettingAssumption
  <2> QED
    BY <2>2, <2>6 DEF OnePollerPerRouter, pollers
<1> QED
  BY <1>1, SlotInvariance, PTL

-----------------------------------------------------------------------------
(* What start(), stop() and the probe do to the record of a session.       *)

\* A start() that does not get through.
LEMMA StartMove ==
    ASSUME TypeInv, NEW s \in Sessions,
           (\E p \in Profiles : StartCheck(s, p)) \/ Connect(s) \/ Claim(s),
           ~(Claim(s) /\ Register(s, session[s].profile))
    PROVE  /\ SameCount(s) /\ session'[s].count = session[s].count
           /\ session[s].pc \in Starting
           /\ session'[s].pc \in {"refused", "failed", "connect", "claim"}
           /\ session'[s].id = session[s].id /\ session'[s].probe = session[s].probe
           /\ active' = active /\ TablesKept
           /\ \A t \in Sessions \ {s} : session'[t] = session[t]
<1>1. session[s] \in SessionTypes
  BY DEF TypeInv
<1>2. ASSUME NEW pc \in {"refused", "failed", "connect", "claim"}, NEW p \in Profiles \cup {Nobody},
             Becomes(s, [session[s] EXCEPT !.pc = pc, !.profile = p])
      PROVE  /\ SameCount(s) /\ session'[s].count = session[s].count /\ session'[s].pc = pc
             /\ session'[s].id = session[s].id /\ session'[s].probe = session[s].probe
             /\ \A t \in Sessions \ {s} : session'[t] = session[t]
  <2> DEFINE u == [session[s] EXCEPT !.pc = pc, !.profile = p]
  <2>1. u \in SessionTypes
    <3>1. pc \in Stages
      BY DEF Stages
    <3> QED
      BY <1>1, <3>1 DEF SessionTypes
  <2>2. session'[s] = u /\ \A t \in Sessions \ {s} : session'[t] = session[t]
    BY <1>2, <2>1, Changed
  <2> QED
    BY <1>1, <2>2 DEF SameCount, SessionTypes
<1>3. ASSUME NEW pc \in {"refused", "failed", "connect", "claim"},
             Becomes(s, [session[s] EXCEPT !.pc = pc])
      PROVE  /\ SameCount(s) /\ session'[s].count = session[s].count /\ session'[s].pc = pc
             /\ session'[s].id = session[s].id /\ session'[s].probe = session[s].probe
             /\ \A t \in Sessions \ {s} : session'[t] = session[t]
  <2>1. [session[s] EXCEPT !.pc = pc] =
        [session[s] EXCEPT !.pc = pc, !.profile = session[s].profile]
    BY <1>1 DEF SessionTypes
  <2>2. session[s].profile \in Profiles \cup {Nobody}
    BY <1>1, SMTT(30) DEF SessionTypes
  <2> QED
    BY <1>2, <1>3, <2>1, <2>2
<1>4. CASE \E p \in Profiles : StartCheck(s, p)
  BY <1>2, <1>4, StartCheckEffect DEF Starting
<1>5. CASE Connect(s)
  BY <1>3, <1>5, ConnectEffect DEF Starting
<1>6. CASE Claim(s)
  <2>1. /\ session[s].pc = "claim" /\ active' = active /\ TablesKept
        /\ \E pc \in {"refused", "failed"} : Becomes(s, [session[s] EXCEPT !.pc = pc])
    BY <1>6, ClaimEffect DEF TablesKept
  <2> QED
    BY <1>3, <2>1 DEF Starting
<1> QED
  BY <1>4, <1>5, <1>6

LEMMA ClaimMove ==
    ASSUME TypeInv, NEW s \in Sessions, Claim(s), Register(s, session[s].profile)
    PROVE  /\ SameCount(s) /\ session'[s].count = session[s].count
           /\ session[s].pc = "claim" /\ session'[s].pc = "tick"
           /\ session'[s].id = NextId /\ session'[s].profile = session[s].profile
           /\ session[s].profile \in Profiles /\ session[s].profile \in profiles
           /\ snapshots' = snapshots /\ profiles' = profiles
           /\ \A t \in Sessions \ {s} : session'[t] = session[t]
<1>1. session[s] \in SessionTypes
  BY DEF TypeInv
<1>2. session[s].pc = "claim" /\ snapshots' = snapshots /\ profiles' = profiles
  BY ClaimEffect
<1>3. session' = [session EXCEPT ![s].pc = "tick", ![s].id = NextId, ![s].probe = "polling"]
  BY DEF Register
<1>4. session'[s] = [session[s] EXCEPT !.pc = "tick", !.id = NextId, !.probe = "polling"]
  BY <1>3 DEF TypeInv
<1>5. \A t \in Sessions \ {s} : session'[t] = session[t]
  BY <1>3 DEF TypeInv
<1>6. /\ SameCount(s) /\ session'[s].count = session[s].count /\ session'[s].pc = "tick"
      /\ session'[s].id = NextId /\ session'[s].profile = session[s].profile
  BY <1>1, <1>4 DEF SameCount, SessionTypes
<1>7. session[s].profile \in profiles
  <2>1. CASE active' = active /\ rows' = rows
    <3>1. ids' = ids \cup {NextId} /\ ids' = ids
      BY <2>1 DEF Register, ids
    <3> QED
      BY <3>1, NextIdProps
  <2> QED
    BY <2>1, ClaimEffect
<1> QED
  BY <1>2, <1>5, <1>6, <1>7 DEF TypeInv

\* stop() and the probe leave the task where it is, and only a session that is
\* busy gets a probe.
LEMMA ProbeMove ==
    ASSUME TypeInv, NEW s \in Sessions,
           Stop(s) \/ StopReturn(s) \/ CheckUpdates(s) \/ Probed(s) \/ SaveVersion(s)
    PROVE  /\ SameCount(s) /\ session'[s].count = session[s].count
           /\ session'[s].pc = session[s].pc
           /\ session'[s].id = session[s].id /\ session'[s].profile = session[s].profile
           /\ snapshots' = snapshots /\ profiles' = profiles
           /\ \/ rows' = rows
              \/ /\ session[s].probe = "save" /\ SaveVersion(s)
                 /\ Written(session[s].id, [rows[session[s].id] EXCEPT !.version = s])
           /\ held' \subseteq held
           /\ Busy(s)' => Busy(s)
           /\ \A t \in Sessions \ {s} : session'[t] = session[t]
<1>1. session[s] \in SessionTypes
  BY DEF TypeInv
<1>2. CASE Stop(s) \/ StopReturn(s)
  <2>1. \E u \in SessionTypes :
          /\ Becomes(s, u) /\ u.pc = session[s].pc /\ u.id = session[s].id
          /\ u.profile = session[s].profile /\ u.probe = session[s].probe
          /\ u.count = session[s].count /\ u.failures = session[s].failures
          /\ u.streak = session[s].streak /\ u.status = session[s].status
    <3> DEFINE v == [session[s] EXCEPT !.stop = TRUE, !.stopper = "joining"]
               w == [session[s] EXCEPT !.stopper = "returned"]
           alike(u) == /\ u \in SessionTypes /\ u.pc = session[s].pc /\ u.id = session[s].id
                       /\ u.profile = session[s].profile /\ u.probe = session[s].probe
                       /\ u.count = session[s].count /\ u.failures = session[s].failures
                       /\ u.streak = session[s].streak /\ u.status = session[s].status
    <3>1. alike(v)
      BY <1>1 DEF SessionTypes
    <3>2. alike(w)
      BY <1>1 DEF SessionTypes
    <3>3. Becomes(s, v) \/ Becomes(s, w)
      BY <1>2, StopEffect, StopReturnEffect
    <3> HIDE DEF v, w
    <3> QED
      BY <3>1, <3>2, <3>3
  <2>2. /\ SameCount(s) /\ session'[s].count = session[s].count
        /\ session'[s].pc = session[s].pc /\ session'[s].probe = session[s].probe
        /\ session'[s].id = session[s].id /\ session'[s].profile = session[s].profile
        /\ \A t \in Sessions \ {s} : session'[t] = session[t]
    BY <2>1, Changed DEF SameCount
  <2>3. TablesKept /\ held' \subseteq held
    <3>1. CASE Stop(s)
      BY <3>1, StopEffect DEF held, watched
    <3>2. CASE StopReturn(s)
      BY <3>2, StopReturnEffect, SameSlots
    <3> QED
      BY <1>2, <3>1, <3>2
  <2> QED
    BY <2>2, <2>3 DEF Busy, Polling, TablesKept
<1>3. CASE CheckUpdates(s) \/ Probed(s) \/ SaveVersion(s)
  <2>1. PICK probe \in {"polling", "save", "done"} :
          Becomes(s, [session[s] EXCEPT !.probe = probe])
    BY <1>3, CheckUpdatesEffect, ProbedEffect, SaveVersionEffect
  <2> DEFINE u == [session[s] EXCEPT !.probe = probe]
  <2>2. u \in SessionTypes
    BY <1>1 DEF SessionTypes
  <2>3. session'[s] = u /\ \A t \in Sessions \ {s} : session'[t] = session[t]
    BY <2>1, <2>2, Changed
  <2>4. /\ SameCount(s) /\ session'[s].count = session[s].count
        /\ session'[s].pc = session[s].pc
        /\ session'[s].id = session[s].id /\ session'[s].profile = session[s].profile
    BY <1>1, <2>3 DEF SameCount, SessionTypes
  <2>5. active' = active /\ held' = held
    BY <1>3, CheckUpdatesEffect, ProbedEffect, SaveVersionEffect, SameSlots
  <2>6. s \in held \/ session[s].probe \in {"polling", "save"}
    BY <1>3, CheckUpdatesEffect, ProbedEffect, SaveVersionEffect
  <2>7. /\ snapshots' = snapshots /\ profiles' = profiles
        /\ \/ rows' = rows
           \/ /\ session[s].probe = "save" /\ SaveVersion(s)
              /\ Written(session[s].id, [rows[session[s].id] EXCEPT !.version = s])
    BY <1>3, CheckUpdatesEffect, ProbedEffect, SaveVersionEffect DEF TablesKept
  <2> QED
    BY <2>3, <2>4, <2>5, <2>6, <2>7 DEF Busy, Polling
<1> QED
  BY <1>2, <1>3

-----------------------------------------------------------------------------
(* Failures in a row.                                                      *)

StreakOf(s) ==
    /\ session[s].failures = session[s].streak
    /\ session[s].status = "error" => session[s].streak = MaxCoreFailures
    /\ session[s].status # "error" => session[s].streak < MaxCoreFailures
    /\ session[s].pc \notin Over => session[s].status = "running"

StreakInv == \A s \in Sessions : StreakOf(s)

\* clear_active changes no more of another session than its flag.
LEMMA OthersKept ==
    ASSUME TypeInv, NEW s \in Sessions, Moves(s), NEW t \in Sessions \ {s}
    PROVE  /\ session'[t].pc = session[t].pc /\ session'[t].status = session[t].status
           /\ session'[t].failures = session[t].failures
           /\ session'[t].streak = session[t].streak
           /\ session'[t].id = session[t].id /\ session'[t].profile = session[t].profile
           /\ session'[t].count = session[t].count /\ session'[t].probe = session[t].probe
<1>1. session[t] \in SessionTypes
  BY DEF TypeInv
<1>2. CASE session'[t] = session[t]
  BY <1>2
<1>3. CASE session'[t] = [session[t] EXCEPT !.stop = TRUE]
  BY <1>1, <1>3 DEF SessionTypes
<1>4. ASSUME NEW u \in SessionTypes, Clear(s, u)
      PROVE  session'[t] = session[t] \/ session'[t] = [session[t] EXCEPT !.stop = TRUE]
  BY <1>4, Cleared
<1>5. CASE Task(s) \/ Tick(s)
  <2>1. CASE Cancel(s) \/ Tick(s) \/ Fetched(s)
    BY <1>2, <2>1, CancelMove, TickMove, FetchedMove
  <2>2. CASE FetchFailed(s)
    BY <1>2, <1>3, <1>4, <2>2, FetchFailedMove
  <2>3. CASE ClearAtEnd(s)
    BY <1>2, <1>3, <1>4, <2>3, ClearAtEndMove
  <2>4. CASE Identity(s) \/ Snapshot(s) \/ Complete(s)
    BY <1>2, <2>4, DatabaseMove
  <2> QED
    BY <1>5, <2>1, <2>2, <2>3, <2>4 DEF Task
<1>6. CASE (\E p \in Profiles : StartCheck(s, p)) \/ Connect(s) \/ Claim(s)
  BY <1>2, <1>6, StartMove, ClaimMove
<1>7. CASE Stop(s) \/ StopReturn(s) \/ CheckUpdates(s) \/ Probed(s) \/ SaveVersion(s)
  BY <1>2, <1>7, ProbeMove
<1> QED
  BY <1>5, <1>6, <1>7 DEF Moves

LEMMA MoveStreak ==
    ASSUME TypeInv, SettingAssumption, StreakInv, NEW s \in Sessions, Moves(s)
    PROVE  StreakInv'
<1>1. session[s] \in SessionTypes /\ StreakOf(s)
  BY DEF TypeInv, StreakInv
<1>2. session[s].failures \in Nat /\ session[s].streak \in Nat /\ MaxCoreFailures \in Nat \ {0}
  BY <1>1 DEF SessionTypes, SettingAssumption
<1>3. StreakOf(s)'
  <2>1. ASSUME SameCount(s), session'[s].pc \notin Over => session[s].pc \notin Over
        PROVE  StreakOf(s)'
    BY <1>1, <2>1 DEF StreakOf, SameCount
  <2>2. CASE Cancel(s)
    <3>1. session[s].status = "running"
      BY <1>1, <2>2, CancelMove DEF StreakOf, Over
    <3> QED
      BY <1>1, <2>2, <3>1, CancelMove DEF StreakOf, Over
  <2>3. CASE Tick(s)
    BY <2>1, <2>3, TickMove DEF Over
  <2>4. CASE Fetched(s)
    <3>1. session[s].status = "running"
      BY <1>1, <2>4, FetchedMove DEF StreakOf, Over
    <3> QED
      BY <1>2, <2>4, <3>1, FetchedMove DEF StreakOf, Over
  <2>5. CASE FetchFailed(s)
    <3>1. /\ session[s].status = "running" /\ session[s].failures = session[s].streak
          /\ session[s].streak < MaxCoreFailures
      BY <1>1, <2>5, FetchFailedMove DEF StreakOf, Over
    <3>2. /\ session'[s].failures = session[s].failures + 1
          /\ session'[s].streak = session[s].streak + 1
          /\ \/ /\ session[s].failures + 1 < MaxCoreFailures
                /\ session'[s].pc = "tick" /\ session'[s].status = session[s].status
             \/ /\ ~(session[s].failures + 1 < MaxCoreFailures)
                /\ session'[s].pc = "complete" /\ session'[s].status = "error"
      BY <2>5, FetchFailedMove
    <3> QED
      BY <1>2, <3>1, <3>2 DEF StreakOf, Over
  <2>6. CASE ClearAtEnd(s)
    BY <2>1, <2>6, ClearAtEndMove DEF Over
  <2>7. CASE Identity(s) \/ Snapshot(s) \/ Complete(s)
    BY <2>1, <2>7, DatabaseMove DEF Over
  <2>8. CASE (\E p \in Profiles : StartCheck(s, p)) \/ Connect(s) \/ Claim(s)
    BY <2>1, <2>8, StartMove, ClaimMove DEF Over, Starting
  <2>9. CASE Stop(s) \/ StopReturn(s) \/ CheckUpdates(s) \/ Probed(s) \/ SaveVersion(s)
    BY <2>1, <2>9, ProbeMove
  <2> QED
    BY <2>2, <2>3, <2>4, <2>5, <2>6, <2>7, <2>8, <2>9 DEF Moves, Task
<1>4. \A t \in Sessions \ {s} : StreakOf(t)'
  BY OthersKept DEF StreakInv, StreakOf
<1> QED
  BY <1>3, <1>4 DEF StreakInv

LEMMA StreakInvariance ==
    ASSUME SettingAssumption
    PROVE  Init /\ [][Next]_vars => [](TypeInv /\ SlotInv /\ StreakInv)
<1>1. Init => StreakInv
  BY DEF Init, Idle, StreakInv, StreakOf, SettingAssumption
<1>2. ASSUME TypeInv, StreakInv, [Next]_vars
      PROVE  StreakInv'
  <2>1. CASE session' = session
    BY <1>2, <2>1 DEF StreakInv, StreakOf
  <2> QED
    BY <1>2, <2>1, MoveStreak, Steps, DeleteEffects DEF vars
<1> QED
  BY <1>1, <1>2, SlotInvariance, PTL

\* A session fails when its router missed MAX_CORE_FAILURES ticks in a row, no
\* more and no less.
THEOREM ErrorMeansStreakHolds ==
    ASSUME SettingAssumption
    PROVE  Init /\ [][Next]_vars => []ErrorMeansStreak
<1>1. TypeInv /\ StreakInv => ErrorMeansStreak
  <2> SUFFICES ASSUME TypeInv, StreakInv PROVE ErrorMeansStreak
    OBVIOUS
  <2>1. \A s \in Sessions : session[s].streak \in Nat
    BY DEF TypeInv, SessionTypes
  <2> QED
    BY <2>1 DEF StreakInv, StreakOf, ErrorMeansStreak, SettingAssumption
<1> QED
  BY <1>1, StreakInvariance, PTL

\* Entries are of the profile of their session, snapshots have their session's
\* row, and the failure count stays within its limit.
THEOREM TypeOKHolds ==
    ASSUME SettingAssumption
    PROVE  Init /\ [][Next]_vars => []TypeOK
<1>1. TypeInv /\ SlotInv /\ StreakInv => TypeOK
  <2> SUFFICES ASSUME TypeInv, SlotInv, StreakInv PROVE TypeOK
    OBVIOUS
  <2>1. watched \subseteq Profiles /\ \A p \in watched : session[active[p]].profile = p
    BY DEF watched, SlotInv
  <2>2. ASSUME NEW s \in Sessions
        PROVE  /\ session[s].pc \in Stages /\ session[s].failures \in 0..MaxCoreFailures
    <3>1. /\ session[s].pc \in Stages /\ session[s].streak \in Nat
          /\ session[s].failures \in Nat
      BY DEF TypeInv, SessionTypes
    <3> QED
      BY <3>1 DEF StreakInv, StreakOf, SettingAssumption
  <2>3. \A n \in snapshots : n.id \in ids
    BY DEF TypeInv
  <2> QED
    BY <2>1, <2>2, <2>3 DEF TypeOK, Stages, Live, Over
<1> QED
  BY <1>1, StreakInvariance, PTL

-----------------------------------------------------------------------------
(* The history, if no session is deleted that has a slot, a task or a probe. *)

Begun == Live \cup Over
Open == Live \cup {"complete"}

\* A session that is busy has its row, which is open until the task closes it.
OwnOf(s) ==
    /\ Busy(s) => /\ session[s].id \in ids /\ rows[session[s].id].owner = s
                  /\ rows[session[s].id].profile = session[s].profile
    /\ session[s].pc \notin Begun => session[s].count = 0 /\ session[s].probe = "none"
    /\ session[s].pc \in Open => rows[session[s].id].status = "running"

Shots(i) == {n \in snapshots : n.id = i}
Counted(i, s, count) == {[id |-> i, owner |-> s, n |-> k] : k \in 1..count}

\* A row's id is that of its owner only, and its snapshots are the owner's.
RowOf(i) ==
    /\ session[rows[i].owner].id = i /\ session[rows[i].owner].pc \in Begun
    /\ rows[i].version \in {rows[i].owner, Nobody}
    /\ Shots(i) = Counted(i, rows[i].owner, session[rows[i].owner].count)

OwnInv == (\A s \in Sessions : OwnOf(s)) /\ (\A i \in ids : RowOf(i))

LEMMA RowOwner ==
    ASSUME TypeInv, NEW i \in ids
    PROVE  rows[i].owner \in Sessions /\ rows[i] \in RowTypes
BY DEF TypeInv, RowTypes

\* What another session is busy with stays as it was.
OthersSame(s) ==
    \A t \in Sessions \ {s} :
        /\ session'[t].pc = session[t].pc /\ session'[t].id = session[t].id
        /\ session'[t].profile = session[t].profile /\ session'[t].count = session[t].count
        /\ session'[t].probe = session[t].probe
        /\ Busy(t)' => Busy(t)

\* A step that leaves the tables alone.
LEMMA QuietOwn ==
    ASSUME TypeInv, OwnInv, NEW s \in Sessions, OthersSame(s),
           rows' = rows, snapshots' = snapshots,
           Busy(s)' => /\ Busy(s) /\ session'[s].id = session[s].id
                       /\ session'[s].profile = session[s].profile,
           session'[s].pc \notin Begun => session'[s].count = 0 /\ session'[s].probe = "none",
           session'[s].pc \in Open => session[s].pc \in Open /\ session'[s].id = session[s].id,
           session[s].pc \in Begun => /\ session'[s].pc \in Begun
                                      /\ session'[s].id = session[s].id
                                      /\ session'[s].count = session[s].count
    PROVE  OwnInv'
<1>1. ids' = ids
  BY DEF ids
<1>2. OwnOf(s)'
  BY <1>1 DEF OwnInv, OwnOf
<1>3. \A t \in Sessions \ {s} : OwnOf(t)'
  BY <1>1 DEF OwnInv, OwnOf, OthersSame
<1>4. ASSUME NEW i \in ids
      PROVE  RowOf(i)'
  <2>1. Shots(i)' = Shots(i) /\ rows[i].owner \in Sessions
    BY RowOwner DEF Shots
  <2>2. CASE rows[i].owner = s
    BY <2>1, <2>2 DEF OwnInv, RowOf
  <2>3. CASE rows[i].owner # s
    BY <2>1, <2>3 DEF OwnInv, RowOf, OthersSame
  <2> QED
    BY <2>2, <2>3
<1> QED
  BY <1>1, <1>2, <1>3, <1>4 DEF OwnInv

\* A step of a busy session that writes to its own row, or adds a snapshot.
LEMMA WriteOwn ==
    ASSUME TypeInv, OwnInv, NEW s \in Sessions, OthersSame(s), Busy(s), ids' = ids,
           session'[s].id = session[s].id, session'[s].profile = session[s].profile,
           \A i \in ids \ {session[s].id} : rows'[i] = rows[i] /\ Shots(i)' = Shots(i),
           rows'[session[s].id].owner = s,
           rows'[session[s].id].profile = rows[session[s].id].profile,
           session'[s].pc \in Begun,
           session'[s].pc \in Open => rows'[session[s].id].status = "running",
           rows'[session[s].id].version \in {s, Nobody},
           Shots(session[s].id)' = Counted(session[s].id, s, session'[s].count)
    PROVE  OwnInv'
<1> DEFINE i == session[s].id
<1>1. i \in ids /\ rows[i].owner = s /\ rows[i].profile = session[s].profile
  BY DEF OwnInv, OwnOf
<1>2. OwnOf(s)'
  BY <1>1 DEF OwnOf
<1>3. ASSUME NEW t \in Sessions \ {s}
      PROVE  OwnOf(t)'
  <2>1. CASE Busy(t)
    <3>1. session[t].id \in ids /\ rows[session[t].id].owner = t
      BY <2>1 DEF OwnInv, OwnOf
    <3>2. session[t].id # i
      BY <1>1, <3>1
    <3> HIDE DEF i
    <3>3. rows'[session[t].id] = rows[session[t].id]
      BY <3>1, <3>2 DEF i
    <3> QED
      BY <2>1, <3>1, <3>3 DEF OwnInv, OwnOf, OthersSame
  <2>2. CASE ~Busy(t)
    <3>1. session[t].pc \notin Open
      BY <2>2 DEF Busy, Polling, Open, Live
    <3> QED
      BY <2>2, <3>1 DEF OwnInv, OwnOf, OthersSame
  <2> QED
    BY <2>1, <2>2
<1>4. RowOf(i)'
  BY <1>1 DEF RowOf
<1>5. ASSUME NEW j \in ids \ {i}
      PROVE  RowOf(j)'
  <2>1. rows'[j] = rows[j] /\ Shots(j)' = Shots(j) /\ rows[j].owner \in Sessions
    BY RowOwner
  <2>2. rows[j].owner # s
    BY DEF OwnInv, RowOf
  <2> QED
    BY <2>1, <2>2 DEF OwnInv, RowOf, OthersSame
<1> QED
  BY <1>2, <1>3, <1>4, <1>5 DEF OwnInv

\* No step of one session makes another busy.
LEMMA MoveOthers ==
    ASSUME TypeInv, NEW s \in Sessions, Moves(s)
    PROVE  OthersSame(s) /\ held' \subseteq held \cup {s}
<1>1. held' \subseteq held \cup {s}
  <2>1. CASE active' = active
    BY <2>1, SameSlots
  <2>2. ASSUME NEW u \in SessionTypes, Clear(s, u)
        PROVE  held' \subseteq held
    BY <2>2, Cleared DEF held, watched
  <2>3. CASE Claim(s) /\ Register(s, session[s].profile)
    <3>1. active' = [active EXCEPT ![session[s].profile] = s]
      BY <2>3 DEF Register
    <3> QED
      BY <3>1 DEF held, watched, TypeInv
  <2>4. CASE Task(s) \/ Tick(s)
    <3>1. CASE Cancel(s) \/ Tick(s) \/ Fetched(s)
      BY <2>1, <3>1, CancelEffect, TickEffect, FetchedEffect
    <3>2. CASE FetchFailed(s)
      BY <2>1, <2>2, <3>2, FetchFailedMove
    <3>3. CASE ClearAtEnd(s)
      BY <2>2, <3>3, ClearAtEndMove
    <3>4. CASE Identity(s) \/ Snapshot(s) \/ Complete(s)
      BY <2>1, <3>4, DatabaseMove
    <3>5. \/ Cancel(s) \/ Tick(s) \/ Fetched(s) \/ FetchFailed(s) \/ ClearAtEnd(s)
          \/ Identity(s) \/ Snapshot(s) \/ Complete(s)
      BY <2>4 DEF Task
    <3> HIDE <2>1, <2>2
    <3> QED
      BY <3>1, <3>2, <3>3, <3>4, <3>5, ZenonT(40)
  <2>5. CASE (\E p \in Profiles : StartCheck(s, p)) \/ Connect(s) \/ Claim(s)
    BY <2>1, <2>3, <2>5, StartMove
  <2>6. CASE Stop(s) \/ StopReturn(s) \/ CheckUpdates(s) \/ Probed(s) \/ SaveVersion(s)
    BY <2>6, ProbeMove
  <2> QED
    BY <2>4, <2>5, <2>6 DEF Moves
<1> QED
  BY <1>1, OthersKept DEF OthersSame, Busy, Polling

LEMMA OpenIsBusy ==
    ASSUME NEW s \in Sessions, session[s].pc \in Open
    PROVE  Busy(s) /\ session[s].pc \in Begun
BY DEF Open, Live, Begun, Over, Busy, Polling

\* A start() that got through has a new row, with no snapshot yet.
LEMMA ClaimOwn ==
    ASSUME TypeInv, OwnInv, NEW s \in Sessions, Claim(s), Register(s, session[s].profile)
    PROVE  OwnInv'
<1> DEFINE p == session[s].profile
<1>0. PICK i \in Nat : i = NextId
  BY NextIdProps
<1>1. /\ session[s].pc = "claim" /\ session'[s].pc = "tick" /\ session'[s].id = i
      /\ session'[s].profile = p /\ session'[s].count = session[s].count
      /\ p \in Profiles /\ snapshots' = snapshots
      /\ \A t \in Sessions \ {s} : session'[t] = session[t]
  BY <1>0, ClaimMove
<1>2. /\ ids' = ids \cup {i} /\ \A j \in ids : rows'[j] = rows[j]
      /\ rows'[i].owner = s /\ rows'[i].profile = p
      /\ rows'[i].status = "running" /\ rows'[i].version = Nobody
  <2> DEFINE new == [owner |-> s, profile |-> p, status |-> "running",
                     identity |-> FALSE, version |-> Nobody]
  <2>1. ids' = ids \cup {NextId} /\ (\A j \in ids : rows'[j] = rows[j]) /\ rows'[NextId] = new
    BY <1>1, Registered
  <2> QED
    BY <1>0, <2>1
<1>3. i \notin ids
  BY <1>0, NextIdProps
<1>4. OthersSame(s)
  BY MoveOthers DEF Moves
<1>5. session[s].pc \notin Begun /\ session[s].count = 0
  BY <1>1 DEF Begun, Live, Over, OwnInv, OwnOf
<1>6. OwnOf(s)'
  BY <1>1, <1>2 DEF OwnOf, Begun, Live
<1>7. ASSUME NEW t \in Sessions \ {s}
      PROVE  OwnOf(t)'
  <2>1. session'[t] = session[t] /\ (Busy(t)' => Busy(t)) /\ OwnOf(t)
    BY <1>1, <1>4 DEF OthersSame, OwnInv
  <2>2. Busy(t) => /\ session[t].id \in ids' /\ rows'[session[t].id] = rows[session[t].id]
    BY <1>2, <2>1 DEF OwnOf
  <2> QED
    BY <2>1, <2>2, OpenIsBusy DEF OwnOf
<1>8. RowOf(i)'
  <2>1. Shots(i)' = {}
    <3>1. \A n \in snapshots : n.id \in ids
      BY DEF TypeInv
    <3> QED
      BY <1>1, <1>3, <3>1 DEF Shots
  <2>2. Counted(i, s, 0) = {}
    BY DEF Counted
  <2>3. session'[s].pc \in Begun /\ session'[s].count = 0
    BY <1>1, <1>5 DEF Begun, Live
  <2>4. Counted(session'[s].id, s, session'[s].count) = {}
    BY <1>1, <2>2, <2>3
  <2> QED
    BY <1>1, <1>2, <2>1, <2>3, <2>4 DEF RowOf
<1>9. ASSUME NEW j \in ids
      PROVE  RowOf(j)'
  <2>1. rows'[j] = rows[j] /\ Shots(j)' = Shots(j) /\ rows[j].owner \in Sessions
    BY <1>1, <1>2, RowOwner DEF Shots
  <2>2. rows[j].owner # s
    BY <1>5 DEF OwnInv, RowOf
  <2>3. session'[rows[j].owner] = session[rows[j].owner]
    BY <1>1, <2>1, <2>2
  <2> QED
    BY <2>1, <2>3 DEF OwnInv, RowOf
<1> QED
  BY <1>2, <1>6, <1>7, <1>8, <1>9 DEF OwnInv

\* No delete meets a busy session.
LEMMA DeleteOwn ==
    ASSUME TypeInv, OwnInv, DeleteBusy = FALSE, RowDeletes
    PROVE  OwnInv'
<1>1. active' = active /\ session' = session /\ held' = held
  BY DeleteEffects, SameSlots
<1>2. ASSUME NEW gone, Remove(gone), \A s \in Sessions : Busy(s) => session[s].id \notin gone
      PROVE  OwnInv'
  <2>1. /\ ids' = ids \ gone /\ \A j \in ids' : rows'[j] = rows[j]
        /\ snapshots' = {n \in snapshots : n.id \notin gone}
    BY <1>2, Removed
  <2>2. ASSUME NEW s \in Sessions
        PROVE  OwnOf(s)'
    <3>1. Busy(s)' = Busy(s) /\ OwnOf(s)
      BY <1>1 DEF Busy, Polling, OwnInv
    <3>2. Busy(s) => session[s].id \in ids' /\ rows'[session[s].id] = rows[session[s].id]
      BY <1>2, <2>1, <3>1 DEF OwnOf
    <3> QED
      BY <1>1, <3>1, <3>2, OpenIsBusy DEF OwnOf
  <2>3. ASSUME NEW j \in ids'
        PROVE  RowOf(j)'
    <3>1. Shots(j)' = Shots(j)
      BY <2>1 DEF Shots
    <3> QED
      BY <1>1, <2>1, <3>1 DEF OwnInv, RowOf
  <2> QED
    BY <2>2, <2>3 DEF OwnInv
<1>3. CASE TablesKept
  <2>1. ids' = ids /\ rows' = rows /\ snapshots' = snapshots
    BY <1>3 DEF TablesKept, ids
  <2> QED
    BY <1>1, <2>1 DEF OwnInv, OwnOf, RowOf, Shots, Busy, Polling
<1>4. CASE \E i \in ids : Delete(i) /\ Remove({i})
  BY <1>2, <1>4 DEF Delete
<1>5. CASE \E p \in Profiles : DeleteProfile(p) /\ Remove({i \in ids : rows[i].profile = p})
  <2>1. PICK p \in Profiles : DeleteProfile(p) /\ Remove({i \in ids : rows[i].profile = p})
    BY <1>5
  <2>2. \A s \in Sessions : Busy(s) => session[s].id \notin {i \in ids : rows[i].profile = p}
    BY <2>1 DEF DeleteProfile, OwnInv, OwnOf
  <2> QED
    BY <1>2, <2>1, <2>2
<1> QED
  BY <1>3, <1>4, <1>5, DeleteEffects

\* Only a session that begun is stopped or probed.
LEMMA ProbeBegun ==
    ASSUME TypeInv, SlotInv, OwnInv, NEW s \in Sessions,
           Stop(s) \/ StopReturn(s) \/ CheckUpdates(s) \/ Probed(s) \/ SaveVersion(s)
    PROVE  session[s].pc \in Begun
<1>1. s \in held => session[s].pc \in Begun
  BY DEF SlotInv, SlotOf, Begun, Over
<1>2. session[s].probe # "none" => session[s].pc \in Begun
  BY DEF OwnInv, OwnOf
<1>3. CASE StopReturn(s)
  BY <1>3 DEF StopReturn, Begun, Over
<1> QED
  BY <1>1, <1>2, <1>3, StopEffect, CheckUpdatesEffect, ProbedEffect, SaveVersionEffect

\* The row of a busy session, and a write to one of its columns.
LEMMA BusyRow ==
    ASSUME TypeInv, OwnInv, NEW s \in Sessions, Busy(s)
    PROVE  /\ session[s].id \in ids /\ rows[session[s].id].owner = s
           /\ rows[session[s].id] \in RowTypes
           /\ rows[session[s].id].version \in {s, Nobody}
           /\ Shots(session[s].id) = Counted(session[s].id, s, session[s].count)
           /\ session[s].pc \in Begun
<1>1. session[s].id \in ids /\ rows[session[s].id].owner = s
  BY DEF OwnInv, OwnOf
<1>2. RowOf(session[s].id)
  BY <1>1 DEF OwnInv
<1> QED
  BY <1>1, <1>2, RowOwner DEF RowOf

LEMMA ColumnOwn ==
    ASSUME TypeInv, OwnInv, NEW s \in Sessions, OthersSame(s), Busy(s), NEW row \in RowTypes,
           Written(session[s].id, row), row.owner = s,
           row.profile = rows[session[s].id].profile, row.version \in {s, Nobody},
           session'[s].id = session[s].id, session'[s].profile = session[s].profile,
           session'[s].count = session[s].count, snapshots' = snapshots,
           session'[s].pc \in Begun, session'[s].pc \in Open => row.status = "running"
    PROVE  OwnInv'
<1>1. PICK i \in ids : i = session[s].id
  BY BusyRow
<1>2. ids' = ids /\ rows'[i] = row /\ \A j \in ids \ {i} : rows'[j] = rows[j]
  BY <1>1, WrittenRow
<1>3. \A j \in ids : Shots(j)' = Shots(j)
  BY DEF Shots
<1>4. Shots(i) = Counted(i, s, session[s].count)
  BY <1>1, BusyRow
<1>5. Shots(session[s].id)' = Counted(session[s].id, s, session'[s].count)
  BY <1>1, <1>3, <1>4
<1> QED
  BY <1>1, <1>2, <1>3, <1>5, WriteOwn

LEMMA NextSnapshot ==
    ASSUME NEW i, NEW s, NEW count \in Nat, Shots(i) = Counted(i, s, count),
           snapshots' = snapshots \cup {[id |-> i, owner |-> s, n |-> count + 1]}
    PROVE  /\ Shots(i)' = Counted(i, s, count + 1)
           /\ \A j : j # i => Shots(j)' = Shots(j)
<1> DEFINE new == [id |-> i, owner |-> s, n |-> count + 1]
<1>1. Shots(i)' = Shots(i) \cup {new} /\ \A j : j # i => Shots(j)' = Shots(j)
  BY DEF Shots
<1>2. 1..(count + 1) = 1..count \cup {count + 1}
  OBVIOUS
<1>3. Counted(i, s, count + 1) = Counted(i, s, count) \cup {new}
  <2> DEFINE at(k) == [id |-> i, owner |-> s, n |-> k]
  <2>1. /\ Counted(i, s, count + 1) = {at(k) : k \in 1..(count + 1)}
        /\ Counted(i, s, count) = {at(k) : k \in 1..count} /\ new = at(count + 1)
    BY DEF Counted
  <2> HIDE DEF at, new
  <2> QED
    BY <1>2, <2>1
<1> QED
  BY <1>1, <1>3

LEMMA TaskOwn ==
    ASSUME TypeInv, OwnInv, NEW s \in Sessions, Task(s) \/ Tick(s)
    PROVE  OwnInv'
<1>1. OthersSame(s)
  BY MoveOthers DEF Moves
<1>2. session[s] \in SessionTypes
  BY DEF TypeInv
\* A step that writes nothing.
<1>3. ASSUME SameSession(s), session'[s].count = session[s].count,
             rows' = rows, snapshots' = snapshots, Polling(s), session'[s].pc \in Begun,
             session'[s].pc \in Open => session[s].pc \in Open
      PROVE  OwnInv'
  BY <1>1, <1>3, QuietOwn DEF SameSession, Busy
<1>4. CASE Cancel(s)
  BY <1>3, <1>4, CancelMove, CancelEffect DEF Polling, Begun, Open, Live, Over, TablesKept
<1>5. CASE Tick(s)
  <2>1. Polling(s) /\ {session[s].pc, session'[s].pc} \subseteq Open \cap Begun
    BY <1>5, TickMove DEF Polling, Begun, Open, Live
  <2>2. rows' = rows /\ snapshots' = snapshots
    BY <1>5, TickEffect, ZenonT(40) DEF TablesKept
  <2> QED
    BY <1>3, <1>5, <2>1, <2>2, TickMove
<1>6. CASE Fetched(s)
  <2>1. Polling(s) /\ {session[s].pc, session'[s].pc} \subseteq Open \cap Begun
    BY <1>6, FetchedMove DEF Polling, Begun, Open, Live
  <2>2. rows' = rows /\ snapshots' = snapshots
    BY <1>6, FetchedEffect, ZenonT(40) DEF TablesKept
  <2> QED
    BY <1>3, <1>6, <2>1, <2>2, FetchedMove
<1>7. CASE FetchFailed(s)
  BY <1>3, <1>7, FetchFailedMove, FetchFailedEffect
     DEF Polling, Begun, Open, Live, Over, TablesKept
<1>8. CASE ClearAtEnd(s)
  BY <1>3, <1>8, ClearAtEndMove, ClearAtEndEffect DEF Polling, Begun, Open, Live, Over, TablesKept
<1>9. CASE Identity(s) \/ Snapshot(s) \/ Complete(s)
  <2>1. SameSession(s)
    BY <1>9, DatabaseMove
  <2>2. PICK i \in ids : /\ i = session[s].id /\ rows[i].owner = s /\ rows[i] \in RowTypes
                         /\ rows[i].version \in {s, Nobody}
                         /\ Shots(i) = Counted(i, s, session[s].count)
    <3>1. Busy(s)
      BY <1>9, IdentityEffect, SnapshotEffect, CompleteEffect DEF Busy, Polling
    <3> QED
      BY <3>1, BusyRow
  <2>3. Busy(s) /\ Polling(s)
    BY <1>9, IdentityEffect, SnapshotEffect, CompleteEffect DEF Busy, Polling
  <2>4. CASE /\ session'[s].pc = "broken" /\ session'[s].count = session[s].count
             /\ rows' = rows /\ snapshots' = snapshots
    BY <1>3, <2>1, <2>3, <2>4 DEF Begun, Open, Live, Over
  <2>5. CASE /\ session[s].pc = "identity" /\ session'[s].pc = "snapshot"
             /\ session'[s].count = session[s].count /\ snapshots' = snapshots
             /\ Written(i, [rows[i] EXCEPT !.identity = TRUE])
    <3> DEFINE row == [rows[i] EXCEPT !.identity = TRUE]
    <3>1. /\ row \in RowTypes /\ row.owner = s /\ row.profile = rows[i].profile
          /\ row.version = rows[i].version /\ row.status = rows[i].status
      BY <2>2 DEF RowTypes
    <3>2. rows[i].status = "running"
      BY <2>2, <2>5 DEF OwnInv, OwnOf, Open, Live
    <3>3. session'[s].pc \in Begun
      BY <2>5 DEF Begun, Live
    <3> HIDE DEF row
    <3>4. Written(session[s].id, row)
      BY <2>2, <2>5 DEF row
    <3> QED
      BY <1>1, <2>1, <2>2, <2>3, <2>5, <3>1, <3>2, <3>3, <3>4, ColumnOwn DEF SameSession
  <2>6. CASE /\ session[s].pc = "snapshot" /\ session'[s].pc = "tick"
             /\ session'[s].count = session[s].count + 1 /\ rows' = rows
             /\ snapshots' = snapshots \cup {[id |-> i, owner |-> s, n |-> session[s].count + 1]}
    <3>1. session[s].count \in Nat
      BY <1>2 DEF SessionTypes
    <3>2. /\ Shots(i)' = Counted(i, s, session'[s].count)
          /\ \A j \in ids \ {i} : Shots(j)' = Shots(j)
      BY <2>2, <2>6, <3>1, NextSnapshot
    <3>3. ids' = ids
      BY <2>6 DEF ids
    <3>4. rows[i].status = "running"
      BY <2>2, <2>6 DEF OwnInv, OwnOf, Open, Live
    <3>5. session'[s].pc \in Begun
      BY <2>6 DEF Begun, Live
    <3>6. session'[s].id = i /\ session'[s].profile = session[s].profile
      BY <2>1, <2>2 DEF SameSession
    <3>7. Shots(session[s].id)' = Counted(session[s].id, s, session'[s].count)
      BY <2>2, <3>2, <3>6
    <3> QED
      BY <1>1, <2>2, <2>3, <2>6, <3>2, <3>3, <3>4, <3>5, <3>6, <3>7, WriteOwn
  <2>7. CASE /\ session[s].pc = "complete" /\ session'[s].pc = "clear"
             /\ session'[s].count = session[s].count /\ snapshots' = snapshots
             /\ Written(i, [rows[i] EXCEPT !.status = session[s].status])
    <3> DEFINE row == [rows[i] EXCEPT !.status = session[s].status]
    <3>1. /\ row \in RowTypes /\ row.owner = s /\ row.profile = rows[i].profile
          /\ row.version = rows[i].version
      BY <1>2, <2>2 DEF RowTypes, SessionTypes
    <3>2. session'[s].pc \in Begun /\ session'[s].pc \notin Open
      BY <2>7 DEF Begun, Over, Open, Live
    <3> HIDE DEF row
    <3>3. Written(session[s].id, row)
      BY <2>2, <2>7 DEF row
    <3> QED
      BY <1>1, <2>1, <2>2, <2>3, <2>7, <3>1, <3>2, <3>3, ColumnOwn DEF SameSession
  <2> QED
    BY <1>9, <2>2, <2>4, <2>5, <2>6, <2>7, DatabaseMove
<1> QED
  BY <1>4, <1>5, <1>6, <1>7, <1>8, <1>9 DEF Task

LEMMA ProbeOwn ==
    ASSUME TypeInv, SlotInv, OwnInv, NEW s \in Sessions,
           Stop(s) \/ StopReturn(s) \/ CheckUpdates(s) \/ Probed(s) \/ SaveVersion(s)
    PROVE  OwnInv'
<1>1. OthersSame(s)
  BY MoveOthers DEF Moves
<1>2. /\ session'[s].count = session[s].count /\ session'[s].pc = session[s].pc
      /\ session'[s].id = session[s].id /\ session'[s].profile = session[s].profile
      /\ snapshots' = snapshots /\ (Busy(s)' => Busy(s))
      /\ session[s].pc \in Begun
  BY ProbeMove, ProbeBegun
<1>3. CASE rows' = rows
  BY <1>1, <1>2, <1>3, QuietOwn
<1>4. CASE /\ session[s].probe = "save"
           /\ Written(session[s].id, [rows[session[s].id] EXCEPT !.version = s])
  <2>1. Busy(s)
    BY <1>4 DEF Busy
  <2>2. PICK i \in ids : i = session[s].id /\ rows[i].owner = s /\ rows[i] \in RowTypes
    BY <2>1, BusyRow
  <2> DEFINE row == [rows[i] EXCEPT !.version = s]
  <2>3. /\ row \in RowTypes /\ row.owner = s /\ row.profile = rows[i].profile
        /\ row.version = s /\ row.status = rows[i].status
    BY <2>2 DEF RowTypes
  <2>4. session'[s].pc \in Open => rows[i].status = "running"
    BY <1>2, <2>2 DEF OwnInv, OwnOf
  <2> HIDE DEF row
  <2>5. Written(session[s].id, row)
    BY <1>4, <2>2 DEF row
  <2> QED
    BY <1>1, <1>2, <2>1, <2>2, <2>3, <2>4, <2>5, ColumnOwn
<1> QED
  BY <1>3, <1>4, ProbeMove

LEMMA MoveOwn ==
    ASSUME TypeInv, SlotInv, OwnInv, NEW s \in Sessions, Moves(s)
    PROVE  OwnInv'
<1>1. ASSUME (\E p \in Profiles : StartCheck(s, p)) \/ Connect(s) \/ Claim(s),
             ~(Claim(s) /\ Register(s, session[s].profile))
      PROVE  OwnInv'
  <2>1. /\ session'[s].count = session[s].count /\ session[s].pc \in Starting
        /\ session'[s].pc \in {"refused", "failed", "connect", "claim"}
        /\ session'[s].probe = session[s].probe /\ active' = active
        /\ rows' = rows /\ snapshots' = snapshots
    BY <1>1, StartMove DEF TablesKept
  <2>2. OthersSame(s)
    BY MoveOthers
  <2>3. session[s].pc \notin Begun /\ session'[s].pc \notin Begun \cup Open
    BY <2>1 DEF Begun, Live, Over, Open, Starting
  <2>4. session[s].count = 0 /\ session[s].probe = "none"
    BY <2>3 DEF OwnInv, OwnOf
  <2>5. ~Busy(s)'
    <3>1. s \notin held'
      BY <2>1, <2>3, SameSlots DEF SlotInv, SlotOf, Begun, Over
    <3> QED
      BY <2>1, <2>4, <3>1 DEF Busy, Polling
  <2> QED
    BY <2>1, <2>2, <2>3, <2>4, <2>5, QuietOwn
<1>2. CASE Task(s) \/ Tick(s)
  BY <1>2, TaskOwn
<1>3. CASE Stop(s) \/ StopReturn(s) \/ CheckUpdates(s) \/ Probed(s) \/ SaveVersion(s)
  BY <1>3, ProbeOwn
<1>4. CASE (\E p \in Profiles : StartCheck(s, p)) \/ Connect(s) \/ Claim(s)
  BY <1>1, <1>4, ClaimOwn
<1> QED
  BY <1>2, <1>3, <1>4 DEF Moves

LEMMA OwnInvariance ==
    ASSUME SettingAssumption, DeleteBusy = FALSE
    PROVE  Init /\ [][Next]_vars => [](TypeInv /\ SlotInv /\ OwnInv)
<1>1. ASSUME Init
      PROVE  OwnInv
  <2>1. ids = {} /\ held = {}
    BY <1>1, SettingAssumption DEF Init, ids, held, watched
  <2> QED
    BY <1>1, <2>1 DEF Init, Idle, OwnInv, OwnOf, Busy, Polling, Begun, Open, Live, Over
<1>2. ASSUME TypeInv, SlotInv, OwnInv, [Next]_vars
      PROVE  OwnInv'
  <2>1. CASE UNCHANGED vars
    <3>1. ids' = ids /\ held' = held /\ rows' = rows /\ session' = session
          /\ snapshots' = snapshots
      BY <2>1, SameSlots DEF vars, ids
    <3> QED
      BY <1>2, <3>1 DEF OwnInv, OwnOf, RowOf, Shots, Busy, Polling
  <2> QED
    BY <1>2, <2>1, MoveOwn, DeleteOwn, Steps
<1> QED
  BY <1>1, <1>2, SlotInvariance, PTL

\* The history shows each session its own snapshots, as many as it counted,
\* whichever database call fails and whichever session that is over is deleted.
THEOREM SnapshotsExactHolds ==
    ASSUME SettingAssumption, DeleteBusy = FALSE
    PROVE  Init /\ [][Next]_vars => []SnapshotsExact
<1>1. OwnInv => SnapshotsExact
  BY DEF OwnInv, RowOf, Shots, Counted, SnapshotsExact
<1> QED
  BY <1>1, OwnInvariance, PTL

\* A probe writes its result to no row but its own session's.
THEOREM OwnVersionOnly ==
    ASSUME SettingAssumption, DeleteBusy = FALSE
    PROVE  Init /\ [][Next]_vars => []StaleProbeWritesNothing
<1>1. OwnInv => StaleProbeWritesNothing
  BY DEF OwnInv, RowOf, StaleProbeWritesNothing
<1> QED
  BY <1>1, OwnInvariance, PTL

\* Whatever the order in which a task and its probe write, neither undoes what
\* the other wrote, and a row that is closed stays closed.
THEOREM ColumnsKeptHolds ==
    ASSUME SettingAssumption, DeleteBusy = FALSE
    PROVE  Init /\ [][Next]_vars => ColumnsKept
<1> DEFINE Kept(i) == rows[i].owner = rows'[i].owner =>
                        /\ rows[i].version # Nobody => rows'[i].version = rows[i].version
                        /\ rows[i].identity => rows'[i].identity
                        /\ rows[i].status # "running" => rows'[i].status = rows[i].status
<1>1. ASSUME TypeInv, SlotInv, OwnInv, [Next]_vars
      PROVE  \A i \in ids \cap ids' : Kept(i)
  <2>1. ASSUME \A i \in ids \cap ids' : rows'[i] = rows[i]
        PROVE  \A i \in ids \cap ids' : Kept(i)
    BY <2>1
  <2>2. ASSUME NEW s \in Sessions, NEW row, Busy(s), Written(session[s].id, row),
               row \in RowTypes,
               LET old == rows[session[s].id] IN
                 /\ old.version # Nobody => row.version = old.version
                 /\ old.identity => row.identity
                 /\ old.status # "running" => row.status = old.status
        PROVE  \A i \in ids \cap ids' : Kept(i)
    BY <1>1, <2>2, WrittenRow
  <2>3. CASE RowDeletes
    <3>1. CASE TablesKept
      BY <2>1, <3>1 DEF TablesKept
    <3>2. ASSUME NEW gone, Remove(gone)
          PROVE  \A i \in ids \cap ids' : rows'[i] = rows[i]
      BY <1>1, <3>2, Removed
    <3> QED
      BY <2>1, <2>3, <3>1, <3>2, DeleteEffects
  <2>4. CASE UNCHANGED vars
    BY <2>1, <2>4 DEF vars
  <2>5. ASSUME NEW s \in Sessions, Moves(s)
        PROVE  \A i \in ids \cap ids' : Kept(i)
    <3>1. CASE rows' = rows
      BY <2>1, <3>1
    <3>2. CASE Identity(s) \/ Snapshot(s) \/ Complete(s)
      <4>1. PICK i \in ids : i = session[s].id /\ rows[i] \in RowTypes /\ Busy(s)
        <5>1. Busy(s)
          BY <1>1, <3>2, IdentityEffect, SnapshotEffect, CompleteEffect DEF Busy, Polling
        <5> QED
          BY <1>1, <5>1, BusyRow
      <4>2. CASE Written(i, [rows[i] EXCEPT !.identity = TRUE])
        <5> DEFINE row == [rows[i] EXCEPT !.identity = TRUE]
        <5>1. /\ row \in RowTypes /\ row.version = rows[i].version /\ row.identity = TRUE
              /\ row.status = rows[i].status
          BY <4>1 DEF RowTypes
        <5> HIDE DEF row
        <5>2. Written(session[s].id, row)
          BY <4>1, <4>2 DEF row
        <5> QED
          BY <2>2, <4>1, <5>1, <5>2
      <4>3. CASE /\ session[s].pc = "complete"
                 /\ Written(i, [rows[i] EXCEPT !.status = session[s].status])
        <5> DEFINE row == [rows[i] EXCEPT !.status = session[s].status]
        <5>1. session[s].status \in Verdicts
          BY <1>1 DEF TypeInv, SessionTypes
        <5>2. /\ row \in RowTypes /\ row.version = rows[i].version
              /\ row.identity = rows[i].identity
          BY <4>1, <5>1 DEF RowTypes
        <5>3. rows[i].status = "running"
          BY <1>1, <4>1, <4>3 DEF OwnInv, OwnOf, Open
        <5> HIDE DEF row
        <5>4. Written(session[s].id, row)
          BY <4>1, <4>3 DEF row
        <5> QED
          BY <2>2, <4>1, <5>2, <5>3, <5>4
      <4> QED
        BY <1>1, <3>1, <3>2, <4>1, <4>2, <4>3, DatabaseMove
    <3>3. CASE Stop(s) \/ StopReturn(s) \/ CheckUpdates(s) \/ Probed(s) \/ SaveVersion(s)
      <4>1. CASE /\ session[s].probe = "save"
                 /\ Written(session[s].id, [rows[session[s].id] EXCEPT !.version = s])
        <5>1. PICK i \in ids : /\ i = session[s].id /\ rows[i] \in RowTypes /\ Busy(s)
                               /\ rows[i].version \in {s, Nobody}
          <6>1. Busy(s)
            BY <4>1 DEF Busy
          <6> QED
            BY <1>1, <6>1, BusyRow
        <5> DEFINE row == [rows[i] EXCEPT !.version = s]
        <5>2. /\ row \in RowTypes /\ row.version = s /\ row.identity = rows[i].identity
              /\ row.status = rows[i].status
          BY <5>1 DEF RowTypes
        <5> HIDE DEF row
        <5>3. Written(session[s].id, row)
          BY <4>1, <5>1 DEF row
        <5> QED
          BY <2>2, <5>1, <5>2, <5>3
      <4> QED
        BY <1>1, <3>1, <3>3, <4>1, ProbeMove
    <3>4. CASE (\E p \in Profiles : StartCheck(s, p)) \/ Connect(s) \/ Claim(s)
      <4>1. CASE Claim(s) /\ Register(s, session[s].profile)
        <5>1. session[s].profile \in Profiles
          <6>1. TypeInv
            BY <1>1, Zenon
          <6> QED
            BY <4>1, <6>1, ClaimMove
        <5> QED
          BY <1>1, <2>1, <4>1, <5>1, Registered
      <4> QED
        BY <1>1, <3>1, <3>4, <4>1, StartMove DEF TablesKept
    <3>5. CASE Cancel(s) \/ Tick(s) \/ Fetched(s) \/ FetchFailed(s) \/ ClearAtEnd(s)
      BY <1>1, <3>1, <3>5, CancelEffect, TickEffect, FetchedEffect, FetchFailedEffect,
         ClearAtEndEffect DEF TablesKept
    <3> QED
      BY <2>5, <3>2, <3>3, <3>4, <3>5 DEF Moves, Task
  <2> QED
    BY <1>1, <2>3, <2>4, <2>5, Steps
<1>2. TypeInv /\ SlotInv /\ OwnInv /\ [Next]_vars =>
        [\A i \in ids \cap DOMAIN rows' : Kept(i)]_vars
  BY <1>1 DEF ids
<1> QED
  BY <1>2, OwnInvariance, PTL DEF ColumnsKept

\* A session that ended before its probe did gets no version: is_active_session
\* goes by session id, and no one else's task has that id.
THEOREM NoLateVersionHolds ==
    ASSUME SettingAssumption, DeleteBusy = FALSE
    PROVE  Init /\ [][Next]_vars => NoLateVersion
<1> DEFINE OnTime(s) == session[s].probe = "polling" /\ session'[s].probe = "save" => s \in held
<1>1. ASSUME TypeInv, SlotInv, OwnInv, [Next]_vars, NEW s \in Sessions
      PROVE  OnTime(s)
  <2>1. CASE session'[s].probe = session[s].probe
    BY <2>1
  <2>2. CASE RowDeletes \/ UNCHANGED vars
    BY <2>1, <2>2, DeleteEffects DEF vars
  <2>3. ASSUME NEW t \in Sessions \ {s}, Moves(t)
        PROVE  OnTime(s)
    BY <1>1, <2>1, <2>3, OthersKept
  <2>4. CASE Probed(s) /\ IsActive(session[s].id)
    <3>1. PICK t \in held : session[t].id = session[s].id
      BY <2>4 DEF IsActive
    <3>2. t \in Sessions /\ Busy(t) /\ Busy(s)
      BY <1>1, <2>4, ProbedEffect DEF Busy, held, watched, TypeInv
    <3>3. s = t
      BY <1>1, <3>1, <3>2, BusyRow
    <3> QED
      BY <3>1, <3>3
  <2>5. ASSUME NEW probe \in {"polling", "done"},
               Becomes(s, [session[s] EXCEPT !.probe = probe])
        PROVE  OnTime(s)
    BY <1>1, <2>5 DEF Becomes, TypeInv, SessionTypes
  <2>6. CASE CheckUpdates(s) \/ Probed(s) \/ SaveVersion(s)
    BY <1>1, <2>4, <2>5, <2>6, CheckUpdatesEffect, ProbedEffect, SaveVersionEffect
  <2>7. CASE Stop(s) \/ StopReturn(s)
    <3>1. session[s] \in SessionTypes
      BY <1>1 DEF TypeInv
    <3>2. \/ session'[s] = [session[s] EXCEPT !.stop = TRUE, !.stopper = "joining"]
          \/ session'[s] = [session[s] EXCEPT !.stopper = "returned"]
      BY <1>1, <2>7, StopEffect, StopReturnEffect, ZenonT(40) DEF Becomes, TypeInv
    <3> QED
      BY <2>1, <3>1, <3>2 DEF SessionTypes
  <2>8. CASE (\E p \in Profiles : StartCheck(s, p)) \/ Connect(s) \/ Claim(s)
    <3>1. CASE Claim(s) /\ Register(s, session[s].profile)
      <4>1. session[s].pc \notin Begun
        BY <1>1, <3>1, ClaimMove DEF Begun, Live, Over
      <4> QED
        BY <1>1, <4>1 DEF OwnInv, OwnOf
    <3> QED
      BY <1>1, <2>1, <2>8, <3>1, StartMove
  <2>9. CASE Task(s) \/ Tick(s)
    <3>1. SameSession(s)
      BY <1>1, <2>9, CancelMove, TickMove, FetchedMove, FetchFailedMove, ClearAtEndMove,
         DatabaseMove, ZenonT(40) DEF Task
    <3> QED
      BY <2>1, <3>1 DEF SameSession
  <2> QED
    BY <1>1, <2>2, <2>3, <2>6, <2>7, <2>8, <2>9, Steps DEF Moves
<1>2. TypeInv /\ SlotInv /\ OwnInv /\ [Next]_vars => [\A s \in Sessions : OnTime(s)]_vars
  BY <1>1
<1> QED
  BY <1>2, OwnInvariance, PTL DEF NoLateVersion

-----------------------------------------------------------------------------
(* Log streams: MikrotikLogs.                                              *)

Watching == {"backlog", "tick", "clear"}
LogFields == {"pc", "stop", "asked", "stopper", "failures", "last", "shown", "told"}

LogTypes ==
    /\ DOMAIN stream = Streams
    /\ \A s \in Streams : DOMAIN stream[s] = LogFields

\* The slot of a stream is its own until it is asked to stop; while a stop()
\* waits for its task, no other is there or coming.
LogOf(s) ==
    /\ stream[s].pc \in Watching /\ ~stream[s].asked => slot = s
    /\ slot = s => stream[s].pc \in Watching /\ ~stream[s].stop
    /\ stream[s].stop => stream[s].asked
    /\ stream[s].asked /\ stream[s].pc # "ended" => stream[s].stopper = "joining"
    /\ stream[s].stopper = "joining" =>
         slot = Nobody /\ \A t \in Streams : stream[t].pc \notin {"connect", "claim"}
    /\ stream[s].told = "stopped" => stream[s].asked

LogInv == LogTypes /\ \A s \in Streams : LogOf(s)

\* What a step does to the fields these speak of.
Record(s, pc, stop, asked, stopper, told) ==
    /\ stream'[s].pc = pc /\ stream'[s].stop = stop /\ stream'[s].asked = asked
    /\ stream'[s].stopper = stopper /\ stream'[s].told = told
OthersAre(s) == \A t \in Streams \ {s} : stream'[t] = stream[t]
At(s, pc) == Record(s, pc, stream[s].stop, stream[s].asked, stream[s].stopper, stream[s].told)

LEMMA LogStartEffect ==
    ASSUME LogTypes, NEW s \in Streams
    PROVE  /\ Logs!StartCheck(s) =>
                /\ LogTypes' /\ OthersAre(s) /\ slot' = slot
                /\ stream[s].pc = "idle"
                /\ Hasty \/ \A t \in Streams : stream[t].stopper # "joining"
                /\ \E pc \in {"connect", "refused"} : At(s, pc)
           /\ Logs!Connect(s) =>
                /\ LogTypes' /\ OthersAre(s) /\ slot' = slot
                /\ stream[s].pc = "connect"
                /\ \E pc \in {"claim", "failed"} : At(s, pc)
           /\ Logs!Claim(s) =>
                /\ LogTypes' /\ OthersAre(s) /\ stream[s].pc = "claim"
                /\ \/ slot' = slot /\ At(s, "refused")
                   \/ /\ slot = Nobody /\ slot' = s
                      /\ Record(s, "backlog", stream[s].stop, stream[s].asked,
                                stream[s].stopper, "started")
<1> USE DEF Logs!StartCheck, Logs!Connect, Logs!Claim, Logs!Go
<1>1. CASE Logs!StartCheck(s)
  BY <1>1 DEF LogTypes, LogFields, OthersAre, Record, At
<1>2. CASE Logs!Connect(s)
  BY <1>2 DEF LogTypes, LogFields, OthersAre, Record, At
<1>3. CASE Logs!Claim(s)
  BY <1>3 DEF LogTypes, LogFields, OthersAre, Record, At
<1> QED
  BY <1>1, <1>2, <1>3

LEMMA LogStopEffect ==
    ASSUME LogTypes, NEW s \in Streams
    PROVE  /\ Logs!Stop(s) =>
                /\ LogTypes' /\ OthersAre(s) /\ slot = s /\ slot' = Nobody
                /\ Hasty \/ \A t \in Streams : stream[t].pc \notin {"connect", "claim"}
                /\ Record(s, stream[s].pc, TRUE, TRUE, "joining", stream[s].told)
           /\ Logs!StopReturn(s) =>
                /\ LogTypes' /\ OthersAre(s) /\ slot' = slot
                /\ stream[s].pc = "ended"
                /\ Record(s, stream[s].pc, stream[s].stop, stream[s].asked,
                          "returned", stream[s].told)
<1> USE DEF Logs!Stop, Logs!StopReturn
<1>1. CASE Logs!Stop(s)
  BY <1>1 DEF LogTypes, LogFields, OthersAre, Record
<1>2. CASE Logs!StopReturn(s)
  BY <1>2 DEF LogTypes, LogFields, OthersAre, Record
<1> QED
  BY <1>1, <1>2

\* The task, but for its last step.
LEMMA LogTaskEffect ==
    ASSUME LogTypes, NEW s \in Streams,
           Logs!Open(s) \/ Logs!Stopped(s) \/ Logs!Poll(s) \/ Logs!PollFails(s)
    PROVE  /\ LogTypes' /\ OthersAre(s) /\ slot' = slot
           /\ stream[s].pc \in {"backlog", "tick"}
           /\ \E pc \in {"tick", "clear"},
                  told \in {stream[s].told, "stopped", "warning", "error"} :
                /\ told = "stopped" => stream[s].stop \/ told = stream[s].told
                /\ Record(s, pc, stream[s].stop, stream[s].asked, stream[s].stopper, told)
<1>1. CASE Logs!Open(s)
  BY <1>1 DEF LogTypes, Logs!Open, LogFields, OthersAre, Record
<1>2. CASE Logs!Stopped(s)
  BY <1>2 DEF LogTypes, Logs!Stopped, LogFields, OthersAre, Record
<1>3. CASE Logs!Poll(s)
  BY <1>3 DEF LogTypes, Logs!Poll, LogFields, OthersAre, Record
<1>4. CASE Logs!PollFails(s)
  BY <1>4 DEF LogTypes, Logs!PollFails, LogFields, OthersAre, Record
<1> QED
  BY <1>1, <1>2, <1>3, <1>4

LEMMA LogClearEffect ==
    ASSUME LogTypes, NEW s \in Streams, Logs!Clear(s), slot \in {s, Nobody}, Nobody \notin Streams
    PROVE  /\ LogTypes' /\ OthersAre(s) /\ slot' = Nobody /\ stream[s].pc = "clear"
           /\ At(s, "ended")
BY DEF LogTypes, Logs!Clear, LogFields, OthersAre, Record, At

\* A step of one stream keeps the invariant of all, if it keeps its own and
\* gives nobody else's slot away.
LEMMA LogStepInv ==
    ASSUME LogInv, NEW s \in Streams, LogTypes', OthersAre(s), LogOf(s)',
           \A t \in Streams \ {s} : slot = t <=> slot' = t,
           \A t \in Streams \ {s} : stream[t].stopper = "joining" =>
               slot' = Nobody /\ stream'[s].pc \notin {"connect", "claim"}
    PROVE  LogInv'
<1>1. ASSUME NEW t \in Streams \ {s}
      PROVE  LogOf(t)'
  BY <1>1 DEF LogInv, LogOf, OthersAre
<1> QED
  BY <1>1 DEF LogInv

LEMMA LogMoveInv ==
    ASSUME LogInv, Hasty = FALSE, Nobody \notin Streams, NEW s \in Streams,
           \/ Logs!StartCheck(s) \/ Logs!Connect(s) \/ Logs!Claim(s)
           \/ Logs!Stop(s) \/ Logs!StopReturn(s)
           \/ Logs!Task(s) \/ Logs!Poll(s) \/ Logs!PollFails(s)
    PROVE  LogInv'
<1> USE DEF Watching
<1>1. LogTypes /\ LogOf(s)
  BY DEF LogInv
<1>2. CASE Logs!StartCheck(s)
  <2>1. LogOf(s)'
    BY <1>1, <1>2, LogStartEffect DEF LogOf, Record, At
  <2> QED
    BY <1>1, <1>2, <2>1, LogStartEffect, LogStepInv
<1>3. CASE Logs!Connect(s)
  <2>1. \A t \in Streams : stream[t].stopper # "joining"
    BY <1>1, <1>3, LogStartEffect DEF LogInv, LogOf
  <2>2. LogOf(s)'
    BY <1>1, <1>3, <2>1, LogStartEffect DEF LogOf, Record, At
  <2> QED
    BY <1>1, <1>3, <2>1, <2>2, LogStartEffect, LogStepInv
<1>4. CASE Logs!Claim(s)
  <2>1. \A t \in Streams : stream[t].stopper # "joining"
    BY <1>1, <1>4, LogStartEffect DEF LogInv, LogOf
  <2>2. LogOf(s)'
    BY <1>1, <1>4, <2>1, LogStartEffect DEF LogOf, Record, At
  <2> QED
    BY <1>1, <1>4, <2>1, <2>2, LogStartEffect, LogStepInv
<1>5. CASE Logs!Stop(s)
  <2>1. /\ LogTypes' /\ OthersAre(s) /\ slot = s /\ slot' = Nobody
        /\ \A t \in Streams : stream[t].pc \notin {"connect", "claim"}
        /\ Record(s, stream[s].pc, TRUE, TRUE, "joining", stream[s].told)
    BY <1>1, <1>5, LogStopEffect
  <2>2. \A t \in Streams : stream'[t].pc \notin {"connect", "claim"}
    BY <2>1 DEF OthersAre, Record
  <2>3. LogOf(s)'
    BY <1>1, <2>1, <2>2 DEF LogOf, Record
  <2> QED
    BY <2>1, <2>2, <2>3, LogStepInv
<1>6. CASE Logs!StopReturn(s)
  <2>1. /\ slot' = slot /\ stream[s].pc = "ended" /\ stream'[s].pc = "ended"
        /\ stream'[s].stop = stream[s].stop /\ stream'[s].asked = stream[s].asked
        /\ stream'[s].stopper = "returned" /\ stream'[s].told = stream[s].told
    BY <1>1, <1>6, LogStopEffect DEF Record
  <2>2. LogOf(s)'
    BY <1>1, <2>1 DEF LogOf
  <2> QED
    BY <1>1, <1>6, <2>1, <2>2, LogStopEffect, LogStepInv DEF LogInv, LogOf
<1>7. CASE Logs!Open(s) \/ Logs!Stopped(s) \/ Logs!Poll(s) \/ Logs!PollFails(s)
  <2>1. /\ LogTypes' /\ OthersAre(s) /\ slot' = slot /\ stream[s].pc \in {"backlog", "tick"}
        /\ \E pc \in {"tick", "clear"}, told \in {stream[s].told, "stopped", "warning", "error"} :
             /\ told = "stopped" => stream[s].stop \/ told = stream[s].told
             /\ Record(s, pc, stream[s].stop, stream[s].asked, stream[s].stopper, told)
    BY <1>1, <1>7, LogTaskEffect
  <2>2. LogOf(s)'
    <3>1. stream[s].stopper = "joining" =>
            \A t \in Streams : stream'[t].pc \notin {"connect", "claim"}
      BY <1>1, <2>1 DEF LogOf, OthersAre, Record
    <3> QED
      BY <1>1, <2>1, <3>1 DEF LogOf, Record
  <2>3. stream'[s].pc \notin {"connect", "claim"}
    BY <2>1 DEF Record
  <2> QED
    BY <2>1, <2>2, <2>3, LogStepInv DEF LogInv, LogOf
<1>8. CASE Logs!Clear(s)
  <2>1. slot \in {s, Nobody}
    BY <1>1, <1>8 DEF Logs!Clear, LogOf
  <2>2. /\ LogTypes' /\ OthersAre(s) /\ slot' = Nobody
        /\ stream[s].pc = "clear" /\ At(s, "ended")
    BY <1>1, <1>8, <2>1, LogClearEffect
  <2>3. LogOf(s)'
    <3>1. stream[s].stopper = "joining" =>
            \A t \in Streams : stream'[t].pc \notin {"connect", "claim"}
      BY <1>1, <2>2 DEF LogOf, OthersAre, Record, At
    <3> QED
      BY <1>1, <2>2, <3>1 DEF LogOf, Record, At
  <2>4. stream'[s].pc = "ended"
    BY <2>2 DEF Record, At
  <2> QED
    BY <2>1, <2>2, <2>3, <2>4, LogStepInv
<1> QED
  BY <1>2, <1>3, <1>4, <1>5, <1>6, <1>7, <1>8 DEF Logs!Task

\* A stream that nobody asked to stop has the slot of its router and is never
\* "stopped" by the end of another, if the view waits for a stop() before the
\* next start(): clear_active goes by profile.
THEOREM OnlyOwnStopHolds ==
    ASSUME Nobody \notin Streams, Hasty = FALSE
    PROVE  Logs!Init /\ [][Logs!Next]_(Logs!vars) => []Logs!OnlyOwnStop
<1>1. Logs!Init => LogInv
  BY DEF Logs!Init, Logs!Idle, LogInv, LogTypes, LogFields, LogOf, Watching
<1>2. LogInv /\ [Logs!Next]_(Logs!vars) => LogInv'
  <2>1. CASE Logs!Write \/ UNCHANGED Logs!vars
    BY <2>1 DEF Logs!Write, Logs!vars, LogInv, LogTypes, LogOf
  <2> QED
    BY <2>1, LogMoveInv DEF Logs!Next
<1>3. LogInv => Logs!OnlyOwnStop
  BY DEF LogInv, LogOf, Watching, Logs!OnlyOwnStop
<1> QED
  BY <1>1, <1>2, <1>3, PTL

-----------------------------------------------------------------------------
(* Backups, of both router kinds.                                          *)

\* The records' fields, and what the paths of a record may be.
BackupFields == {"pc", "name", "rsc", "overwrite", "late", "tried", "warned", "good"}
PathsOf(S) == \E n \in Names : S = {Files!Main(n)} \/ S = {Files!Main(n), Files!Rsc(n)}

Shapes ==
    /\ DOMAIN backup = Backups /\ \A b \in Backups : DOMAIN backup[b] = BackupFields
    /\ DOMAIN export = Exports /\ \A e \in Exports : DOMAIN export[e] = {"pc", "name"}
    /\ DOMAIN delete = Deletes /\ \A d \in Deletes : DOMAIN delete[d] = {"pc", "id", "paths"}
    /\ Files!ids \subseteq Nat /\ \E m \in Nat : \A i \in Files!ids : i <= m
    /\ \A i \in Files!ids : library[i].owner \in Backups /\ PathsOf(library[i].paths)
    /\ \A d \in Deletes : delete[d].pc = "idle" \/ PathsOf(delete[d].paths)

\* A call has a name once it began, and is good only after its transfers.
BackupOf(b) ==
    /\ IF backup[b].pc \in {"idle", "refused"}
       THEN backup[b].name = Badly /\ backup[b].late = {}
       ELSE backup[b].name \in Names /\ backup[b].name # Badly
    /\ backup[b].late \subseteq Files!Made(b)
    /\ backup[b].tried => backup[b].pc \in {"record", "failed", "unrecorded", "done"}
    /\ backup[b].good => backup[b].pc \in {"clean", "record", "unrecorded", "done"}
    /\ backup[b].pc \in {"export", "wait rsc", "fetch rsc"} => backup[b].rsc

\* A file on the router is its call's; if cleanup was tried, it failed.
RemoteOf(file) ==
    /\ remote[file] \in Backups /\ file \in Files!Made(remote[file])
    /\ backup[remote[file]].pc \notin {"idle", "refused"}
    /\ Late \/ (backup[remote[file]].tried => backup[remote[file]].warned)

\* A file that is not whole has one export, which is writing it.
Encrypts(e, file) == export[e].pc = "encrypt" /\ Files!Age(export[e].name) = file
CipherInv ==
    /\ \A e \in Exports : export[e].pc = "encrypt" =>
         Files!Age(export[e].name) \in Files!files /\ disk[Files!Age(export[e].name)] = Badly
    /\ \A e, f \in Exports : \A file \in Files!files : Encrypts(e, file) /\ Encrypts(f, file) =>
           e = f
    /\ \A file \in Files!files : file[2] = "xml.age" /\ disk[file] = Badly =>
         \E e \in Exports : Encrypts(e, file)

\* What holds however calls meet.
TidyInv ==
    /\ Shapes /\ CipherInv
    /\ \A b \in Backups : BackupOf(b)
    /\ \A file \in DOMAIN remote : RemoteOf(file)
    /\ \A file \in Files!files : disk[file] \in Backups \cup Exports \cup {Badly}

\* A call asks the router until it fetches, and runs until it is recorded.
Asks == {"save", "wait", "export", "wait rsc", "fetch"}
Runs(b) == backup[b].pc \in Asks \cup {"fetch rsc", "clean", "record"}
Name(b) == backup[b].name
Kept(n) == \E d \in Deletes : delete[d].pc = "kept" /\ Files!Main(n) \in delete[d].paths
Holds(b, file) == file \in Files!files /\ disk[file] = b

\* A name has one running call, and no delete between its files and its row.
AloneInv ==
    /\ \A b, c \in Backups : Runs(b) /\ Runs(c) /\ Name(b) = Name(c) => b = c
    /\ \A b \in Backups, d \in Deletes :
         Runs(b) /\ delete[d].pc = "row" => Files!Main(Name(b)) \notin delete[d].paths

\* A delete has a record to itself, whose files are gone before its row.
DeleteInv ==
    /\ \A d \in Deletes : delete[d].pc \in {"files", "row"} =>
         delete[d].id \in Files!ids /\ library[delete[d].id].paths = delete[d].paths
    /\ \A d, c \in Deletes :
         delete[d].pc \in {"files", "row"} /\ delete[c].pc \in {"files", "row"}
         /\ delete[d].id = delete[c].id => d = c
    /\ \A d \in Deletes : delete[d].pc = "row" => delete[d].paths \cap Files!files = {}

\* What a running call finds and has: nothing of its name at first, unless it
\* may overwrite; then its own files on the router, then on the disk.
FilesOf(b) ==
    /\ backup[b].pc \in Asks /\ ~backup[b].overwrite => Files!Made(b) \cap Files!files = {}
    /\ backup[b].pc = "fetch rsc" =>
         /\ Holds(b, Files!Main(Name(b)))
         /\ ~backup[b].overwrite => Files!Rsc(Name(b)) \notin Files!files
    /\ backup[b].pc \in {"clean", "record"} /\ backup[b].good =>
         \A file \in Files!Made(b) : Holds(b, file)
    /\ backup[b].pc \in {"wait", "export", "wait rsc", "fetch"}
           /\ Files!Main(Name(b)) \in DOMAIN remote =>
         remote[Files!Main(Name(b))] = b
    /\ backup[b].rsc /\ backup[b].pc \in {"wait rsc", "fetch", "fetch rsc"}
         /\ Files!Rsc(Name(b)) \in DOMAIN remote => remote[Files!Rsc(Name(b))] = b

\* Record i of the run o with the name n: its files are there, unless its name is
\* doomed or shared; only then has another record or a running call that name.
RecordOf(i, o, n) ==
    /\ library[i].owner = o /\ library[i].paths = Files!Made(o)
    /\ backup[o].pc = "done" /\ Name(o) = n
    /\ Files!Doomed(n) \/ Files!Shared(o) \/ \A file \in Files!Made(o) : Holds(o, file)
    /\ \A j \in Files!ids \ {i}, p \in Backups : library[j].owner = p =>
         p # o /\ (Name(p) = n => Kept(n) \/ Files!Shared(o))
    /\ \A p \in Backups : Runs(p) /\ Name(p) = n => Kept(n) \/ Files!Shared(o)

\* What holds when no two calls meet on the same files.
BookInv ==
    /\ AloneInv /\ DeleteInv
    /\ \A b \in Backups : FilesOf(b)
    /\ \A i \in Files!ids : \E o \in Backups, n \in Names : RecordOf(i, o, n)

\* The id of a new record is new.
LEMMA NextIdNew ==
    ASSUME Shapes
    PROVE  Files!NextId \in Nat /\ Files!NextId \notin Files!ids
               /\ \A i \in Files!ids : i <= Files!NextId
<1> DEFINE max == CHOOSE m \in Files!ids \cup {0} : \A i \in Files!ids : i <= m
<1>1. \E m \in Files!ids \cup {0} : \A i \in Files!ids : i <= m
  <2>1. PICK b \in Nat : \A i \in Files!ids : i <= b
    BY DEF Shapes
  <2> QED
    BY <2>1, MaxRowExists DEF Shapes
<1>2. max \in Files!ids \cup {0} /\ \A i \in Files!ids : i <= max
  BY <1>1
<1>3. Files!NextId = 1 + max
  BY DEF Files!NextId
<1>4. Files!ids \subseteq Nat
  BY DEF Shapes
<1> HIDE DEF max
<1>5. max \in Nat
  BY <1>2, <1>4
<1> QED
  BY <1>2, <1>3, <1>4, <1>5

\* Putting a file somewhere and dropping files.
LEMMA PutProps ==
    ASSUME NEW f, NEW file, NEW owner
    PROVE  /\ DOMAIN Files!Put(f, file, owner) = DOMAIN f \cup {file}
           /\ Files!Put(f, file, owner)[file] = owner
           /\ \A x \in DOMAIN f \ {file} : Files!Put(f, file, owner)[x] = f[x]
BY DEF Files!Put

LEMMA DropProps ==
    ASSUME NEW f, NEW gone
    PROVE  /\ DOMAIN Files!Drop(f, gone) = DOMAIN f \ gone
           /\ \A x \in DOMAIN f \ gone : Files!Drop(f, gone)[x] = f[x]
BY DEF Files!Drop

\* A call keeps what it was asked for and goes on.
Goes(b) ==
    /\ DOMAIN backup' = Backups /\ \A c \in Backups : DOMAIN backup'[c] = BackupFields
    /\ \A c \in Backups \ {b} : backup'[c] = backup[c]
    /\ backup'[b].name = backup[b].name /\ backup'[b].rsc = backup[b].rsc
    /\ backup'[b].overwrite = backup[b].overwrite
CallMoves(b, pc, good) == Goes(b) /\ backup'[b].pc = pc /\ backup'[b].good = good
Books(b, late, tried, warned) ==
    backup'[b].late = late /\ backup'[b].tried = tried /\ backup'[b].warned = warned
SameBooks(b) == Books(b, backup[b].late, backup[b].tried, backup[b].warned)
RestKept == disk' = disk /\ library' = library /\ export' = export /\ delete' = delete

\* What each action does, in these words.
LEMMA BeginEffect ==
    ASSUME Shapes, NEW b \in Backups, NEW n \in Names \cup {Badly}, NEW rsc \in BOOLEAN,
           NEW overwrite \in BOOLEAN, Files!Begin(b, n, rsc, overwrite)
    PROVE  /\ backup[b].pc = "idle" /\ Files!Alone(n) /\ RestKept /\ remote' = remote
           /\ DOMAIN backup' = Backups /\ \A c \in Backups : DOMAIN backup'[c] = BackupFields
           /\ \A c \in Backups \ {b} : backup'[c] = backup[c]
           /\ backup'[b].good = backup[b].good /\ SameBooks(b)
           /\ \/ backup'[b].pc = "refused" /\ backup'[b].name = backup[b].name
              \/ /\ n # Badly /\ (overwrite \/ ~Files!OutputExists(n, rsc))
                 /\ backup'[b].pc = "save" /\ backup'[b].name = n
                 /\ backup'[b].rsc = rsc /\ backup'[b].overwrite = overwrite
BY DEF Shapes, Files!Begin, Files!Go, BackupFields, SameBooks, Books, RestKept

\* Makes, of the main file or the export.
MadeBy(b, file, pc) ==
    \/ remote' = Files!Put(remote, file, b) /\ SameBooks(b) /\ CallMoves(b, pc, backup[b].good)
    \/ /\ Late \/ file \notin DOMAIN remote
       /\ remote' = remote /\ CallMoves(b, pc, backup[b].good)
       /\ Books(b, backup[b].late \cup {file}, backup[b].tried, backup[b].warned)

LEMMA MakesEffect ==
    ASSUME Shapes, NEW b \in Backups, NEW file, NEW pc, Files!Makes(b, file, pc)
    PROVE  MadeBy(b, file, pc)
BY DEF Shapes, Files!Makes, Files!Go, BackupFields, SameBooks, Books, CallMoves, Goes, MadeBy

LEMMA GoEffect ==
    ASSUME Shapes, NEW b \in Backups, NEW pc, Files!Go(b, pc)
    PROVE  CallMoves(b, pc, backup[b].good) /\ SameBooks(b)
BY DEF Shapes, Files!Go, BackupFields, SameBooks, Books, CallMoves, Goes

LEMMA SaveEffect ==
    ASSUME Shapes, NEW b \in Backups, Files!Save(b)
    PROVE  /\ backup[b].pc = "save" /\ RestKept
           /\ \/ \E pc \in {"wait", "failed"} : MadeBy(b, Files!Main(Name(b)), pc)
              \/ remote' = remote /\ CallMoves(b, "failed", backup[b].good) /\ SameBooks(b)
BY MakesEffect, GoEffect DEF Files!Save, RestKept, Name

LEMMA ExportEffect ==
    ASSUME Shapes, NEW b \in Backups, Files!Export(b)
    PROVE  /\ backup[b].pc = "export" /\ RestKept
           /\ \/ MadeBy(b, Files!Rsc(Name(b)), "wait rsc")
              \/ remote' = remote /\ CallMoves(b, "clean", backup[b].good) /\ SameBooks(b)
BY MakesEffect, GoEffect DEF Files!Export, Files!Fails, RestKept, Name

LEMMA RouterWritesEffect ==
    ASSUME Shapes, NEW b \in Backups, Files!RouterWrites(b)
    PROVE  /\ RestKept
           /\ Late \/ backup[b].pc \in {"wait", "wait rsc"}
           /\ \E file \in backup[b].late :
                /\ remote' = Files!Put(remote, file, b)
                       /\ CallMoves(b, backup[b].pc, backup[b].good)
                /\ Books(b, backup[b].late \ {file}, backup[b].tried, backup[b].warned)
<1>1. PICK file \in backup[b].late :
        /\ Late \/ backup[b].pc \in {"wait", "wait rsc"}
        /\ remote' = Files!Put(remote, file, b)
        /\ backup' = [backup EXCEPT ![b].late = @ \ {file}]
        /\ UNCHANGED <<disk, library, export, delete, faults>>
  BY DEF Files!RouterWrites
<1>2. CallMoves(b, backup[b].pc, backup[b].good)
  BY <1>1 DEF Shapes, BackupFields, CallMoves, Goes
<1>3. Books(b, backup[b].late \ {file}, backup[b].tried, backup[b].warned)
  BY <1>1 DEF Shapes, BackupFields, Books
<1> QED
  BY <1>1, <1>2, <1>3 DEF RestKept

LEMMA WaitEffect ==
    ASSUME Shapes, NEW b \in Backups, Files!Wait(b)
    PROVE  /\ RestKept /\ remote' = remote /\ SameBooks(b)
           /\ \/ /\ backup[b].pc = "wait" /\ Files!Main(Name(b)) \in DOMAIN remote
                 /\ CallMoves(b, IF backup[b].rsc THEN "export" ELSE "fetch", backup[b].good)
              \/ /\ backup[b].pc = "wait rsc" /\ Files!Rsc(Name(b)) \in DOMAIN remote
                 /\ CallMoves(b, "fetch", backup[b].good)
              \/ backup[b].pc \in {"wait", "wait rsc"} /\ CallMoves(b, "clean", backup[b].good)
BY GoEffect DEF Files!Wait, Files!Fails, RestKept, Name

LEMMA TransferEffect ==
    ASSUME Shapes, NEW b \in Backups, NEW file, NEW pc, Files!Transfer(b, file, pc)
    PROVE  /\ SameBooks(b)
           /\ \/ /\ file \in DOMAIN remote /\ disk' = Files!Put(disk, file, remote[file])
                 /\ CallMoves(b, pc, pc = "clean")
              \/ disk' = disk /\ CallMoves(b, "clean", backup[b].good)
              \/ disk' = Files!Put(disk, file, Badly) /\ CallMoves(b, "clean", backup[b].good)
<1>1. CASE /\ file \in DOMAIN remote /\ disk' = Files!Put(disk, file, remote[file])
           /\ backup' = [backup EXCEPT ![b].pc = pc, ![b].good = pc = "clean"]
  BY <1>1 DEF Shapes, BackupFields, SameBooks, Books, CallMoves, Goes
<1> QED
  BY <1>1, GoEffect DEF Files!Transfer, Files!Fails

LEMMA CleanEffect ==
    ASSUME Shapes, NEW b \in Backups, Files!Clean(b)
    PROVE  /\ backup[b].pc = "clean" /\ RestKept /\ CallMoves(b, "record", backup[b].good)
           /\ \/ /\ remote' = Files!Drop(remote, Files!Made(b))
                 /\ Books(b, backup[b].late, TRUE, backup[b].warned)
              \/ /\ \E gone \in SUBSET Files!Made(b) : remote' = Files!Drop(remote, gone)
                 /\ Books(b, backup[b].late, TRUE, TRUE)
<1>0. backup[b].pc = "clean" /\ RestKept
  BY DEF Files!Clean, RestKept
<1>1. CASE /\ remote' = Files!Drop(remote, Files!Made(b))
           /\ backup' = [backup EXCEPT ![b].pc = "record", ![b].tried = TRUE]
  BY <1>0, <1>1 DEF Shapes, BackupFields, Books, CallMoves, Goes
<1>2. CASE /\ \E gone \in SUBSET Files!Made(b) : remote' = Files!Drop(remote, gone)
           /\ backup' = [backup EXCEPT ![b].pc = "record", ![b].tried = TRUE,
                                       ![b].warned = TRUE]
  <2>1. CallMoves(b, "record", backup[b].good) /\ Books(b, backup[b].late, TRUE, TRUE)
    <3> SUFFICES ASSUME backup' = [backup EXCEPT ![b].pc = "record", ![b].tried = TRUE,
                                                 ![b].warned = TRUE]
                 PROVE  CallMoves(b, "record", backup[b].good)
                            /\ Books(b, backup[b].late, TRUE, TRUE)
      BY <1>2
    <3> QED
      BY DEF Shapes, BackupFields, Books, CallMoves, Goes
  <2> QED
    BY <1>0, <1>2, <2>1
<1> QED
  BY <1>1, <1>2 DEF Files!Clean

LEMMA RecordEffect ==
    ASSUME Shapes, NEW b \in Backups, Files!Record(b)
    PROVE  /\ backup[b].pc = "record" /\ SameBooks(b)
           /\ remote' = remote /\ disk' = disk /\ export' = export /\ delete' = delete
           /\ \/ /\ backup[b].good /\ library' = Files!Put(library, Files!NextId, [owner |-> b,
                        paths |-> Files!Made(b)])
                 /\ CallMoves(b, "done", backup[b].good)
              \/ /\ library' = library
                 /\ \E pc \in {"unrecorded", "failed"} :
                      (pc = "unrecorded" <=> backup[b].good) /\ CallMoves(b, pc, backup[b].good)
BY GoEffect DEF Files!Record

-----------------------------------------------------------------------------
(* The router and the ciphers: one lemma per action, or per kind of action. *)

\* Names and files of a call that moves, and of the others.
LEMMA MovesKept ==
    ASSUME Shapes, NEW b \in Backups, Goes(b)
    PROVE  \A c \in Backups : /\ Name(c)' = Name(c) /\ Files!Made(c)' = Files!Made(c)
                              /\ backup'[c].overwrite = backup[c].overwrite
                              /\ backup'[c].rsc = backup[c].rsc
BY DEF Goes, Name, Files!Made

\* What a call that does not move keeps.
LEMMA OtherBackup ==
    ASSUME NEW c, BackupOf(c), backup'[c] = backup[c]
    PROVE  BackupOf(c)'
<1>1. Files!Made(c)' = Files!Made(c)
  BY DEF Files!Made
<1> HIDE DEF Files!Made
<1> QED
  BY <1>1 DEF BackupOf

LEMMA SameFiles ==
    ASSUME NEW c, FilesOf(c), backup'[c] = backup[c], disk' = disk, remote' = remote
    PROVE  FilesOf(c)'
<1>1. /\ Files!Made(c)' = Files!Made(c) /\ Name(c)' = Name(c) /\ Files!files' = Files!files
      /\ \A x : Holds(c, x)' <=> Holds(c, x)
  BY DEF Files!Made, Name, Files!files, Holds
<1> HIDE DEF Files!Made, Name, Files!files
<1> QED
  BY <1>1 DEF FilesOf

\* The router's files stay when a call moves, and stay the call's.
LEMMA SameRemote ==
    ASSUME Shapes, \A x \in DOMAIN remote : RemoteOf(x), remote' = remote, NEW b \in Backups,
           Goes(b), backup'[b].pc \notin {"idle", "refused"},
           backup'[b].tried = backup[b].tried, backup'[b].warned = backup[b].warned
    PROVE  \A x \in DOMAIN remote' : RemoteOf(x)'
<1> SUFFICES ASSUME NEW x \in DOMAIN remote, NEW c \in Backups, c = remote[x]
             PROVE  RemoteOf(x)'
  BY DEF RemoteOf
<1>1. /\ x \in Files!Made(c) /\ Files!Made(c)' = Files!Made(c)
             /\ backup[c].pc \notin {"idle", "refused"}
      /\ Late \/ (backup[c].tried => backup[c].warned)
  BY MovesKept DEF RemoteOf
<1>2. /\ backup'[c].tried = backup[c].tried /\ backup'[c].warned = backup[c].warned
      /\ backup'[c].pc \notin {"idle", "refused"}
  BY <1>1 DEF Goes
<1> HIDE DEF Files!Made
<1> QED
  BY <1>1, <1>2 DEF RemoteOf

\* A call that leaves disk, library and the other calls alone.
LEMMA CallTidy ==
    ASSUME TidyInv, RestKept, NEW b \in Backups,
           DOMAIN backup' = Backups, \A c \in Backups : DOMAIN backup'[c] = BackupFields,
           \A c \in Backups \ {b} : backup'[c] = backup[c],
           BackupOf(b)', \A file \in DOMAIN remote' : RemoteOf(file)'
    PROVE  TidyInv'
<1>1. Shapes'
  BY DEF TidyInv, Shapes, RestKept, Files!ids
<1>2. CipherInv'
  BY DEF TidyInv, CipherInv, RestKept, Files!files, Encrypts
<1>3. \A c \in Backups \ {b} : BackupOf(c)'
  BY OtherBackup DEF TidyInv
<1>4. \A file \in Files!files' : disk'[file] \in Backups \cup Exports \cup {Badly}
  BY DEF TidyInv, RestKept, Files!files
<1> QED
  BY <1>1, <1>2, <1>3, <1>4 DEF TidyInv

\* No call moves.
LEMMA SameCalls ==
    ASSUME backup' = backup
    PROVE  /\ \A p \in Backups : Name(p)' = Name(p) /\ Files!Made(p)' = Files!Made(p)
           /\ \A p \in Backups : (Runs(p)' <=> Runs(p))
                  /\ (Files!Shared(p)' <=> Files!Shared(p))
BY DEF Runs, Name, Files!Made, Files!Shared

LEMMA BeginTidy ==
    ASSUME TidyInv, NEW b \in Backups, NEW n \in Names \cup {Badly}, NEW rsc \in BOOLEAN,
           NEW overwrite \in BOOLEAN, Files!Begin(b, n, rsc, overwrite)
    PROVE  TidyInv'
<1>1. Shapes /\ BackupOf(b)
  BY DEF TidyInv
<1>2. \A file \in DOMAIN remote' : RemoteOf(file)'
  BY <1>1, BeginEffect DEF TidyInv, RemoteOf, Files!Made
<1>3. BackupOf(b)'
  <2>1. /\ backup[b].name = Badly /\ backup'[b].late = {}
        /\ backup'[b].tried = backup[b].tried /\ backup'[b].good = backup[b].good
    <3>1. backup[b].pc = "idle" /\ SameBooks(b) /\ backup'[b].good = backup[b].good
      BY <1>1, BeginEffect
    <3> QED
      BY <1>1, <3>1 DEF BackupOf, SameBooks, Books
  <2>4. ~backup[b].tried /\ ~backup[b].good
    <3>1. backup[b].pc = "idle"
      BY <1>1, BeginEffect
    <3> QED
      BY <1>1, <3>1 DEF BackupOf
  <2>2. CASE backup'[b].pc = "refused" /\ backup'[b].name = backup[b].name
    BY <2>1, <2>2, <2>4 DEF BackupOf
  <2>3. CASE backup'[b].pc = "save" /\ backup'[b].name = n /\ n # Badly
    BY <2>1, <2>3, <2>4 DEF BackupOf
  <2> QED
    BY <1>1, <2>2, <2>3, BeginEffect
<1> QED
  BY <1>1, <1>2, <1>3, BeginEffect, CallTidy

\* A file the router writes is its maker's, who has not tried to clean up.
LEMMA RemotePut ==
    ASSUME TidyInv, NEW b \in Backups, NEW file \in Files!Made(b), remote' = Files!Put(remote,
               file, b),
           NEW pc, NEW good, CallMoves(b, pc, good), pc \notin {"idle", "refused"},
           Late \/ ~backup'[b].tried, backup'[b].tried = backup[b].tried
    PROVE  \A x \in DOMAIN remote' : RemoteOf(x)'
<1> SUFFICES ASSUME NEW x \in DOMAIN remote'
             PROVE  RemoteOf(x)'
  OBVIOUS
<1>1. \A c \in Backups : Files!Made(c)' = Files!Made(c)
  BY MovesKept DEF TidyInv, CallMoves
<1>4. /\ DOMAIN remote' = DOMAIN remote \cup {file} /\ remote'[file] = b
      /\ \A y \in DOMAIN remote \ {file} : remote'[y] = remote[y]
  BY DEF Files!Put
<1>2. CASE x = file
  <2>1. /\ remote'[x] = b /\ file \in Files!Made(b)' /\ backup'[b].pc \notin {"idle", "refused"}
    BY <1>1, <1>2, <1>4 DEF CallMoves, Goes
  <2> QED
    BY <1>2, <2>1 DEF RemoteOf
<1>3. CASE x # file
  <2>1. x \in DOMAIN remote /\ remote'[x] = remote[x] /\ RemoteOf(x)
    BY <1>3, <1>4 DEF TidyInv
  <2>2. CASE remote[x] = b
    BY <1>1, <2>1, <2>2 DEF RemoteOf, CallMoves, Goes
  <2>3. CASE remote[x] # b
    BY <1>1, <2>1, <2>3 DEF RemoteOf, CallMoves, Goes
  <2> QED
    BY <2>2, <2>3
<1> QED
  BY <1>2, <1>3

LEMMA WrittenTidy ==
    ASSUME TidyInv, RestKept, NEW b \in Backups, NEW file \in Files!Made(b),
           NEW pc \in {"wait", "wait rsc", "failed"},
           backup[b].pc \in {"save", "export"}, backup[b].pc = "save" => pc # "wait rsc",
           backup[b].pc = "export" => pc = "wait rsc",
           MadeBy(b, file, pc)
    PROVE  TidyInv'
<1>1. Shapes /\ BackupOf(b) /\ ~backup[b].tried /\ ~backup[b].good
  BY DEF TidyInv, BackupOf
<1>2. CallMoves(b, pc, backup[b].good)
  BY DEF MadeBy
<1>3. /\ backup'[b].tried = backup[b].tried /\ backup'[b].warned = backup[b].warned
      /\ backup'[b].late \in {backup[b].late, backup[b].late \cup {file}}
  BY DEF MadeBy, SameBooks, Books
<1>4. BackupOf(b)'
  BY <1>1, <1>2, <1>3 DEF BackupOf, CallMoves, Goes, Files!Made
<1>5. \A x \in DOMAIN remote' : RemoteOf(x)'
  <2>1. CASE remote' = remote
    BY <1>1, <1>2, <1>3, <2>1, SameRemote DEF TidyInv, CallMoves
  <2>2. CASE remote' = Files!Put(remote, file, b)
    BY <1>1, <1>2, <1>3, <2>2, RemotePut
  <2> QED
    BY <2>1, <2>2 DEF MadeBy
<1> QED
  BY <1>2, <1>4, <1>5, CallTidy DEF CallMoves, Goes

LEMMA QuietTidy ==
    ASSUME TidyInv, RestKept, remote' = remote, NEW b \in Backups, NEW pc,
           CallMoves(b, pc, backup[b].good), SameBooks(b),
           pc \notin {"idle", "refused"}, backup[b].pc \notin {"idle", "refused"},
           ~backup[b].tried \/ pc \in {"failed", "unrecorded"},
           ~backup[b].good \/ pc \in {"unrecorded"},
           pc \in {"export", "wait rsc", "fetch rsc"} => backup[b].rsc
    PROVE  TidyInv'
<1>1. Shapes /\ BackupOf(b)
  BY DEF TidyInv
<1>2. BackupOf(b)'
  BY <1>1 DEF BackupOf, CallMoves, Goes, SameBooks, Books, Files!Made
<1>3. \A x \in DOMAIN remote' : RemoteOf(x)'
  BY <1>1, SameRemote DEF TidyInv, CallMoves, SameBooks, Books
<1> QED
  BY <1>2, <1>3, CallTidy DEF CallMoves, Goes

LEMMA AskTidy ==
    ASSUME TidyInv, NEW b \in Backups,
           Files!Save(b) \/ Files!Export(b) \/ Files!RouterWrites(b) \/ Files!Wait(b)
    PROVE  TidyInv'
<1>1. Shapes /\ BackupOf(b)
  BY DEF TidyInv
<1>2. Files!Main(Name(b)) \in Files!Made(b) /\ (backup[b].rsc =>
          Files!Rsc(Name(b)) \in Files!Made(b))
  BY DEF Files!Made, Name
<1>3. CASE Files!Save(b)
  <2>1. backup[b].pc = "save" /\ ~backup[b].tried /\ ~backup[b].good /\ RestKept
    BY <1>1, <1>3, SaveEffect DEF BackupOf
  <2>2. CASE \E pc \in {"wait", "failed"} : MadeBy(b, Files!Main(Name(b)), pc)
    BY <1>2, <2>1, <2>2, WrittenTidy
  <2>3. CASE remote' = remote /\ CallMoves(b, "failed", backup[b].good) /\ SameBooks(b)
    <3>1. \E pc \in {"failed"} : CallMoves(b, pc, backup[b].good)
      BY <2>3
    <3> QED
      BY <2>1, <2>3, <3>1, QuietTidy
  <2> QED
    BY <1>1, <1>3, <2>2, <2>3, SaveEffect
<1>4. CASE Files!Export(b)
  <2>1. /\ backup[b].pc = "export" /\ ~backup[b].tried /\ ~backup[b].good /\ RestKept
        /\ backup[b].rsc
    BY <1>1, <1>4, ExportEffect DEF BackupOf
  <2>2. CASE MadeBy(b, Files!Rsc(Name(b)), "wait rsc")
    BY <1>2, <2>1, <2>2, WrittenTidy
  <2>3. CASE remote' = remote /\ CallMoves(b, "clean", backup[b].good) /\ SameBooks(b)
    <3>1. \E pc \in {"clean"} : CallMoves(b, pc, backup[b].good)
      BY <2>3
    <3> QED
      BY <2>1, <2>3, <3>1, QuietTidy
  <2> QED
    BY <1>1, <1>4, <2>2, <2>3, ExportEffect
<1>5. CASE Files!RouterWrites(b)
  <2>1. PICK file \in backup[b].late :
          /\ remote' = Files!Put(remote, file, b) /\ CallMoves(b, backup[b].pc, backup[b].good)
          /\ Books(b, backup[b].late \ {file}, backup[b].tried, backup[b].warned)
    BY <1>1, <1>5, RouterWritesEffect
  <2>2. backup[b].pc \notin {"idle", "refused"} /\ (Late \/ ~backup[b].tried) /\ RestKept
    BY <1>1, <1>5, RouterWritesEffect DEF BackupOf
  <2>3. BackupOf(b)'
    BY <1>1, <2>1, <2>2 DEF BackupOf, CallMoves, Goes, Books, Files!Made
  <2>4. file \in Files!Made(b)
    BY <1>1 DEF BackupOf
  <2>5. \A x \in DOMAIN remote' : RemoteOf(x)'
    BY <2>1, <2>2, <2>4, RemotePut DEF Books
  <2> QED
    BY <2>1, <2>2, <2>3, <2>5, CallTidy DEF CallMoves, Goes
<1>6. CASE Files!Wait(b)
  <2>1. /\ backup[b].pc \in {"wait", "wait rsc"} /\ ~backup[b].tried /\ ~backup[b].good
        /\ RestKept /\ remote' = remote /\ SameBooks(b)
    BY <1>1, <1>6, WaitEffect DEF BackupOf
  <2>2. \E pc \in {"export", "fetch", "clean"} :
          CallMoves(b, pc, backup[b].good) /\ (pc = "export" => backup[b].rsc)
    BY <1>1, <1>6, WaitEffect
  <2> QED
    BY <2>1, <2>2, QuietTidy
<1> QED
  BY <1>3, <1>4, <1>5, <1>6


\* Of what a backup fetches and a delete removes nothing is a cipher.
LEMMA FileKinds ==
    /\ \A n : Files!Main(n)[1] = n /\ Files!Main(n)[2] = "backup" /\ Files!Rsc(n)[1] = n
           /\ Files!Rsc(n)[2] = "rsc"
    /\ \A n : Files!Age(n)[2] = "xml.age"
    /\ \A S : PathsOf(S) => \A p \in S : p[2] # "xml.age"
BY DEF Files!Main, Files!Rsc, Files!Age, PathsOf

\* No cipher changes.
AgesKept ==
    \A x \in Files!files \cup Files!files' : x[2] = "xml.age" =>
        x \in Files!files /\ x \in Files!files' /\ disk'[x] = disk[x]

LEMMA AgesCipher ==
    ASSUME CipherInv, export' = export, AgesKept
    PROVE  CipherInv'
<1>1. \A e \in Exports : \A file : Encrypts(e, file)' = Encrypts(e, file)
  BY DEF Encrypts
<1>2. \A e \in Exports : export[e].pc = "encrypt" =>
        Files!Age(export[e].name) \in Files!files' /\ disk'[Files!Age(export[e].name)] = Badly
  BY FileKinds DEF CipherInv, AgesKept
<1>3. \A file \in Files!files' : file[2] = "xml.age" => file \in Files!files
          /\ disk'[file] = disk[file]
  BY DEF AgesKept
<1>4. \A e, f \in Exports : \A file \in Files!files' : Encrypts(e, file) /\ Encrypts(f, file) =>
          e = f
  <2> SUFFICES ASSUME NEW e \in Exports, NEW f \in Exports, NEW file \in Files!files',
                      Encrypts(e, file), Encrypts(f, file)
               PROVE  e = f
    OBVIOUS
  <2>1. file[2] = "xml.age"
    BY FileKinds DEF Encrypts
  <2> QED
    BY <1>3, <2>1 DEF CipherInv
<1>5. \A file \in Files!files' : file[2] = "xml.age" /\ disk'[file] = Badly =>
        \E e \in Exports : Encrypts(e, file)
  BY <1>3 DEF CipherInv
<1> QED
  BY <1>1, <1>2, <1>4, <1>5 DEF CipherInv

LEMMA DiskPutTidy ==
    ASSUME TidyInv, NEW b \in Backups, NEW n, NEW file \in {Files!Main(n), Files!Rsc(n)},
           NEW owner \in Backups \cup {Badly}, disk' = Files!Put(disk, file, owner),
               export' = export
    PROVE  /\ CipherInv'
           /\ \A x \in Files!files' : disk'[x] \in Backups \cup Exports \cup {Badly}
<1>1. /\ Files!files' = Files!files \cup {file} /\ disk'[file] = owner
      /\ \A x \in Files!files \ {file} : disk'[x] = disk[x]
  BY DEF Files!Put, Files!files
<1>2. file[2] # "xml.age"
  BY FileKinds
<1>3. AgesKept
  BY <1>1, <1>2 DEF AgesKept
<1> QED
  BY <1>1, <1>3, AgesCipher DEF TidyInv

LEMMA FetchTidy ==
    ASSUME TidyInv, NEW b \in Backups, Files!FetchMain(b) \/ Files!FetchRsc(b)
    PROVE  TidyInv'
<1>1. Shapes /\ BackupOf(b)
  BY DEF TidyInv
<1>2. PICK file \in {Files!Main(Name(b)), Files!Rsc(Name(b))}, pc \in {"fetch rsc", "clean"} :
        /\ Files!Transfer(b, file, pc) /\ backup[b].pc \in {"fetch", "fetch rsc"}
        /\ remote' = remote /\ library' = library /\ export' = export /\ delete' = delete
        /\ pc = "fetch rsc" => backup[b].rsc
  BY DEF Files!FetchMain, Files!FetchRsc, Name
<1>3. ~backup[b].tried /\ ~backup[b].good
  BY <1>1, <1>2 DEF BackupOf
<1>4. /\ Goes(b) /\ SameBooks(b) /\ backup'[b].pc \in {pc, "clean"}
      /\ backup'[b].good => backup'[b].pc = "clean"
  BY <1>1, <1>2, <1>3, TransferEffect DEF CallMoves
<1>0. disk' = disk \/ \E owner \in Backups \cup {Badly} : disk' = Files!Put(disk, file, owner)
  BY <1>1, <1>2, TransferEffect DEF TidyInv, RemoteOf
<1>5. BackupOf(b)'
  BY <1>1, <1>2, <1>3, <1>4 DEF BackupOf, Goes, SameBooks, Books, Files!Made
<1>6. \A c \in Backups \ {b} : BackupOf(c)'
  BY <1>4, OtherBackup DEF TidyInv, Goes
<1>7. \A x \in DOMAIN remote' : RemoteOf(x)'
  BY <1>1, <1>2, <1>4, SameRemote DEF TidyInv, SameBooks, Books
<1>8. CipherInv' /\ \A x \in Files!files' : disk'[x] \in Backups \cup Exports \cup {Badly}
  <2>1. CASE disk' = disk
    BY <1>2, <2>1 DEF TidyInv, CipherInv, Encrypts, Files!files
  <2>2. CASE \E owner \in Backups \cup {Badly} : disk' = Files!Put(disk, file, owner)
    BY <1>2, <2>2, DiskPutTidy
  <2> QED
    BY <1>0, <2>1, <2>2
<1>9. Shapes'
  BY <1>1, <1>2, <1>4 DEF Shapes, Goes, Files!ids
<1> QED
  BY <1>5, <1>6, <1>7, <1>8, <1>9 DEF TidyInv

LEMMA CleanTidy ==
    ASSUME TidyInv, NEW b \in Backups, Files!Clean(b)
    PROVE  TidyInv'
<1>1. Shapes /\ BackupOf(b)
  BY DEF TidyInv
<1>2. /\ backup[b].pc = "clean" /\ RestKept /\ CallMoves(b, "record", backup[b].good)
      /\ ~backup[b].tried
  BY <1>1, CleanEffect DEF BackupOf
<1>3. BackupOf(b)'
  <2>1. /\ backup'[b].pc = "record" /\ backup'[b].name = backup[b].name
        /\ backup'[b].good = backup[b].good /\ Files!Made(b)' = Files!Made(b)
    BY <1>1, <1>2, MovesKept DEF CallMoves, Goes
  <2>2. backup'[b].late = backup[b].late
    BY <1>1, CleanEffect DEF Books
  <2> HIDE DEF Files!Made
  <2> QED
    BY <1>1, <1>2, <2>1, <2>2 DEF BackupOf
<1>4. PICK gone \in SUBSET Files!Made(b) :
        /\ remote' = Files!Drop(remote, gone) /\ backup'[b].tried
        /\ backup'[b].warned \/ gone = Files!Made(b)
        /\ backup[b].warned => backup'[b].warned
  BY <1>1, CleanEffect DEF Books
<1>5. \A x \in DOMAIN remote' : RemoteOf(x)'
  <2> SUFFICES ASSUME NEW x \in DOMAIN remote'
               PROVE  RemoteOf(x)'
    OBVIOUS
  <2>1. x \in DOMAIN remote /\ x \notin gone /\ remote'[x] = remote[x] /\ RemoteOf(x)
    BY <1>4 DEF Files!Drop, TidyInv
  <2>2. \A c \in Backups : Files!Made(c)' = Files!Made(c)
    BY <1>1, <1>2, MovesKept DEF CallMoves
  <2>3. CASE remote[x] = b
    <3>1. Late \/ backup'[b].warned
      BY <1>4, <2>1, <2>3 DEF RemoteOf
    <3> QED
      BY <1>2, <2>1, <2>2, <2>3, <3>1 DEF RemoteOf, CallMoves
  <2>4. CASE remote[x] # b
    BY <1>2, <2>1, <2>2, <2>4 DEF RemoteOf, CallMoves, Goes
  <2> QED
    BY <2>3, <2>4
<1> QED
  BY <1>2, <1>3, <1>5, CallTidy DEF CallMoves, Goes

LEMMA RecordTidy ==
    ASSUME TidyInv, NEW b \in Backups, Files!Record(b)
    PROVE  TidyInv'
<1>1. Shapes /\ BackupOf(b)
  BY DEF TidyInv
<1>2. /\ backup[b].pc = "record" /\ SameBooks(b) /\ remote' = remote /\ disk' = disk
      /\ export' = export /\ delete' = delete
  BY <1>1, RecordEffect
<1>3. CASE /\ library' = library
           /\ \E pc \in {"unrecorded", "failed"} :
                (pc = "unrecorded" <=> backup[b].good) /\ CallMoves(b, pc, backup[b].good)
  <2>1. Goes(b) /\ backup'[b].pc \in {"unrecorded", "failed"} /\ RestKept
        /\ (backup'[b].good => backup'[b].pc = "unrecorded")
    BY <1>2, <1>3 DEF CallMoves, RestKept
  <2>2. BackupOf(b)'
    BY <1>1, <1>2, <2>1 DEF BackupOf, Goes, SameBooks, Books, Files!Made
  <2>3. \A x \in DOMAIN remote' : RemoteOf(x)'
    BY <1>1, <1>2, <2>1, MovesKept DEF TidyInv, RemoteOf, Goes, SameBooks, Books
  <2> QED
    BY <2>1, <2>2, <2>3, CallTidy DEF Goes
<1>4. CASE /\ backup[b].good /\ library' = Files!Put(library, Files!NextId, [owner |-> b,
                  paths |-> Files!Made(b)])
           /\ CallMoves(b, "done", backup[b].good)
  <2>1. /\ Files!ids' = Files!ids \cup {Files!NextId} /\ library'[Files!NextId] = [owner |-> b,
               paths |-> Files!Made(b)]
        /\ \A i \in Files!ids \ {Files!NextId} : library'[i] = library[i]
    BY <1>4 DEF Files!Put, Files!ids
  <2>2. PathsOf(Files!Made(b))
    BY <1>1, <1>2 DEF BackupOf, PathsOf, Files!Made
  <2>3. \A i \in Files!ids' : library'[i].owner \in Backups /\ PathsOf(library'[i].paths)
    BY <1>1, <2>1, <2>2 DEF Shapes
  <2>4. Files!NextId \in Nat /\ \A i \in Files!ids' : i <= Files!NextId
    BY <1>1, <2>1, NextIdNew
  <2>5. Files!ids' \subseteq Nat /\ \E m \in Nat : \A i \in Files!ids' : i <= m
    <3>1. Files!ids' \subseteq Nat
      BY <1>1, <2>1, <2>4 DEF Shapes
    <3> DEFINE m == Files!NextId
    <3>2. m \in Nat /\ \A i \in Files!ids' : i <= m
      BY <2>4
    <3> HIDE DEF m
    <3> QED
      BY <3>1, <3>2
  <2>6. Shapes'
    BY <1>1, <1>2, <1>4, <2>3, <2>5 DEF Shapes, CallMoves, Goes
  <2>7. \A c \in Backups : BackupOf(c)'
    <3>1. BackupOf(b)'
      BY <1>1, <1>2, <1>4 DEF BackupOf, CallMoves, Goes, SameBooks, Books, Files!Made
    <3>2. \A c \in Backups \ {b} : BackupOf(c)'
      BY <1>4, OtherBackup DEF TidyInv, CallMoves, Goes
    <3> QED
      BY <3>1, <3>2
  <2>8. \A x \in DOMAIN remote' : RemoteOf(x)'
    BY <1>1, <1>2, <1>4, SameRemote DEF TidyInv, CallMoves, SameBooks, Books
  <2>9. CipherInv' /\ \A x \in Files!files' : disk'[x] \in Backups \cup Exports \cup {Badly}
    BY <1>2 DEF TidyInv, CipherInv, Encrypts, Files!files
  <2> QED
    BY <2>6, <2>7, <2>8, <2>9 DEF TidyInv
<1> QED
  BY <1>1, <1>3, <1>4, RecordEffect

-----------------------------------------------------------------------------
(* Deletes and exports.                                                    *)

\* A delete goes on, and keeps what it was asked for.
DeleteMoves(d, pc) ==
    /\ DOMAIN delete' = Deletes /\ \A c \in Deletes : DOMAIN delete'[c] = {"pc", "id", "paths"}
    /\ \A c \in Deletes \ {d} : delete'[c] = delete[c]
    /\ delete'[d].pc = pc
DeleteKept(d) == delete'[d].id = delete[d].id /\ delete'[d].paths = delete[d].paths

LEMMA LoadEffect ==
    ASSUME Shapes, NEW d \in Deletes, NEW i \in Files!ids, Files!Load(d, i)
    PROVE  /\ delete[d].pc = "idle" /\ DeleteMoves(d, "files")
           /\ delete'[d].id = i /\ delete'[d].paths = library[i].paths
           /\ Overlap \/ \A c \in Deletes : delete[c].pc \in {"files", "row"} =>
                  delete[c].id # i
           /\ remote' = remote /\ disk' = disk /\ library' = library /\ backup' = backup
           /\ export' = export
BY DEF Shapes, Files!Load, DeleteMoves

LEMMA UnlinkEffect ==
    ASSUME Shapes, NEW d \in Deletes, Files!Unlink(d)
    PROVE  /\ delete[d].pc = "files" /\ DeleteKept(d)
           /\ \E file \in delete[d].paths : Files!Alone(file[1])
           /\ remote' = remote /\ library' = library /\ backup' = backup /\ export' = export
           /\ \/ disk' = Files!Drop(disk, delete[d].paths) /\ DeleteMoves(d, "row")
              \/ /\ DeleteMoves(d, "kept")
                 /\ disk' = disk \/ \E gone \in SUBSET delete[d].paths :
                        disk' = Files!Drop(disk, gone)
BY DEF Shapes, Files!Unlink, Files!GoD, DeleteMoves, DeleteKept

LEMMA DeleteRowEffect ==
    ASSUME Shapes, NEW d \in Deletes, Files!DeleteRow(d)
    PROVE  /\ delete[d].pc = "row" /\ DeleteKept(d)
           /\ remote' = remote /\ disk' = disk /\ backup' = backup /\ export' = export
           /\ \/ library' = Files!Drop(library, {delete[d].id}) /\ DeleteMoves(d, "deleted")
              \/ library' = library /\ DeleteMoves(d, "kept")
BY DEF Shapes, Files!DeleteRow, Files!GoD, DeleteMoves, DeleteKept

LEMMA DeleteTidy ==
    ASSUME TidyInv, NEW d \in Deletes,
           (\E i \in Files!ids : Files!Load(d, i)) \/ Files!Unlink(d) \/ Files!DeleteRow(d)
    PROVE  TidyInv'
<1>1. Shapes
  BY DEF TidyInv
<1>2. backup' = backup /\ remote' = remote /\ export' = export
  BY <1>1, LoadEffect, UnlinkEffect, DeleteRowEffect
<1>3. /\ \A c \in Backups : BackupOf(c)'
      /\ \A x \in DOMAIN remote' : RemoteOf(x)'
  BY <1>2 DEF TidyInv, BackupOf, RemoteOf, Files!Made
<1>4. disk' = disk \/ \E gone \in SUBSET delete[d].paths : disk' = Files!Drop(disk, gone)
  <2>1. delete[d].paths \in SUBSET delete[d].paths
    OBVIOUS
  <2> QED
    BY <1>1, <2>1, LoadEffect, UnlinkEffect, DeleteRowEffect
<1>5. CipherInv' /\ \A x \in Files!files' : disk'[x] \in Backups \cup Exports \cup {Badly}
  <2>1. CASE disk' = disk
    BY <1>2, <2>1 DEF TidyInv, CipherInv, Encrypts, Files!files
  <2>2. CASE disk' # disk
    <3>1. PICK gone \in SUBSET delete[d].paths : disk' = Files!Drop(disk, gone)
      BY <1>4, <2>2
    <3>2. Files!files' = Files!files \ gone /\ \A x \in Files!files' : disk'[x] = disk[x]
      BY <3>1 DEF Files!Drop, Files!files
    <3>3. delete[d].pc # "idle"
      BY <1>1, <2>2, LoadEffect, UnlinkEffect, DeleteRowEffect
    <3>4. \A x \in gone : x[2] # "xml.age"
      BY <1>1, <3>3, FileKinds DEF Shapes
    <3>5. AgesKept
      BY <3>2, <3>4 DEF AgesKept
    <3> QED
      BY <1>2, <3>2, <3>5, AgesCipher DEF TidyInv
  <2> QED
    BY <2>1, <2>2
<1>6. Shapes'
  <2>1. /\ DOMAIN delete' = Deletes /\ \A c \in Deletes : DOMAIN delete'[c] = {"pc", "id",
               "paths"}
        /\ \A c \in Deletes : delete'[c].pc = "idle" \/ PathsOf(delete'[c].paths)
    <3>1. \E pc \in {"files", "row", "kept", "deleted"} : DeleteMoves(d, pc)
      BY <1>1, LoadEffect, UnlinkEffect, DeleteRowEffect
    <3>2. PathsOf(delete'[d].paths)
      <4>1. CASE \E i \in Files!ids : Files!Load(d, i)
        <5>1. \E i \in Files!ids : delete'[d].paths = library[i].paths
          BY <1>1, <4>1, LoadEffect
        <5> QED
          BY <1>1, <5>1 DEF Shapes
      <4>2. CASE Files!Unlink(d) \/ Files!DeleteRow(d)
        <5>1. delete[d].pc \in {"files", "row"} /\ DeleteKept(d)
          BY <1>1, <4>2, UnlinkEffect, DeleteRowEffect
        <5> QED
          BY <1>1, <5>1 DEF Shapes, DeleteKept
      <4> QED
        BY <4>1, <4>2
    <3> QED
      BY <1>1, <3>1, <3>2 DEF Shapes, DeleteMoves
  <2>2. Files!ids' \subseteq Files!ids /\ \A i \in Files!ids' : library'[i] = library[i]
    <3>1. CASE library' = library
      BY <3>1 DEF Files!ids
    <3>2. CASE library' = Files!Drop(library, {delete[d].id})
      BY <3>2 DEF Files!Drop, Files!ids
    <3> QED
      BY <1>1, <3>1, <3>2, LoadEffect, UnlinkEffect, DeleteRowEffect
  <2>3. Files!ids' \subseteq Nat /\ \E m \in Nat : \A i \in Files!ids' : i <= m
    <3>1. PICK m \in Nat : \A i \in Files!ids : i <= m
      BY <1>1 DEF Shapes
    <3> QED
      BY <1>1, <2>2, <3>1 DEF Shapes
  <2> QED
    BY <1>1, <1>2, <2>1, <2>2, <2>3 DEF Shapes
<1> QED
  BY <1>3, <1>5, <1>6 DEF TidyInv

LEMMA ExportTidy ==
    ASSUME TidyInv, Badly \notin Exports, NEW e \in Exports,
           (\E n \in Names \cup {Badly} : Files!Read(e, n)) \/ Files!Create(e)
               \/ Files!Encrypt(e)
    PROVE  TidyInv'
<1>1. Shapes /\ CipherInv
  BY DEF TidyInv
<1>2. backup' = backup /\ remote' = remote /\ library' = library /\ delete' = delete
  BY DEF Files!Read, Files!Create, Files!Encrypt
<1>3. /\ \A c \in Backups : BackupOf(c)'
      /\ \A x \in DOMAIN remote' : RemoteOf(x)'
  BY <1>2 DEF TidyInv, BackupOf, RemoteOf, Files!Made
<1>4. /\ DOMAIN export' = Exports /\ \A f \in Exports : DOMAIN export'[f] = {"pc", "name"}
      /\ \A f \in Exports \ {e} : export'[f] = export[f]
  BY <1>1 DEF Shapes, Files!Read, Files!Create, Files!Encrypt, Files!GoE
<1>5. Shapes'
  BY <1>1, <1>2, <1>4 DEF Shapes, Files!ids
<1> DEFINE file == Files!Age(export[e].name)
<1>6. CASE \E n \in Names \cup {Badly} : Files!Read(e, n)
  <2>1. disk' = disk /\ export[e].pc = "idle" /\ export'[e].pc # "encrypt"
    BY <1>1, <1>6 DEF Shapes, Files!Read, Files!GoE
  <2>2. CipherInv'
    BY <1>1, <1>4, <2>1 DEF CipherInv, Encrypts, Files!files
  <2> QED
    BY <1>3, <1>5, <2>1, <2>2 DEF TidyInv, Files!files
<1>7. CASE Files!Create(e) /\ file \in Files!files
  <2>1. disk' = disk /\ export[e].pc = "create" /\ export'[e].pc # "encrypt"
    BY <1>1, <1>7 DEF Shapes, Files!Create, Files!GoE
  <2>2. CipherInv'
    BY <1>1, <1>4, <2>1 DEF CipherInv, Encrypts, Files!files
  <2> QED
    BY <1>3, <1>5, <2>1, <2>2 DEF TidyInv, Files!files
<1>8. CASE Files!Create(e) /\ file \notin Files!files
  <2>1. /\ export[e].pc = "create" /\ export'[e].pc = "encrypt"
               /\ export'[e].name = export[e].name
    BY <1>1, <1>8 DEF Shapes, Files!Create, Files!GoE
  <2>2. /\ Files!files' = Files!files \cup {file} /\ disk'[file] = Badly
        /\ \A x \in Files!files : disk'[x] = disk[x]
    BY <1>8 DEF Files!Create, Files!Put, Files!files
  <2>3. \A f \in Exports : \A x : Encrypts(f, x)' <=> (Encrypts(f, x) \/ (f = e /\ x = file))
    BY <1>4, <2>1 DEF Encrypts
  <2>4. \A f \in Exports : \A x : Encrypts(f, x) => x \in Files!files /\ disk[x] = Badly
    BY <1>1 DEF CipherInv, Encrypts
  <2> HIDE DEF file
  <2>5. \A f \in Exports : \A x : Encrypts(f, x)' => x \in Files!files' /\ disk'[x] = Badly
    BY <2>2, <2>3, <2>4
  <2>6. \A f, g \in Exports : \A x \in Files!files' : Encrypts(f, x)' /\ Encrypts(g, x)' =>
            f = g
    BY <1>1, <1>8, <2>2, <2>3, <2>4 DEF CipherInv
  <2>7. \A x \in Files!files' : x[2] = "xml.age" /\ disk'[x] = Badly =>
            \E f \in Exports : Encrypts(f, x)'
    BY <1>1, <2>2, <2>3 DEF CipherInv
  <2>8. CipherInv'
    BY <2>5, <2>6, <2>7 DEF CipherInv, Encrypts
  <2>9. \A x \in Files!files' : disk'[x] \in Backups \cup Exports \cup {Badly}
    BY <2>2 DEF TidyInv
  <2> QED
    BY <1>3, <1>5, <2>8, <2>9 DEF TidyInv
<1>9. CASE Files!Encrypt(e)
  <2>1. /\ export[e].pc = "encrypt" /\ export'[e].pc # "encrypt"
    BY <1>1, <1>9 DEF Shapes, Files!Encrypt, Files!GoE
  <2>2. file \in Files!files /\ Encrypts(e, file)
    BY <1>1, <2>1 DEF CipherInv, Encrypts
  <2>3. /\ Files!files' \subseteq Files!files /\ \A x \in Files!files' \ {file} :
               disk'[x] = disk[x]
        /\ Files!files \ {file} \subseteq Files!files'
        /\ file \in Files!files' => disk'[file] = e
    BY <1>9, <2>2 DEF Files!Encrypt, Files!Put, Files!Drop, Files!files
  <2>4. \A f \in Exports : \A x : Encrypts(f, x)' <=> (Encrypts(f, x) /\ f # e)
    BY <1>4, <2>1 DEF Encrypts
  <2>5. \A f \in Exports : \A x : Encrypts(f, x) => x \in Files!files /\ disk[x] = Badly
    BY <1>1 DEF CipherInv, Encrypts
  <2> HIDE DEF file
  <2>6. \A f \in Exports : \A x : Encrypts(f, x)' => x \in Files!files' /\ disk'[x] = Badly
    BY <1>1, <2>2, <2>3, <2>4, <2>5 DEF CipherInv
  <2>7. \A f, g \in Exports : \A x \in Files!files' : Encrypts(f, x)' /\ Encrypts(g, x)' =>
            f = g
    BY <1>1, <2>3, <2>4 DEF CipherInv
  <2>8. \A x \in Files!files' : x[2] = "xml.age" /\ disk'[x] = Badly =>
            \E f \in Exports : Encrypts(f, x)'
    <3> SUFFICES ASSUME NEW x \in Files!files', x[2] = "xml.age", disk'[x] = Badly
                 PROVE  \E f \in Exports : Encrypts(f, x)'
      OBVIOUS
    <3>1. x # file
      BY <2>3
    <3>2. PICK f \in Exports : Encrypts(f, x)
      BY <1>1, <2>3, <3>1 DEF CipherInv
    <3>3. f # e
      BY <2>2, <3>1, <3>2 DEF Encrypts
    <3> QED
      BY <2>4, <3>2, <3>3
  <2>9. CipherInv'
    BY <2>6, <2>7, <2>8 DEF CipherInv, Encrypts
  <2>10. \A x \in Files!files' : disk'[x] \in Backups \cup Exports \cup {Badly}
    BY <2>3 DEF TidyInv
  <2> QED
    BY <1>3, <1>5, <2>9, <2>10 DEF TidyInv
<1> QED
  BY <1>6, <1>7, <1>8, <1>9

-----------------------------------------------------------------------------
(* What follows however calls meet.                                        *)

\* The invariant of the router and the ciphers.
LEMMA TidyStep ==
    ASSUME TidyInv, [Files!Next]_(Files!vars), Badly \notin Backups \cup Exports
    PROVE  TidyInv'
<1>1. CASE UNCHANGED Files!vars
  <2>1. Shapes' /\ CipherInv'
    BY <1>1 DEF Files!vars, TidyInv, Shapes, CipherInv, Encrypts, Files!files, Files!ids
  <2>2. \A b \in Backups : BackupOf(b)'
    BY <1>1 DEF Files!vars, TidyInv, BackupOf, Files!Made
  <2>3. \A x \in DOMAIN remote' : RemoteOf(x)'
    BY <1>1 DEF Files!vars, TidyInv, RemoteOf, Files!Made
  <2> QED
    BY <1>1, <2>1, <2>2, <2>3 DEF Files!vars, TidyInv, Files!files
<1>2. CASE Files!Next
  BY <1>2, BeginTidy, AskTidy, FetchTidy, CleanTidy, RecordTidy, DeleteTidy, ExportTidy
     DEF Files!Next
<1> QED
  BY <1>1, <1>2

LEMMA TidyAlways ==
    ASSUME Badly \notin Backups \cup Exports
    PROVE  Files!Init /\ [][Files!Next]_(Files!vars) => []TidyInv
<1>1. Files!Init => TidyInv
  <2> SUFFICES ASSUME Files!Init PROVE TidyInv
    OBVIOUS
  <2>1. DOMAIN remote = {} /\ Files!files = {} /\ Files!ids = {}
    BY DEF Files!Init, Files!Nothing, Files!files, Files!ids
  <2>2. Shapes
    <3>1. Files!ids \subseteq Nat /\ 0 \in Nat /\ \A i \in Files!ids : i <= 0
      BY <2>1
    <3> QED
      BY <2>1, <3>1 DEF Files!Init, Shapes, BackupFields
  <2> QED
    BY <2>1, <2>2 DEF Files!Init, TidyInv, CipherInv, BackupOf
<1> QED
  BY <1>1, TidyStep, PTL

\* The cleanup guard of run_backup: a backup past its save leaves a file on the
\* router only if the router refused to delete it, however its calls interleave
\* with others and whatever failed, if the router writes no file that nobody
\* waits for any more.
THEOREM RouterLeftCleanHolds ==
    ASSUME Late = FALSE, Badly \notin Backups \cup Exports
    PROVE  Files!Init /\ [][Files!Next]_(Files!vars) => []Files!RouterLeftClean
<1>1. TidyInv => Files!RouterLeftClean
  BY DEF TidyInv, RemoteOf, Files!RouterLeftClean
<1> QED
  BY <1>1, TidyAlways, PTL

\* An .xml.age that is not whole is being written, by exactly one export: create_new
\* lets one in, and its end replaces or removes what it made.
THEOREM CiphersWholeHolds ==
    ASSUME Badly \notin Backups \cup Exports
    PROVE  Files!Init /\ [][Files!Next]_(Files!vars) => []Files!CiphersWhole
<1> DEFINE Writers(file) ==
      {e \in Exports : export[e].pc = "encrypt" /\ Files!Age(export[e].name) = file}
<1>1. ASSUME TidyInv, NEW file \in Files!files, file[2] = "xml.age", disk[file] = Badly
      PROVE  Cardinality(Writers(file)) = 1
  <2>1. PICK e \in Exports : Encrypts(e, file)
    BY <1>1 DEF TidyInv, CipherInv
  <2>2. Writers(file) = {e}
    BY <1>1, <2>1 DEF TidyInv, CipherInv, Encrypts
  <2> QED
    BY <2>2, FS_Singleton
<1>2. Files!CiphersWhole <=> \A file \in Files!files :
        file[2] = "xml.age" /\ disk[file] = Badly => Cardinality(Writers(file)) = 1
  BY DEF Files!CiphersWhole, Files!Cardinality, Cardinality
<1> HIDE DEF Writers
<1>3. TidyInv => Files!CiphersWhole
  BY <1>1, <1>2
<1> QED
  BY <1>3, TidyAlways, PTL

\* Files on the router have the names of backups, and what is on disk has an owner.
THEOREM FilesTypeOKHolds ==
    ASSUME Badly \notin Backups \cup Exports
    PROVE  Files!Init /\ [][Files!Next]_(Files!vars) => []Files!TypeOK
<1>1. TidyInv => Files!TypeOK
  <2> SUFFICES ASSUME TidyInv PROVE Files!TypeOK
    OBVIOUS
  <2>1. \A file \in DOMAIN remote : \E n \in Names : file \in {Files!Main(n), Files!Rsc(n)}
    <3> SUFFICES ASSUME NEW file \in DOMAIN remote
                 PROVE  \E n \in Names : file \in {Files!Main(n), Files!Rsc(n)}
      OBVIOUS
    <3>1. RemoteOf(file) /\ BackupOf(remote[file])
      BY DEF TidyInv, RemoteOf
    <3> QED
      BY <3>1 DEF RemoteOf, BackupOf, Files!Made
  <2>2. \A i \in Files!ids : \A p \in library[i].paths : p[2] # "xml.age"
    BY FileKinds DEF TidyInv, Shapes
  <2> QED
    BY <2>1, <2>2 DEF TidyInv, Files!TypeOK
<1> QED
  BY <1>1, TidyAlways, PTL

-----------------------------------------------------------------------------
(* The library.                                                            *)

\* Two names share no file.
LEMMA FileNames ==
    /\ \A n, m : Files!Main(n) # Files!Rsc(m) /\ (Files!Main(n) = Files!Main(m) => n = m)
           /\ (Files!Rsc(n) = Files!Rsc(m) => n = m)
    /\ \A b : Files!Main(Name(b)) \in Files!Made(b)
           /\ Files!Made(b) \subseteq {Files!Main(Name(b)), Files!Rsc(Name(b))}
    /\ \A S : PathsOf(S) =>
         \E n : Files!Main(n) \in S /\ S \subseteq {Files!Main(n), Files!Rsc(n)}
             /\ \A m : Files!Main(m) \in S => m = n
BY DEF Files!Main, Files!Rsc, Files!Made, Name, PathsOf

\* Nothing changes but files of the name n.
Elsewhere(n) ==
    \A x : x \notin {Files!Main(n), Files!Rsc(n)} =>
        /\ (x \in Files!files' <=> x \in Files!files) /\ (x \in Files!files =>
               disk'[x] = disk[x])
        /\ (x \in DOMAIN remote' <=> x \in DOMAIN remote)
        /\ (x \in DOMAIN remote => remote'[x] = remote[x])

\* A call of another name does not notice.
LEMMA OthersFiles ==
    ASSUME NEW c \in Backups, NEW n, Name(c) # n \/ ~Runs(c), FilesOf(c),
           backup'[c] = backup[c], Elsewhere(n)
    PROVE  FilesOf(c)'
<1>1. CASE ~Runs(c)
  BY <1>1 DEF FilesOf, Runs, Asks
<1>2. CASE Name(c) # n
  <2>1. \A x \in {Files!Main(Name(c)), Files!Rsc(Name(c))} :
          /\ (x \in Files!files' <=> x \in Files!files) /\ (x \in Files!files =>
                 disk'[x] = disk[x])
          /\ (x \in DOMAIN remote' <=> x \in DOMAIN remote)
          /\ (x \in DOMAIN remote => remote'[x] = remote[x])
    BY <1>2, FileNames DEF Elsewhere
  <2>2. Files!Made(c)' = Files!Made(c) /\ Name(c)' = Name(c)
    BY DEF Files!Made, Name
  <2>3. Files!Made(c) \subseteq {Files!Main(Name(c)), Files!Rsc(Name(c))}
    BY FileNames
  <2>4. \A x \in {Files!Main(Name(c)), Files!Rsc(Name(c))} : Holds(c, x) => Holds(c, x)'
    BY <2>1 DEF Holds
  <2>5. Files!Made(c) \cap Files!files = {} => Files!Made(c) \cap Files!files' = {}
    BY <2>1, <2>3
  <2> HIDE DEF Files!Made
  <2> QED
    BY <2>1, <2>2, <2>3, <2>4, <2>5 DEF FilesOf
<1> QED
  BY <1>1, <1>2

\* Sharing goes both ways.
LEMMA SharedBoth ==
    ASSUME NEW b \in Backups, NEW c \in Backups, b # c, Name(b) = Name(c), Files!Shared(c)
    PROVE  Files!Shared(b)
BY DEF Files!Shared, Name

\* A running call keeps the library, if it touches files of its name only.
LEMMA CallBook ==
    ASSUME TidyInv, BookInv, NEW b \in Backups, Runs(b), Goes(b), Elsewhere(Name(b)),
           library' = library, delete' = delete, FilesOf(b)'
    PROVE  BookInv'
<1>1. /\ \A c \in Backups : Name(c)' = Name(c) /\ Files!Made(c)' = Files!Made(c)
      /\ \A c \in Backups : Files!Shared(c)' <=> Files!Shared(c)
      /\ \A c \in Backups : Runs(c)' => Runs(c)
  <2>1. /\ \A c \in Backups : Name(c)' = Name(c) /\ Files!Made(c)' = Files!Made(c)
        /\ \A c \in Backups : backup'[c].overwrite = backup[c].overwrite
    BY MovesKept DEF TidyInv
  <2>2. \A c \in Backups : Files!Shared(c)' <=> Files!Shared(c)
    BY <2>1 DEF Files!Shared, Name
  <2>3. \A c \in Backups : Runs(c)' => Runs(c)
    BY DEF Goes, Runs
  <2> QED
    BY <2>1, <2>2, <2>3
<1>2. AloneInv'
  BY <1>1 DEF BookInv, AloneInv
<1>3. DeleteInv'
  <2>1. \A d \in Deletes : delete[d].pc = "row" => delete[d].paths \cap Files!files' = {}
    <3> SUFFICES ASSUME NEW d \in Deletes, delete[d].pc = "row", NEW x \in delete[d].paths,
                        x \in Files!files'
                 PROVE  FALSE
      OBVIOUS
    <3>1. Files!Main(Name(b)) \notin delete[d].paths /\ x \notin Files!files
      BY DEF BookInv, AloneInv, DeleteInv
    <3>2. PathsOf(delete[d].paths)
      BY DEF TidyInv, Shapes
    <3>3. x \notin {Files!Main(Name(b)), Files!Rsc(Name(b))}
      BY <3>1, <3>2, FileNames
    <3> QED
      BY <3>1, <3>3 DEF Elsewhere
  <2> QED
    BY <2>1 DEF BookInv, DeleteInv, Files!ids
<1>4. \A c \in Backups : FilesOf(c)'
  <2>1. \A c \in Backups \ {b} : Name(c) # Name(b) \/ ~Runs(c)
    BY DEF BookInv, AloneInv
  <2>2. \A c \in Backups \ {b} : FilesOf(c)'
    BY <2>1, OthersFiles DEF BookInv, Goes
  <2> QED
    BY <2>2
<1>5. ASSUME NEW i \in Files!ids, NEW o \in Backups, NEW n \in Names, RecordOf(i, o, n)
      PROVE  RecordOf(i, o, n)'
  <2>1. o # b /\ Name(o) = n
    BY <1>5 DEF RecordOf, Runs, Asks
  <2>2. (Files!Doomed(n)' <=> Files!Doomed(n)) /\ (Kept(n)' <=> Kept(n)) /\ (Kept(n) =>
            Files!Doomed(n))
    BY DEF Files!Doomed, Kept
  <2>3. Files!Doomed(n) \/ Files!Shared(o) \/ \A file \in Files!Made(o) : Holds(o, file)'
    <3>1. CASE n = Name(b)
      BY <1>5, <2>2, <3>1 DEF RecordOf
    <3>2. CASE n # Name(b)
      <4>1. \A x \in Files!Made(o) : x \notin {Files!Main(Name(b)), Files!Rsc(Name(b))}
        BY <2>1, <3>2, FileNames
      <4>2. \A x \in Files!Made(o) : Holds(o, x) => Holds(o, x)'
        BY <4>1 DEF Holds, Elsewhere
      <4> QED
        BY <1>5, <4>2 DEF RecordOf
    <3> QED
      BY <3>1, <3>2
  <2>4. backup'[o] = backup[o]
    BY <2>1 DEF Goes
  <2> QED
    BY <1>1, <1>5, <2>1, <2>2, <2>3, <2>4 DEF RecordOf, Files!ids
<1> QED
  BY <1>2, <1>3, <1>4, <1>5 DEF BookInv, Files!ids

\* A file written to the router has its call's name.
LEMMA ElsewhereRemote ==
    ASSUME disk' = disk, NEW b, NEW n,
           remote' = remote \/ \E file \in {Files!Main(n), Files!Rsc(n)} :
               remote' = Files!Put(remote, file, b)
    PROVE  Elsewhere(n)
<1>1. CASE remote' = remote
  BY <1>1 DEF Elsewhere, Files!files
<1>2. CASE \E file \in {Files!Main(n), Files!Rsc(n)} : remote' = Files!Put(remote, file, b)
  BY <1>2 DEF Elsewhere, Files!Put, Files!files
<1> QED
  BY <1>1, <1>2

\* The router's files of a name are its only run's, and its outputs are new.
LEMMA AskBook ==
    ASSUME TidyInv, BookInv, Late = FALSE, NEW b \in Backups,
           Files!Save(b) \/ Files!Export(b) \/ Files!RouterWrites(b) \/ Files!Wait(b)
    PROVE  BookInv'
<1>1. Shapes /\ BackupOf(b) /\ FilesOf(b)
  BY DEF TidyInv, BookInv
<1> DEFINE main == Files!Main(Name(b))  rsc == Files!Rsc(Name(b))
<1>2. /\ RestKept /\ Goes(b) /\ backup[b].pc \in {"save", "export", "wait", "wait rsc"}
      /\ ~backup[b].good /\ backup'[b].good = backup[b].good
      /\ backup'[b].pc \in {"wait", "export", "wait rsc", "fetch", "clean", "failed"}
  <2>1. CASE Files!Save(b)
    <3>1. backup[b].pc = "save" /\ RestKept /\ \E pc \in {"wait", "failed"} : CallMoves(b, pc,
              backup[b].good)
      BY <1>1, <2>1, SaveEffect DEF MadeBy
    <3> QED
      BY <1>1, <3>1 DEF BackupOf, CallMoves
  <2>2. CASE Files!Export(b)
    <3>1. /\ backup[b].pc = "export" /\ RestKept
          /\ \E pc \in {"wait rsc", "clean"} : CallMoves(b, pc, backup[b].good)
      BY <1>1, <2>2, ExportEffect DEF MadeBy
    <3> QED
      BY <1>1, <3>1 DEF BackupOf, CallMoves
  <2>3. CASE Files!RouterWrites(b)
    <3>1. backup[b].pc \in {"wait", "wait rsc"} /\ RestKept
              /\ CallMoves(b, backup[b].pc, backup[b].good)
      BY <1>1, <2>3, RouterWritesEffect
    <3> QED
      BY <1>1, <3>1 DEF BackupOf, CallMoves
  <2>4. CASE Files!Wait(b)
    <3>1. /\ backup[b].pc \in {"wait", "wait rsc"} /\ RestKept
          /\ \E pc \in {"export", "fetch", "clean"} : CallMoves(b, pc, backup[b].good)
      BY <1>1, <2>4, WaitEffect
    <3> QED
      BY <1>1, <3>1 DEF BackupOf, CallMoves
  <2> QED
    BY <2>1, <2>2, <2>3, <2>4
<1>3. /\ Name(b)' = Name(b) /\ Files!Made(b)' = Files!Made(b) /\ backup'[b].rsc = backup[b].rsc
      /\ backup'[b].overwrite = backup[b].overwrite
  BY <1>1, <1>2, MovesKept
<1>4. remote' = remote \/ \E file \in {main, rsc} : remote' = Files!Put(remote, file, b)
  <2>1. CASE Files!RouterWrites(b)
    <3>1. \A file \in backup[b].late : file \in {main, rsc}
      BY <1>1, FileNames DEF BackupOf
    <3> QED
      BY <1>1, <2>1, <3>1, RouterWritesEffect
  <2> QED
    BY <1>1, <2>1, SaveEffect, ExportEffect, WaitEffect DEF MadeBy
<1>5. Elsewhere(Name(b))
  BY <1>2, <1>4, ElsewhereRemote DEF RestKept
\* A file that is there is the run's, if it was before, and the new one is.
<1>6. \A x \in {main, rsc} : (x \in DOMAIN remote => remote[x] = b) =>
        (x \in DOMAIN remote' => remote'[x] = b)
  BY <1>4 DEF Files!Put
<1>7. backup'[b].pc \in {"wait", "export", "wait rsc", "fetch"} /\ main \in DOMAIN remote' =>
        remote'[main] = b
  <2>1. CASE Files!Save(b)
    <3>1. CASE \E pc \in {"wait", "failed"} : MadeBy(b, main, pc)
      BY <3>1 DEF MadeBy, Files!Put
    <3>2. CASE CallMoves(b, "failed", backup[b].good)
      BY <3>2 DEF CallMoves
    <3> QED
      BY <1>1, <2>1, <3>1, <3>2, SaveEffect
  <2>2. CASE ~Files!Save(b)
    <3>1. backup[b].pc \in {"export", "wait", "wait rsc"}
      BY <1>1, <2>2, ExportEffect, RouterWritesEffect, WaitEffect
    <3> QED
      BY <1>1, <1>6, <3>1 DEF FilesOf
  <2> QED
    BY <2>1, <2>2
<1>8. backup[b].rsc /\ backup'[b].pc \in {"wait rsc", "fetch"} /\ rsc \in DOMAIN remote' =>
        remote'[rsc] = b
  <2>1. CASE Files!Save(b)
    <3>1. backup'[b].pc \in {"wait", "failed"}
      BY <1>1, <2>1, SaveEffect DEF MadeBy, CallMoves
    <3> QED
      BY <3>1
  <2>2. CASE Files!Export(b)
    <3>1. CASE MadeBy(b, rsc, "wait rsc")
      BY <3>1 DEF MadeBy, Files!Put
    <3>2. CASE CallMoves(b, "clean", backup[b].good)
      BY <3>2 DEF CallMoves
    <3> QED
      BY <1>1, <2>2, <3>1, <3>2, ExportEffect
  <2>3. CASE Files!RouterWrites(b)
    <3>1. backup'[b].pc = backup[b].pc /\ backup[b].pc \in {"wait", "wait rsc"}
      BY <1>1, <2>3, RouterWritesEffect DEF CallMoves
    <3> QED
      BY <1>1, <1>6, <3>1 DEF FilesOf
  <2>4. CASE Files!Wait(b)
    <3>1. \/ backup[b].pc = "wait rsc"
          \/ backup'[b].pc = (IF backup[b].rsc THEN "export" ELSE "fetch")
          \/ backup'[b].pc = "clean"
      BY <1>1, <2>4, WaitEffect DEF CallMoves
    <3> QED
      BY <1>1, <1>6, <3>1 DEF FilesOf
  <2> QED
    BY <2>1, <2>2, <2>3, <2>4
<1>9. FilesOf(b)'
  BY <1>1, <1>2, <1>3, <1>7, <1>8 DEF FilesOf, RestKept, Files!files, Asks
<1> QED
  BY <1>2, <1>5, <1>9, CallBook DEF Runs, Asks, RestKept

\* What a call fetches is its own, as the router's files of its name are.
LEMMA FetchBook ==
    ASSUME TidyInv, BookInv, NEW b \in Backups, Files!FetchMain(b) \/ Files!FetchRsc(b)
    PROVE  BookInv'
<1>1. Shapes /\ BackupOf(b) /\ FilesOf(b)
  BY DEF TidyInv, BookInv
<1> DEFINE main == Files!Main(Name(b))  rsc == Files!Rsc(Name(b))
<1>2. /\ remote' = remote /\ library' = library /\ export' = export /\ delete' = delete
      /\ backup[b].pc \in {"fetch", "fetch rsc"} /\ ~backup[b].good
  BY <1>1 DEF Files!FetchMain, Files!FetchRsc, BackupOf
<1>3. \E file \in {main, rsc}, pc \in {"fetch rsc", "clean"} : Files!Transfer(b, file, pc)
  BY DEF Files!FetchMain, Files!FetchRsc, Name
<1>4. Goes(b) /\ (disk' = disk \/ \E file \in {main, rsc} : \E owner : disk' = Files!Put(disk,
          file, owner))
  <2>1. PICK file \in {main, rsc}, pc \in {"fetch rsc", "clean"} : Files!Transfer(b, file, pc)
    BY <1>3
  <2> HIDE DEF main, rsc
  <2> QED
    BY <1>1, <2>1, TransferEffect DEF CallMoves
<1>5. Elsewhere(Name(b))
  BY <1>2, <1>4 DEF Elsewhere, Files!Put, Files!files
<1>6. /\ Name(b)' = Name(b) /\ Files!Made(b)' = Files!Made(b) /\ backup'[b].rsc = backup[b].rsc
      /\ backup'[b].overwrite = backup[b].overwrite
  BY <1>1, <1>4, MovesKept
<1>7. main # rsc /\ main \in Files!Made(b)
          /\ Files!Made(b) = {main} \cup (IF backup[b].rsc THEN {rsc} ELSE {})
  BY FileNames DEF Files!Made, Name
<1>8. FilesOf(b)'
  <2>1. CASE backup'[b].pc = "clean" /\ ~backup'[b].good
    BY <2>1 DEF FilesOf, Asks
  <2>2. CASE Files!FetchMain(b)
    <3>1. backup[b].pc = "fetch"
      BY <2>2 DEF Files!FetchMain
    <3> DEFINE next == IF backup[b].rsc THEN "fetch rsc" ELSE "clean"
    <3>2. Files!Transfer(b, main, next)
      BY <2>2 DEF Files!FetchMain, Name
    <3>3. CASE /\ main \in DOMAIN remote /\ disk' = Files!Put(disk, main, remote[main])
               /\ CallMoves(b, next, next = "clean")
      <4>1. /\ Files!files' = Files!files \cup {main} /\ disk'[main] = b
            /\ \A x \in Files!files \ {main} : disk'[x] = disk[x]
        BY <1>1, <3>1, <3>3 DEF Files!Put, Files!files, FilesOf
      <4>2. backup'[b].pc = next
        BY <3>3 DEF CallMoves
      <4>3. CASE backup[b].rsc
        <5>1. backup'[b].pc = "fetch rsc"
          BY <4>2, <4>3
        <5> QED
          BY <1>1, <1>2, <1>6, <1>7, <3>1, <4>1, <4>3, <5>1 DEF FilesOf, Holds, Asks
      <4>4. CASE ~backup[b].rsc
        <5>1. backup'[b].pc = "clean"
          BY <4>2, <4>4
        <5> QED
          BY <1>6, <1>7, <4>1, <4>4, <5>1 DEF FilesOf, Holds, Asks
      <4> QED
        BY <4>3, <4>4
    <3> HIDE DEF next
    <3> QED
      BY <1>1, <1>2, <2>1, <3>2, <3>3, TransferEffect DEF CallMoves
  <2>3. CASE Files!FetchRsc(b)
    <3>1. /\ backup[b].pc = "fetch rsc" /\ backup[b].rsc /\ Files!Transfer(b, rsc, "clean")
          /\ main \in Files!files /\ disk[main] = b
      BY <1>1, <2>3 DEF Files!FetchRsc, FilesOf, BackupOf, Holds, Name
    <3>2. CASE /\ rsc \in DOMAIN remote /\ disk' = Files!Put(disk, rsc, remote[rsc])
               /\ CallMoves(b, "clean", "clean" = "clean")
      <4>1. /\ main \in Files!files' /\ disk'[main] = b /\ rsc \in Files!files'
                   /\ disk'[rsc] = b
        BY <1>1, <1>7, <3>1, <3>2 DEF Files!Put, Files!files, FilesOf
      <4>2. backup'[b].pc = "clean"
        BY <3>2 DEF CallMoves
      <4> QED
        BY <1>6, <1>7, <3>1, <4>1, <4>2 DEF FilesOf, Holds, Asks
    <3> QED
      BY <1>1, <1>2, <2>1, <3>1, <3>2, TransferEffect DEF CallMoves
  <2> QED
    BY <2>2, <2>3
<1> QED
  BY <1>2, <1>4, <1>5, <1>8, CallBook DEF Runs, Asks

\* Cleanup touches the router only.
LEMMA CleanBook ==
    ASSUME TidyInv, BookInv, NEW b \in Backups, Files!Clean(b)
    PROVE  BookInv'
<1>1. Shapes /\ BackupOf(b) /\ FilesOf(b)
  BY DEF TidyInv, BookInv
<1>2. /\ backup[b].pc = "clean" /\ RestKept /\ CallMoves(b, "record", backup[b].good)
      /\ \E gone \in SUBSET Files!Made(b) : remote' = Files!Drop(remote, gone)
  <2>1. Files!Made(b) \in SUBSET Files!Made(b)
    OBVIOUS
  <2> QED
    BY <1>1, <2>1, CleanEffect
<1>3. Elsewhere(Name(b))
  <2>1. PICK gone \in SUBSET Files!Made(b) : remote' = Files!Drop(remote, gone)
    BY <1>2
  <2>2. gone \subseteq {Files!Main(Name(b)), Files!Rsc(Name(b))}
    BY FileNames
  <2> QED
    BY <1>2, <2>1, <2>2 DEF Elsewhere, Files!Drop, RestKept, Files!files
<1>4. FilesOf(b)'
  <2>1. Name(b)' = Name(b) /\ Files!Made(b)' = Files!Made(b)
    BY <1>1, <1>2, MovesKept DEF CallMoves
  <2> QED
    BY <1>1, <1>2, <2>1 DEF FilesOf, Holds, CallMoves, RestKept, Files!files, Asks
<1> QED
  BY <1>2, <1>3, <1>4, CallBook DEF Runs, CallMoves, RestKept

\* The new record's files are there; older ones of its name were doomed or shared.
LEMMA RecordBook ==
    ASSUME TidyInv, BookInv, NEW b \in Backups, Files!Record(b)
    PROVE  BookInv'
<1>1. Shapes /\ BackupOf(b) /\ FilesOf(b)
  BY DEF TidyInv, BookInv
<1>2. /\ backup[b].pc = "record" /\ remote' = remote /\ disk' = disk /\ delete' = delete
      /\ Goes(b) /\ backup'[b].pc \in {"done", "unrecorded", "failed"}
  BY <1>1, RecordEffect DEF CallMoves
<1>3. Elsewhere(Name(b))
  BY <1>2 DEF Elsewhere, Files!files
<1>4. FilesOf(b)' /\ ~Runs(b)'
  BY <1>2 DEF FilesOf, Asks, Runs
<1>5. CASE library' = library
  BY <1>2, <1>3, <1>4, <1>5, CallBook DEF Runs
<1>6. CASE /\ backup[b].good /\ library' = Files!Put(library, Files!NextId, [owner |-> b,
                  paths |-> Files!Made(b)])
           /\ backup'[b].pc = "done"
  <2>0. PICK new : new = Files!NextId
    OBVIOUS
  <2>1. /\ new \notin Files!ids /\ Files!ids' = Files!ids \cup {new}
        /\ library'[new].owner = b /\ library'[new].paths = Files!Made(b)
        /\ \A i \in Files!ids : library'[i] = library[i]
    BY <1>1, <1>6, <2>0, NextIdNew DEF Files!Put, Files!ids
  <2>2. /\ \A c \in Backups : Name(c)' = Name(c) /\ Files!Made(c)' = Files!Made(c)
        /\ \A c \in Backups : backup'[c].overwrite = backup[c].overwrite
    BY <1>1, <1>2, MovesKept
  <2>3. \A c \in Backups : Files!Shared(c)' <=> Files!Shared(c)
    BY <2>2 DEF Files!Shared, Name
  <2>4. \A c \in Backups : Runs(c)' => Runs(c) /\ c # b
    BY <1>2, <1>4 DEF Goes, Runs
  <2>5. Runs(b)
    BY <1>2 DEF Runs
  <2>6. \A n : (Files!Doomed(n)' <=> Files!Doomed(n)) /\ (Kept(n)' <=> Kept(n)) /\ (Kept(n) =>
            Files!Doomed(n))
    BY <1>2 DEF Files!Doomed, Kept
  <2>7. AloneInv'
    BY <1>2, <2>2, <2>4 DEF BookInv, AloneInv
  <2>8. DeleteInv'
    BY <1>2, <2>1 DEF BookInv, DeleteInv, Files!files
  <2>9. \A c \in Backups : FilesOf(c)'
    <3>1. \A c \in Backups \ {b} : Name(c) # Name(b) \/ ~Runs(c)
      BY <2>5 DEF BookInv, AloneInv
    <3>2. \A c \in Backups \ {b} : FilesOf(c)'
      BY <1>2, <1>3, <3>1, OthersFiles DEF BookInv, Goes
    <3> QED
      BY <1>4, <3>2
  <2>10. ASSUME NEW i \in Files!ids, NEW o \in Backups, NEW n \in Names, RecordOf(i, o, n)
         PROVE  RecordOf(i, o, n)' /\ o # b
    <3>1. o # b /\ Name(o) = n /\ i # new
      BY <1>2, <2>1, <2>10 DEF RecordOf
    <3>2. n = Name(b) => Kept(n) \/ Files!Shared(o)
      BY <2>5, <2>10 DEF RecordOf
    <3>3. backup'[o] = backup[o]
      BY <1>2, <3>1 DEF Goes
    <3>4. \A file : Holds(o, file)' <=> Holds(o, file)
      BY <1>2 DEF Holds, Files!files
    <3> QED
      BY <2>1, <2>2, <2>3, <2>4, <2>6, <2>10, <3>1, <3>2, <3>3, <3>4 DEF RecordOf
  <2>11. ASSUME NEW n \in Names, n = Name(b)
         PROVE  RecordOf(new, b, n)'
    <3>1. \A file \in Files!Made(b) : Holds(b, file)'
      BY <1>1, <1>2, <1>6 DEF FilesOf, Holds, Files!files
    <3>2. ASSUME NEW j \in Files!ids, NEW p \in Backups, library[j].owner = p
          PROVE  p # b /\ (Name(p) = n => Kept(n) \/ Files!Shared(b))
      <4>1. PICK m \in Names : RecordOf(j, p, m)
        BY <3>2 DEF BookInv, RecordOf
      <4>2. p # b
        BY <2>10, <4>1
      <4> QED
        BY <2>5, <2>11, <4>1, <4>2, SharedBoth DEF RecordOf
    <3>3. \A p \in Backups : Runs(p)' => Name(p) # n
      BY <2>4, <2>5, <2>11 DEF BookInv, AloneInv
    <3> QED
      BY <1>6, <2>1, <2>2, <2>3, <2>6, <2>11, <3>1, <3>2, <3>3 DEF RecordOf
  <2>12. \A i \in Files!ids' : \E o \in Backups, n \in Names : RecordOf(i, o, n)'
    <3>1. Name(b) \in Names
      BY <1>1, <1>2 DEF BackupOf, Name
    <3>2. \E o \in Backups, n \in Names : RecordOf(new, o, n)'
      BY <2>11, <3>1
    <3>3. \A i \in Files!ids : \E o \in Backups, n \in Names : RecordOf(i, o, n)'
      BY <2>10 DEF BookInv
    <3> QED
      BY <2>1, <3>2, <3>3
  <2> QED
    BY <2>7, <2>8, <2>9, <2>12 DEF BookInv
<1> QED
  BY <1>1, <1>5, <1>6, RecordEffect DEF CallMoves

\* A call that begins finds its outputs away, or the records of its name are
\* doomed or shared from then on.
LEMMA BeginBook ==
    ASSUME TidyInv, BookInv, Overlap = FALSE, NEW b \in Backups, NEW n \in Names \cup {Badly},
           NEW rsc \in BOOLEAN, NEW overwrite \in BOOLEAN, Files!Begin(b, n, rsc, overwrite)
    PROVE  BookInv'
<1>1. Shapes /\ BackupOf(b) /\ TidyInv'
  BY BeginTidy DEF TidyInv
<1>2. /\ backup[b].pc = "idle" /\ Files!Alone(n) /\ RestKept /\ remote' = remote
      /\ \A c \in Backups \ {b} : backup'[c] = backup[c]
      /\ backup[b].name = Badly
  <2>1. backup[b].pc = "idle"
    BY <1>1, BeginEffect
  <2> QED
    BY <1>1, <2>1, BeginEffect DEF BackupOf
<1>3. /\ \A m : (Files!Doomed(m)' <=> Files!Doomed(m)) /\ (Kept(m)' <=> Kept(m)) /\ (Kept(m) =>
             Files!Doomed(m))
      /\ \A c \in Backups \ {b} : /\ Name(c)' = Name(c) /\ Files!Made(c)' = Files!Made(c)
                                  /\ (Runs(c)' <=> Runs(c))
      /\ DeleteInv'
  BY <1>2 DEF RestKept, Files!Doomed, Kept, Name, Files!Made, Runs, BookInv, DeleteInv,
     Files!ids, Files!files
<1>4. \A c \in Backups \ {b} : FilesOf(c)'
  BY <1>2, SameFiles DEF BookInv, RestKept
\* What was shared still is: the call had no name.
<1>5. ASSUME NEW o \in Backups, backup[o].pc = "done", Files!Shared(o)
      PROVE  Files!Shared(o)'
  <2>1. PICK c \in Backups \ {o} : backup[c].name = backup[o].name
                                    /\ (backup[o].overwrite \/ backup[c].overwrite)
    BY <1>5 DEF Files!Shared
  <2>2. o # b /\ BackupOf(o)
    BY <1>2, <1>5 DEF TidyInv
  <2>3. c # b
    BY <1>2, <1>5, <2>1, <2>2 DEF BackupOf
  <2> QED
    BY <1>2, <2>1, <2>2, <2>3 DEF Files!Shared
<1>6. CASE backup'[b].pc = "refused"
  <2>1. ~Runs(b)' /\ FilesOf(b)'
    BY <1>6 DEF Runs, Asks, FilesOf
  <2>2. AloneInv'
    BY <1>2, <1>3, <2>1 DEF BookInv, AloneInv, RestKept
  <2>3. ASSUME NEW i \in Files!ids, NEW o \in Backups, NEW m \in Names, RecordOf(i, o, m)
        PROVE  RecordOf(i, o, m)'
    <3>1. o # b /\ backup[o].pc = "done" /\ (Files!Shared(o) => Files!Shared(o)')
      BY <1>2, <1>5, <2>3 DEF RecordOf
    <3>2. \A p \in Backups : library[i].owner = p => Name(p)' = Name(p)
      BY <1>2, <1>3, <3>1, <2>3 DEF RecordOf
    <3>3. \A j \in Files!ids \ {i}, p \in Backups : library[j].owner = p => p # b
      BY <1>2 DEF BookInv, RecordOf
    <3> QED
      BY <1>2, <1>3, <2>1, <2>3, <3>1, <3>3 DEF RecordOf, RestKept, Files!ids, Files!files,
         Holds
  <2> QED
    BY <1>2, <1>3, <1>4, <2>1, <2>2, <2>3 DEF BookInv, RestKept, Files!ids
<1>7. CASE /\ n # Badly /\ (overwrite \/ ~Files!OutputExists(n, rsc))
           /\ backup'[b].pc = "save" /\ backup'[b].name = n
           /\ backup'[b].rsc = rsc /\ backup'[b].overwrite = overwrite
  <2>1. /\ \A c \in Backups \ {b} : Runs(c) => Name(c) # n
        /\ \A d \in Deletes : delete[d].pc = "row" => Files!Main(n) \notin delete[d].paths
    BY <1>2 DEF Files!Alone, Files!Over, Runs, Asks, Name
  <2>2. Name(b)' = n
    BY <1>7 DEF Name
  <2>3. AloneInv'
    BY <1>2, <1>3, <2>1, <2>2 DEF BookInv, AloneInv, RestKept
  <2>4. FilesOf(b)'
    BY <1>2, <1>7 DEF FilesOf, Files!Made, Files!OutputExists, RestKept, Files!files, Asks
  <2>5. ASSUME NEW i \in Files!ids, NEW o \in Backups, NEW m \in Names, RecordOf(i, o, m)
        PROVE  RecordOf(i, o, m)'
    <3>1. o # b /\ backup[o].pc = "done" /\ (Files!Shared(o) => Files!Shared(o)') /\ Name(o) = m
      BY <1>2, <1>5, <2>5 DEF RecordOf
    <3>2. \A j \in Files!ids \ {i}, p \in Backups : library[j].owner = p => p # b
      BY <1>2 DEF BookInv, RecordOf
    <3>3. n = m => Kept(n) \/ Files!Shared(o)'
      <4> SUFFICES ASSUME n = m PROVE Kept(n) \/ Files!Shared(o)'
        OBVIOUS
      <4>1. CASE overwrite
        <5>1. Name(o)' = Name(b)' /\ backup'[b].overwrite
          BY <1>3, <1>7, <2>2, <3>1, <4>1
        <5> QED
          BY <3>1, <5>1 DEF Files!Shared, Name
      <4>2. CASE ~overwrite
        <5>1. Files!Main(n) \notin Files!files /\ Files!Main(n) \in Files!Made(o)
          BY <1>7, <3>1, <4>2, FileNames DEF Files!OutputExists
        <5>2. Files!Doomed(n) \/ Files!Shared(o)
          BY <2>5, <5>1 DEF RecordOf, Holds
        <5>3. Files!Doomed(n) => Kept(n)
          BY <2>1 DEF Files!Doomed, Kept
        <5> QED
          BY <3>1, <5>2, <5>3
      <4> QED
        BY <4>1, <4>2
    <3> QED
      BY <1>2, <1>3, <2>2, <2>5, <3>1, <3>2, <3>3 DEF RecordOf, RestKept, Files!ids,
         Files!files, Holds
  <2> QED
    BY <1>2, <1>3, <1>4, <2>3, <2>4, <2>5 DEF BookInv, RestKept, Files!ids
<1> QED
  BY <1>1, <1>6, <1>7, BeginEffect

\* A delete that begins takes a record no other one has.
LEMMA LoadBook ==
    ASSUME TidyInv, BookInv, Overlap = FALSE, NEW d \in Deletes, NEW i \in Files!ids,
               Files!Load(d, i)
    PROVE  BookInv'
<1>1. Shapes
  BY DEF TidyInv
<1>2. /\ delete[d].pc = "idle" /\ DeleteMoves(d, "files")
      /\ delete'[d].id = i /\ delete'[d].paths = library[i].paths
      /\ \A c \in Deletes : delete[c].pc \in {"files", "row"} => delete[c].id # i
      /\ remote' = remote /\ disk' = disk /\ library' = library /\ backup' = backup
  BY <1>1, LoadEffect
<1>3. \A m : (Files!Doomed(m)' <=> Files!Doomed(m)) /\ (Kept(m)' <=> Kept(m))
  BY <1>2 DEF Files!Doomed, Kept, DeleteMoves
<1>4. AloneInv'
  <2>1. \A c \in Deletes : delete'[c].pc = "row" => c # d /\ delete'[c] = delete[c]
    BY <1>2 DEF DeleteMoves
  <2> QED
    BY <1>2, <2>1 DEF BookInv, AloneInv, Runs, Name
<1>5. DeleteInv'
  BY <1>2 DEF BookInv, DeleteInv, DeleteMoves, Files!ids, Files!files
<1>6. \A c \in Backups : FilesOf(c)'
  BY <1>2, SameFiles DEF BookInv
<1>7. ASSUME NEW j \in Files!ids, NEW o \in Backups, NEW m \in Names, RecordOf(j, o, m)
      PROVE  RecordOf(j, o, m)'
  BY <1>2, <1>3, <1>7, SameCalls DEF RecordOf, Holds, Files!ids, Files!files
<1> QED
  BY <1>2, <1>4, <1>5, <1>6, <1>7 DEF BookInv, Files!ids

\* The files go; every record of their name is doomed.
LEMMA UnlinkBook ==
    ASSUME TidyInv, BookInv, Overlap = FALSE, NEW d \in Deletes, Files!Unlink(d)
    PROVE  BookInv'
<1>1. Shapes
  BY DEF TidyInv
<1>2. /\ delete[d].pc = "files" /\ DeleteKept(d)
      /\ \E file \in delete[d].paths : Files!Alone(file[1])
      /\ remote' = remote /\ library' = library /\ backup' = backup
      /\ \E pc \in {"row", "kept"} : DeleteMoves(d, pc)
      /\ \E gone \in SUBSET delete[d].paths : disk' = disk \/ disk' = Files!Drop(disk, gone)
      /\ delete'[d].pc = "row" => disk' = Files!Drop(disk, delete[d].paths)
  <2>1. delete[d].paths \in SUBSET delete[d].paths /\ {} \in SUBSET delete[d].paths
    OBVIOUS
  <2> QED
    BY <1>1, <2>1, UnlinkEffect DEF DeleteMoves
<1>3. PICK n : /\ Files!Main(n) \in delete[d].paths /\ delete[d].paths \subseteq {Files!Main(n),
                      Files!Rsc(n)}
               /\ \A m : Files!Main(m) \in delete[d].paths => m = n
  <2>1. PathsOf(delete[d].paths)
    BY <1>1, <1>2 DEF Shapes
  <2> QED
    BY <2>1, FileNames
<1>4. \A c \in Backups : Runs(c) => Name(c) # n
  <2>1. Files!Alone(n)
    BY <1>2, <1>3, FileKinds
  <2> QED
    BY <2>1 DEF Files!Alone, Files!Over, Runs, Asks, Name
<1>5. Elsewhere(n) /\ Files!files' \subseteq Files!files
  BY <1>2, <1>3 DEF Elsewhere, Files!Drop, Files!files
<1>6. \A m : (Files!Doomed(m) => Files!Doomed(m)') /\ (Kept(m) => Kept(m)')
  BY <1>2 DEF Files!Doomed, Kept, DeleteMoves
<1>7. Files!Doomed(n)'
  BY <1>2, <1>3 DEF Files!Doomed, DeleteMoves, DeleteKept
<1>8. AloneInv'
  <2>1. \A b \in Backups : (Runs(b)' <=> Runs(b)) /\ Name(b)' = Name(b)
    BY <1>2 DEF Runs, Name
  <2>2. \A b \in Backups : Runs(b) => Files!Main(Name(b)) \notin delete'[d].paths
    BY <1>2, <1>3, <1>4 DEF DeleteKept
  <2>3. \A c \in Deletes \ {d} : delete'[c] = delete[c]
    BY <1>2 DEF DeleteMoves
  <2> QED
    BY <2>1, <2>2, <2>3 DEF BookInv, AloneInv
<1>9. DeleteInv'
  <2>1. delete'[d].pc = "row" => delete'[d].paths \cap Files!files' = {}
    BY <1>2 DEF Files!Drop, Files!files, DeleteKept
  <2> QED
    BY <1>2, <1>5, <2>1 DEF BookInv, DeleteInv, DeleteMoves, DeleteKept, Files!ids
<1>10. \A c \in Backups : FilesOf(c)'
  BY <1>2, <1>4, <1>5, OthersFiles DEF BookInv
<1>11. ASSUME NEW j \in Files!ids, NEW o \in Backups, NEW m \in Names, RecordOf(j, o, m)
       PROVE  RecordOf(j, o, m)'
  <2>1. Files!Doomed(m)' \/ Files!Shared(o) \/ \A file \in Files!Made(o) : Holds(o, file)'
    <3>1. CASE m # n
      <4>1. \A x \in Files!Made(o) : x \notin {Files!Main(n), Files!Rsc(n)}
        BY <1>11, <3>1, FileNames DEF RecordOf
      <4> QED
        BY <1>2, <1>5, <1>6, <1>11, <4>1 DEF RecordOf, Holds, Elsewhere
    <3> QED
      BY <1>7, <3>1
  <2> QED
    BY <1>2, <1>6, <1>11, <2>1, SameCalls DEF RecordOf, Files!ids
<1> QED
  BY <1>2, <1>8, <1>9, <1>10, <1>11 DEF BookInv, Files!ids

\* A row goes: its files went before, and another of its name is doomed or
\* shared for other reasons.
LEMMA DeleteRowBook ==
    ASSUME TidyInv, BookInv, NEW d \in Deletes, Files!DeleteRow(d)
    PROVE  BookInv'
<1>1. Shapes
  BY DEF TidyInv
<1>2. /\ delete[d].pc = "row" /\ DeleteKept(d)
      /\ remote' = remote /\ disk' = disk /\ backup' = backup
      /\ \E pc \in {"deleted", "kept"} : DeleteMoves(d, pc)
  BY <1>1, DeleteRowEffect
<1>3. PICK k \in Files!ids : k = delete[d].id /\ library[k].paths = delete[d].paths
  BY <1>2 DEF BookInv, DeleteInv
<1>4. /\ Files!ids' \in {Files!ids, Files!ids \ {k}} /\ \A i \in Files!ids' :
             library'[i] = library[i]
      /\ delete'[d].pc = "deleted" => k \notin Files!ids'
      /\ delete'[d].pc = "kept" => Files!ids' = Files!ids
  BY <1>1, <1>3, DeleteRowEffect DEF Files!Drop, Files!ids, DeleteMoves
<1>5. \A m : Kept(m) => Kept(m)'
  BY <1>2 DEF Kept, DeleteMoves
<1>6. AloneInv'
  <2>1. \A c \in Deletes : delete'[c].pc = "row" => delete'[c] = delete[c]
    BY <1>2 DEF DeleteMoves
  <2> QED
    BY <1>2, <2>1, SameCalls DEF BookInv, AloneInv
<1>7. DeleteInv'
  <2>1. ASSUME NEW c \in Deletes, delete'[c].pc \in {"files", "row"}
        PROVE  c # d /\ delete'[c] = delete[c] /\ delete[c].id \in Files!ids'
               /\ library'[delete[c].id].paths = delete[c].paths
    <3>1. c # d /\ delete'[c] = delete[c]
      BY <1>2, <2>1 DEF DeleteMoves
    <3>2. delete[c].id \in Files!ids /\ delete[c].id # k
              /\ library[delete[c].id].paths = delete[c].paths
      BY <1>2, <1>3, <2>1, <3>1 DEF BookInv, DeleteInv
    <3> QED
      BY <1>4, <3>1, <3>2
  <2> QED
    BY <1>2, <2>1 DEF BookInv, DeleteInv, Files!files
<1>8. \A c \in Backups : FilesOf(c)'
  BY <1>2, SameFiles DEF BookInv
<1>9. ASSUME NEW j \in Files!ids', NEW o \in Backups, NEW m \in Names, RecordOf(j, o, m)
      PROVE  RecordOf(j, o, m)'
  <2>1. Files!Doomed(m) => Files!Doomed(m)' \/ Files!Shared(o)
    <3>1. CASE delete'[d].pc = "kept"
      BY <1>2, <3>1 DEF Files!Doomed, DeleteMoves, DeleteKept
    <3>2. CASE delete'[d].pc = "deleted" /\ Files!Main(m) \in delete[d].paths
      <4>1. j # k
        BY <1>4, <3>2
      <4>2. PICK p \in Backups, q \in Names : RecordOf(k, p, q)
        BY DEF BookInv
      <4>3. Name(p) = m
        BY <1>3, <3>2, <4>2, FileNames DEF RecordOf
      <4>4. Kept(m) \/ Files!Shared(o)
        BY <1>9, <4>1, <4>2, <4>3 DEF RecordOf
      <4> QED
        BY <1>5, <4>4 DEF Kept, Files!Doomed
    <3>3. CASE Files!Main(m) \notin delete[d].paths
      BY <1>2, <3>3 DEF Files!Doomed, DeleteMoves
    <3> QED
      BY <1>2, <3>1, <3>2, <3>3 DEF DeleteMoves
  <2>2. j \in Files!ids /\ library'[j] = library[j]
    BY <1>4
  <2>3. /\ \A p \in Backups : Name(p)' = Name(p) /\ Files!Made(p)' = Files!Made(p)
        /\ \A p \in Backups : (Runs(p)' <=> Runs(p)) /\ (Files!Shared(p)' <=> Files!Shared(p))
        /\ \A x : Holds(o, x)' <=> Holds(o, x)
    BY <1>2, SameCalls DEF Holds, Files!files
  <2>4. \A i \in Files!ids' \ {j} : i \in Files!ids \ {j} /\ library'[i] = library[i]
    BY <1>4
  <2> QED
    BY <1>2, <1>5, <1>9, <2>1, <2>2, <2>3, <2>4 DEF RecordOf
<1> QED
  BY <1>4, <1>6, <1>7, <1>8, <1>9 DEF BookInv

\* An export writes ciphers only.
LEMMA ExportBook ==
    ASSUME TidyInv, BookInv, NEW e \in Exports,
           (\E n \in Names \cup {Badly} : Files!Read(e, n)) \/ Files!Create(e)
               \/ Files!Encrypt(e)
    PROVE  BookInv'
<1>1. /\ backup' = backup /\ remote' = remote /\ library' = library /\ delete' = delete
      /\ \A x : x[2] # "xml.age" =>
           (x \in Files!files' <=> x \in Files!files) /\ (x \in Files!files =>
               disk'[x] = disk[x])
  BY FileKinds DEF Files!Read, Files!Create, Files!Encrypt, Files!Put, Files!Drop, Files!files
<1>2. \A b \in Backups : \A x \in {Files!Main(Name(b)), Files!Rsc(Name(b))} \cup Files!Made(b) :
        (x \in Files!files' <=> x \in Files!files) /\ (x \in Files!files => disk'[x] = disk[x])
  BY <1>1, FileKinds, FileNames
<1>3. AloneInv'
  BY <1>1 DEF BookInv, AloneInv, Runs, Name
<1>4. DeleteInv'
  <2>1. \A d \in Deletes : delete[d].pc = "row" => delete[d].paths \cap Files!files' = {}
    <3> SUFFICES ASSUME NEW d \in Deletes, delete[d].pc = "row", NEW x \in delete[d].paths
                 PROVE  x \notin Files!files'
      OBVIOUS
    <3>1. x[2] # "xml.age" /\ x \notin Files!files
      BY FileKinds DEF TidyInv, Shapes, BookInv, DeleteInv
    <3> QED
      BY <1>1, <3>1
  <2> QED
    BY <1>1, <2>1 DEF BookInv, DeleteInv, Files!ids
<1>5. ASSUME NEW b \in Backups PROVE FilesOf(b)'
  <2>1. /\ \A x \in {Files!Main(Name(b)), Files!Rsc(Name(b))} \cup Files!Made(b) : Holds(b,
               x)' <=> Holds(b, x)
        /\ Files!Made(b)' = Files!Made(b) /\ Name(b)' = Name(b)
    BY <1>1, <1>2 DEF Holds, Files!Made, Name
  <2>2. Files!Made(b) \cap Files!files = {} => Files!Made(b) \cap Files!files' = {}
    BY <1>2
  <2>3. FilesOf(b)
    BY DEF BookInv
  <2> QED
    BY <1>1, <1>2, <2>1, <2>2, <2>3 DEF FilesOf
<1>6. ASSUME NEW i \in Files!ids, NEW o \in Backups, NEW n \in Names, RecordOf(i, o, n)
      PROVE  RecordOf(i, o, n)'
  <2>1. \A x \in Files!Made(o) : Holds(o, x)' <=> Holds(o, x)
    BY <1>2 DEF Holds
  <2>2. /\ \A p \in Backups : Name(p)' = Name(p) /\ Files!Made(p)' = Files!Made(p)
        /\ \A p \in Backups : (Runs(p)' <=> Runs(p)) /\ (Files!Shared(p)' <=> Files!Shared(p))
    BY <1>1, SameCalls
  <2>3. (Files!Doomed(n)' <=> Files!Doomed(n)) /\ (Kept(n)' <=> Kept(n))
    BY <1>1 DEF Files!Doomed, Kept
  <2> QED
    BY <1>1, <1>6, <2>1, <2>2, <2>3 DEF RecordOf, Files!ids
<1> QED
  BY <1>1, <1>3, <1>4, <1>5, <1>6 DEF BookInv, Files!ids

-----------------------------------------------------------------------------
(* What follows when no two calls meet on the same files.                  *)

\* The invariant of the library.
LEMMA BookStep ==
    ASSUME TidyInv, BookInv, [Files!Next]_(Files!vars), Overlap = FALSE, Late = FALSE
    PROVE  BookInv'
<1>1. CASE UNCHANGED Files!vars
  <2>1. AloneInv' /\ DeleteInv'
    BY <1>1 DEF Files!vars, BookInv, AloneInv, DeleteInv, Runs, Name, Files!ids, Files!files
  <2>2. \A b \in Backups : FilesOf(b)'
    BY <1>1, SameFiles DEF Files!vars, BookInv
  <2>3. \A i \in Files!ids, o \in Backups, n \in Names : RecordOf(i, o, n) => RecordOf(i, o, n)'
    <3>1. /\ \A p \in Backups : Name(p)' = Name(p) /\ Files!Made(p)' = Files!Made(p)
          /\ \A p \in Backups : (Runs(p)' <=> Runs(p)) /\ (Files!Shared(p)' <=> Files!Shared(p))
          /\ \A p \in Backups : \A x : Holds(p, x)' <=> Holds(p, x)
          /\ \A n : (Files!Doomed(n)' <=> Files!Doomed(n)) /\ (Kept(n)' <=> Kept(n))
      BY <1>1 DEF Files!vars, Holds, Runs, Name, Files!Made, Files!Shared, Files!Doomed, Kept,
         Files!files
    <3> QED
      BY <1>1, <3>1 DEF Files!vars, RecordOf, Files!ids
  <2> QED
    BY <1>1, <2>1, <2>2, <2>3 DEF Files!vars, BookInv, Files!ids
<1>2. CASE Files!Next
  BY <1>2, BeginBook, AskBook, FetchBook, CleanBook, RecordBook, LoadBook, UnlinkBook,
     DeleteRowBook, ExportBook DEF Files!Next
<1> QED
  BY <1>1, <1>2

LEMMA BookAlways ==
    ASSUME Overlap = FALSE, Late = FALSE, Badly \notin Backups \cup Exports
    PROVE  Files!Init /\ [][Files!Next]_(Files!vars) => []BookInv
<1>1. Files!Init => BookInv
  <2> SUFFICES ASSUME Files!Init PROVE BookInv
    OBVIOUS
  <2>1. /\ Files!ids = {} /\ \A b \in Backups : backup[b].pc = "idle"
        /\ \A d \in Deletes : delete[d].pc = "idle"
    BY DEF Files!Init, Files!Nothing, Files!ids
  <2> QED
    BY <2>1 DEF BookInv, AloneInv, DeleteInv, FilesOf, Runs, Asks
<1> QED
  BY <1>1, TidyAlways, BookStep, PTL

\* A record's files are on disk and are what its own run fetched, unless a run may
\* overwrite or a delete of its name failed half-way.
THEOREM RecordsWholeHolds ==
    ASSUME Overlap = FALSE, Late = FALSE, Badly \notin Backups \cup Exports
    PROVE  Files!Init /\ [][Files!Next]_(Files!vars) => []Files!RecordsWhole
<1>1. BookInv => Files!RecordsWhole
  <2> SUFFICES ASSUME BookInv, NEW i \in Files!ids
               PROVE  LET b == library[i].owner IN
                        \/ Files!Doomed(backup[b].name)
                        \/ Files!Shared(b)
                        \/ \A file \in library[i].paths : file \in Files!files /\ disk[file] = b
    BY DEF Files!RecordsWhole
  <2>1. PICK o \in Backups, n \in Names : RecordOf(i, o, n)
    BY DEF BookInv
  <2> QED
    BY <2>1 DEF RecordOf, Name, Holds
<1> QED
  BY <1>1, BookAlways, PTL

\* Who changes the library, and who the directory.
LEMMA LibraryWriters ==
    ASSUME [Files!Next]_(Files!vars), library' # library
    PROVE  (\E b \in Backups : Files!Record(b)) \/ \E d \in Deletes : Files!DeleteRow(d)
<1>1. ASSUME NEW b \in Backups, NEW n, NEW rsc, NEW overwrite, Files!Begin(b, n, rsc, overwrite)
       PROVE  FALSE
  BY <1>1 DEF Files!Begin
<1>2. ASSUME NEW b \in Backups, Files!Save(b) PROVE FALSE
  BY <1>2 DEF Files!Save
<1>3. ASSUME NEW b \in Backups, Files!RouterWrites(b) PROVE FALSE
  BY <1>3 DEF Files!RouterWrites
<1>4. ASSUME NEW b \in Backups, Files!Wait(b) PROVE FALSE
  BY <1>4 DEF Files!Wait
<1>5. ASSUME NEW b \in Backups, Files!Export(b) PROVE FALSE
  BY <1>5 DEF Files!Export
<1>6. ASSUME NEW b \in Backups, Files!FetchMain(b) PROVE FALSE
  BY <1>6 DEF Files!FetchMain
<1>7. ASSUME NEW b \in Backups, Files!FetchRsc(b) PROVE FALSE
  BY <1>7 DEF Files!FetchRsc
<1>8. ASSUME NEW b \in Backups, Files!Clean(b) PROVE FALSE
  BY <1>8 DEF Files!Clean
<1>9. ASSUME NEW d \in Deletes, NEW i, Files!Load(d, i) PROVE FALSE
  BY <1>9 DEF Files!Load
<1>10. ASSUME NEW d \in Deletes, Files!Unlink(d) PROVE FALSE
  BY <1>10 DEF Files!Unlink
<1>11. ASSUME NEW e \in Exports, NEW n, Files!Read(e, n) PROVE FALSE
  BY <1>11 DEF Files!Read
<1>12. ASSUME NEW e \in Exports, Files!Create(e) PROVE FALSE
  BY <1>12 DEF Files!Create
<1>13. ASSUME NEW e \in Exports, Files!Encrypt(e) PROVE FALSE
  BY <1>13 DEF Files!Encrypt
<1> QED
  BY <1>1, <1>2, <1>3, <1>4, <1>5, <1>6, <1>7, <1>8, <1>9, <1>10, <1>11, <1>12, <1>13
     DEF Files!Next, Files!vars

LEMMA DiskWriters ==
    ASSUME [Files!Next]_(Files!vars), disk' # disk
    PROVE  \/ \E b \in Backups : Files!FetchMain(b) \/ Files!FetchRsc(b)
           \/ \E d \in Deletes : Files!Unlink(d)
           \/ \E e \in Exports : Files!Create(e) \/ Files!Encrypt(e)
<1>1. ASSUME NEW b \in Backups, NEW n, NEW rsc, NEW overwrite, Files!Begin(b, n, rsc, overwrite)
       PROVE  FALSE
  BY <1>1 DEF Files!Begin
<1>2. ASSUME NEW b \in Backups, Files!Save(b) PROVE FALSE
  BY <1>2 DEF Files!Save
<1>3. ASSUME NEW b \in Backups, Files!RouterWrites(b) PROVE FALSE
  BY <1>3 DEF Files!RouterWrites
<1>4. ASSUME NEW b \in Backups, Files!Wait(b) PROVE FALSE
  BY <1>4 DEF Files!Wait
<1>5. ASSUME NEW b \in Backups, Files!Export(b) PROVE FALSE
  BY <1>5 DEF Files!Export
<1>6. ASSUME NEW b \in Backups, Files!Clean(b) PROVE FALSE
  BY <1>6 DEF Files!Clean
<1>7. ASSUME NEW b \in Backups, Files!Record(b) PROVE FALSE
  BY <1>7 DEF Files!Record
<1>8. ASSUME NEW d \in Deletes, NEW i, Files!Load(d, i) PROVE FALSE
  BY <1>8 DEF Files!Load
<1>9. ASSUME NEW d \in Deletes, Files!DeleteRow(d) PROVE FALSE
  BY <1>9 DEF Files!DeleteRow
<1>10. ASSUME NEW e \in Exports, NEW n, Files!Read(e, n) PROVE FALSE
  BY <1>10 DEF Files!Read
<1> QED
  BY <1>1, <1>2, <1>3, <1>4, <1>5, <1>6, <1>7, <1>8, <1>9, <1>10 DEF Files!Next, Files!vars

\* delete_backup_record: a row goes only after its files.
THEOREM NoFileLostHolds ==
    ASSUME Overlap = FALSE, Late = FALSE, Badly \notin Backups \cup Exports
    PROVE  Files!Init /\ [][Files!Next]_(Files!vars) => Files!NoFileLost
<1>1. TidyInv /\ BookInv /\ [Files!Next]_(Files!vars) =>
        [\A i \in Files!ids \ DOMAIN library' :
            library[i].paths \cap DOMAIN disk' = {}]_(Files!vars)
  <2> SUFFICES ASSUME TidyInv, BookInv, [Files!Next]_(Files!vars),
                          NEW i \in Files!ids \ DOMAIN library'
               PROVE  library[i].paths \cap DOMAIN disk' = {}
    OBVIOUS
  <2>0. Shapes
    BY DEF TidyInv
  <2>1. PICK d \in Deletes : Files!DeleteRow(d)
    <3>1. library' # library
      BY DEF Files!ids
    <3>2. ASSUME NEW b \in Backups, Files!Record(b) PROVE FALSE
      <4>1. DOMAIN Files!Put(library, Files!NextId, [owner |-> b,
                paths |-> Files!Made(b)]) = Files!ids \cup {Files!NextId}
        BY PutProps DEF Files!ids
      <4> QED
        BY <3>1, <3>2, <4>1 DEF Files!Record
    <3> QED
      BY <3>1, <3>2, LibraryWriters
  <2>2. delete[d].pc = "row" /\ disk' = disk /\ i = delete[d].id
    BY <2>0, <2>1, DeleteRowEffect DEF Files!Drop, Files!ids
  <2> QED
    BY <2>2 DEF BookInv, DeleteInv, Files!files
<1> QED
  BY <1>1, TidyAlways, BookAlways, PTL DEF Files!NoFileLost

\* check_output runs before the router is asked and write_output much later; still
\* only a run that may overwrite replaces a file, and no one a whole cipher.
THEOREM NotReplacedHolds ==
    ASSUME Overlap = FALSE, Late = FALSE, Badly \notin Backups \cup Exports
    PROVE  Files!Init /\ [][Files!Next]_(Files!vars) => Files!NotReplaced
<1> DEFINE Kind(file) ==
      IF file[2] = "xml.age" THEN disk[file] = Badly
      ELSE \E b \in Backups : file \in Files!Made(b) /\ backup[b].overwrite
                              /\ backup[b].pc \in {"fetch", "fetch rsc"}
<1>1. ASSUME TidyInv, BookInv, [Files!Next]_(Files!vars),
                 NEW file \in Files!files \cap Files!files',
             disk[file] # disk'[file]
      PROVE  Kind(file)
  <2>0. Shapes /\ CipherInv
    BY <1>1 DEF TidyInv
  <2>1. CASE \E e \in Exports : Files!Create(e) \/ Files!Encrypt(e)
    <3>1. PICK e \in Exports : Files!Create(e) \/ Files!Encrypt(e)
      BY <2>1
    <3>2. file = Files!Age(export[e].name) /\ Files!Encrypt(e)
      BY <1>1, <3>1 DEF Files!Create, Files!Encrypt, Files!Put, Files!Drop, Files!files
    <3>3. disk[file] = Badly
      BY <2>0, <3>2 DEF Files!Encrypt, CipherInv
    <3> QED
      BY <3>2, <3>3, FileKinds
  <2>2. CASE \E b \in Backups : Files!FetchMain(b)
    <3>1. PICK b \in Backups : Files!FetchMain(b)
      BY <2>2
    <3>2. backup[b].pc = "fetch" /\ file = Files!Main(Name(b))
      BY <1>1, <3>1 DEF Files!FetchMain, Files!Transfer, Files!Put, Files!files, Name
    <3>3. file \in Files!Made(b) /\ FilesOf(b)
      BY <1>1, <3>2, FileNames DEF BookInv
    <3>4. backup[b].overwrite
      BY <1>1, <3>2, <3>3 DEF FilesOf, Asks
    <3> QED
      BY <3>2, <3>3, <3>4, FileKinds
  <2>3. CASE \E b \in Backups : Files!FetchRsc(b)
    <3>1. PICK b \in Backups : Files!FetchRsc(b)
      BY <2>3
    <3>2. backup[b].pc = "fetch rsc" /\ file = Files!Rsc(Name(b))
      BY <1>1, <3>1 DEF Files!FetchRsc, Files!Transfer, Files!Put, Files!files, Name
    <3>3. file \in Files!Made(b) /\ FilesOf(b)
      <4>1. backup[b].rsc
        BY <1>1, <3>2 DEF TidyInv, BackupOf
      <4> QED
        BY <1>1, <3>2, <4>1 DEF BookInv, Files!Made, Name
    <3>4. backup[b].overwrite
      BY <1>1, <3>2, <3>3 DEF FilesOf
    <3> QED
      BY <3>2, <3>3, <3>4, FileKinds
  <2>4. CASE \E d \in Deletes : Files!Unlink(d)
    <3>1. PICK d \in Deletes : Files!Unlink(d)
      BY <2>4
    <3>2. disk' = disk \/ \E gone : disk' = Files!Drop(disk, gone)
      BY <2>0, <3>1, UnlinkEffect
    <3>3. ASSUME NEW gone, disk' = Files!Drop(disk, gone) PROVE disk'[file] = disk[file]
      <4>1. file \in DOMAIN disk \cap DOMAIN Files!Drop(disk, gone)
        BY <1>1, <3>3 DEF Files!files
      <4>2. Files!Drop(disk, gone)[file] = disk[file]
        BY <4>1 DEF Files!Drop
      <4> QED
        BY <3>3, <4>2
    <3> QED
      BY <1>1, <3>2, <3>3
  <2>5. CASE disk' = disk
    BY <1>1, <2>5
  <2>6. CASE disk' # disk
    <3> HIDE DEF Kind
    <3> QED
      BY <1>1, <2>1, <2>2, <2>3, <2>4, <2>6, DiskWriters
  <2> QED
    BY <2>5, <2>6
<1>2. TidyInv /\ BookInv /\ [Files!Next]_(Files!vars) =>
        [\A file \in Files!files \cap DOMAIN disk' : disk[file] # disk'[file] =>
            IF file[2] = "xml.age" THEN disk[file] = Badly
            ELSE \E b \in Backups : file \in Files!Made(b) /\ backup[b].overwrite
                                    /\ backup[b].pc \in {"fetch", "fetch rsc"}]_(Files!vars)
  BY <1>1 DEF Files!files
<1> QED
  BY <1>2, TidyAlways, BookAlways, PTL DEF Files!NotReplaced
==============================================================================
