---------------------------- MODULE RoutersProofs ----------------------------
(***************************************************************************)
(* Proofs about Routers: what its runs check of sessions, terminals and    *)
(* backups holds for any number of calls and of failures, any cap and any  *)
(* names.  A step of Routers is a step of one part or leaves it alone      *)
(* (PartSteps), so what is proved of a part holds here.                    *)
(*                                                                         *)
(* A terminal counts twice while open() holds its reservation and its slot *)
(* is filled, so neither the number of slots nor that of reservations      *)
(* bounds the other.  The cap rests on their union (SeatInv).              *)
(***************************************************************************)
EXTENDS Routers, RouterManagersProofs

\* NoKey is no key, there are keys enough for every host to have its own, and
\* the cap is a number.
ShellAssumption ==
    /\ NoKey \notin Keys
    /\ Hosts # {} /\ \E k \in [Hosts -> Keys] : \A g, h \in Hosts : k[g] = k[h] => g = h
    /\ MaxTerminals \in Nat

-----------------------------------------------------------------------------
(* Places and reservations.                                                *)

\* The instances count with the same operator.
LEMMA ShellSize == \A S : Shells!Cardinality(S) = Cardinality(S)
BY DEF Cardinality, Shells!Cardinality

\* One more reservation where there is room for one more.
LEMMA RoomForOne ==
    ASSUME NEW A, NEW S, NEW t, NEW M \in Nat, IsFiniteSet(A), IsFiniteSet(S),
           t \notin S, Cardinality(A) + Cardinality(S) < M
    PROVE  /\ IsFiniteSet(S \cup {t}) /\ Cardinality(S \cup {t}) = Cardinality(S) + 1
           /\ Cardinality(A \cup (S \cup {t})) <= M
<1>1. IsFiniteSet(S \cup {t}) /\ Cardinality(S \cup {t}) = Cardinality(S) + 1
  BY FS_AddElement
<1>2. Cardinality(A) \in Nat /\ Cardinality(S) \in Nat
  BY FS_CardinalityType
<1>3. IsFiniteSet(A \cap (S \cup {t})) /\ Cardinality(A \cap (S \cup {t})) \in Nat
  BY FS_Intersection, FS_CardinalityType
<1>4. Cardinality(A \cup (S \cup {t})) =
        Cardinality(A) + Cardinality(S \cup {t}) - Cardinality(A \cap (S \cup {t}))
  BY <1>1, FS_Union
<1> QED
  BY <1>1, <1>2, <1>3, <1>4

\* A set that does not grow stays within its bound.
LEMMA StillRoom ==
    ASSUME NEW B, NEW C, NEW M \in Nat, IsFiniteSet(B), Cardinality(B) <= M, C \subseteq B
    PROVE  IsFiniteSet(C) /\ Cardinality(C) <= M /\ Cardinality(C) <= Cardinality(B)
<1>1. IsFiniteSet(C) /\ Cardinality(C) <= Cardinality(B)
  BY FS_Subset
<1>2. Cardinality(C) \in Nat /\ Cardinality(B) \in Nat
  BY <1>1, FS_CardinalityType
<1> QED
  BY <1>1, <1>2

-----------------------------------------------------------------------------
(* OPNsense: types.                                                        *)

Fingerprints == Keys \cup {NoKey}

Labels == {"idle", "refused", "connect", "shake", "login", "shell", "mark", "release",
           "give up", "open", "failed"}

TermTypes ==
    [pc : Labels, host : Hosts \cup {NoKey}, pinned : Fingerprints,
     confirmed : Fingerprints, key : Fingerprints, sent : BOOLEAN, up : BOOLEAN,
     reader : {"none", "gated", "reads", "exited"}]

ShellTypeInv ==
    /\ term \in [Terms -> TermTypes]
    /\ shells \subseteq Terms
    /\ profile \in [host : Hosts, pin : Fingerprints]
    /\ edit \in {"none", "clear"}
    /\ serverKey \in [Hosts -> Keys]
    /\ offered \in Fingerprints
    /\ trusted \subseteq Hosts \X Keys

\* The steps of one terminal, and those of the profile and the servers.
ShellMoves(t) == Shells!Open(t) \/ Shells!Step(t) \/ Shells!Drop(t) \/ Shells!Write(t) \/ Shells!Close(t)

LEMMA ShellSteps ==
    ASSUME [Shells!Next]_(Shells!vars)
    PROVE  \/ \E t \in Terms : ShellMoves(t)
           \/ Shells!EditAddress \/ Shells!ClearPin \/ Shells!Forget \/ Shells!Rekey \/ UNCHANGED Shells!vars
  BY DEF Shells!Next, ShellMoves

\* A record that changes some of its fields.
LEMMA TermChanged ==
    ASSUME ShellTypeInv, NEW t \in Terms, NEW u \in TermTypes, term' = [term EXCEPT ![t] = u]
    PROVE  /\ term'[t] = u /\ \A q \in Terms \ {t} : term'[q] = term[q]
           /\ term' \in [Terms -> TermTypes]
<1> HIDE DEF TermTypes
<1> QED
  BY DEF ShellTypeInv

\* The steps of open(), as changes of one record.
LEMMA OpenRecord ==
    ASSUME ShellTypeInv, NEW t \in Terms, Shells!Open(t)
    PROVE  \/ /\ term' = [term EXCEPT ![t] = [term[t] EXCEPT !.pc = "refused"]]
              /\ starting' = starting /\ trusted' = trusted
           \/ \E k \in {NoKey, offered} :
                /\ term' = [term EXCEPT ![t] = [term[t] EXCEPT !.pc = "connect", !.confirmed = k]]
                /\ starting' = starting + 1 /\ ~(Cardinality(shells) + starting >= MaxTerminals)
                /\ trusted' = IF k = NoKey THEN trusted ELSE trusted \cup {<<profile.host, k>>}
<1>1. term \in [Terms -> TermTypes] /\ term[t] \in TermTypes
  BY DEF ShellTypeInv
<1>2. CASE Cardinality(shells) + starting >= MaxTerminals
  BY <1>1, <1>2, ShellSize DEF Shells!Open
<1>3. CASE ~(Cardinality(shells) + starting >= MaxTerminals)
  <2>1. PICK k \in {NoKey, offered} :
          /\ term' = [term EXCEPT ![t].pc = "connect", ![t].confirmed = k]
          /\ starting' = starting + 1
          /\ trusted' = IF k = NoKey THEN trusted ELSE trusted \cup {<<profile.host, k>>}
    BY <1>3, ShellSize DEF Shells!Open
  <2>2. term' = [term EXCEPT ![t] = [term[t] EXCEPT !.pc = "connect", !.confirmed = k]]
    BY <1>1, <2>1
  <2> QED
    BY <1>3, <2>1, <2>2
<1> QED
  BY <1>2, <1>3

LEMMA ShakeRecord ==
    ASSUME ShellTypeInv, NEW t \in Terms, Shells!Shake(t), NEW key, key = serverKey[term[t].host]
    PROVE  \/ /\ term' = [term EXCEPT ![t] = [term[t] EXCEPT !.pc = "login", !.key = key,
                                                            !.sent = TRUE]]
              /\ Shells!Accepts(t, key) /\ offered' = offered
           \/ /\ term' = [term EXCEPT ![t] = [term[t] EXCEPT !.pc = "give up", !.key = key]]
              /\ offered' \in {key, offered}
           \/ /\ term' = [term EXCEPT ![t] = [term[t] EXCEPT !.pc = "give up"]]
              /\ offered' = offered
<1>1. term \in [Terms -> TermTypes] /\ term[t] \in TermTypes
  BY DEF ShellTypeInv
<1>2. CASE /\ Shells!Accepts(t, key) /\ offered' = offered
           /\ term' = [term EXCEPT ![t].pc = "login", ![t].key = key, ![t].sent = TRUE]
  BY <1>1, <1>2
<1>3. CASE /\ term' = [term EXCEPT ![t].pc = "give up", ![t].key = key]
           /\ offered' \in {key, offered}
  BY <1>1, <1>3
<1>4. CASE term' = [term EXCEPT ![t].pc = "give up"] /\ offered' = offered
  BY <1>1, <1>4
<1> QED
  BY <1>2, <1>3, <1>4 DEF Shells!Shake

LEMMA QuietRecord ==
    ASSUME ShellTypeInv, NEW t \in Terms
    PROVE  /\ Shells!ReadProfile(t) =>
                term' = [term EXCEPT ![t] = [term[t] EXCEPT !.pc = "shake", !.host = profile.host,
                                                            !.pinned = profile.pin]]
           /\ Shells!Login(t) =>
                \/ term' = [term EXCEPT ![t] = [term[t] EXCEPT !.pc = "shell"]]
                \/ term' = [term EXCEPT ![t] = [term[t] EXCEPT !.pc = "give up"]]
           /\ Shells!Insert(t) =>
                \/ /\ shells' = shells \cup {t}
                   /\ term' = [term EXCEPT ![t] = [term[t] EXCEPT !.pc = "mark", !.up = TRUE,
                                                                 !.reader = "gated"]]
                \/ /\ shells' = shells
                   /\ term' = [term EXCEPT ![t] = [term[t] EXCEPT !.pc = "give up"]]
           /\ Shells!Mark(t) =>
                term' = [term EXCEPT ![t] = [term[t] EXCEPT !.pc = "release", !.reader = "reads"]]
           /\ Shells!Release(t) =>
                \/ /\ term' = [term EXCEPT ![t] = [term[t] EXCEPT !.pc = "open"]]
                   /\ term[t].pc = "release"
                \/ /\ term' = [term EXCEPT ![t] = [term[t] EXCEPT !.pc = "failed"]]
                   /\ term[t].pc = "give up"
           /\ Shells!Drop(t) => term' = [term EXCEPT ![t] = [term[t] EXCEPT !.up = FALSE]]
           /\ Shells!ReaderEnds(t) =>
                term' = [term EXCEPT ![t] = [term[t] EXCEPT !.reader = "exited"]]
           /\ Shells!Write(t) => term' = [term EXCEPT ![t] = term[t]]
           /\ Shells!Close(t) =>
                term' = [term EXCEPT ![t] = [term[t] EXCEPT !.up = FALSE, !.reader = "exited"]]
<1>1. term \in [Terms -> TermTypes] /\ term[t] \in TermTypes
  BY DEF ShellTypeInv
<1>2. Shells!ReadProfile(t) =>
        term' = [term EXCEPT ![t] = [term[t] EXCEPT !.pc = "shake", !.host = profile.host,
                                                    !.pinned = profile.pin]]
  BY <1>1 DEF Shells!ReadProfile
<1>3. Shells!Login(t) =>
        \/ term' = [term EXCEPT ![t] = [term[t] EXCEPT !.pc = "shell"]]
        \/ term' = [term EXCEPT ![t] = [term[t] EXCEPT !.pc = "give up"]]
  BY <1>1 DEF Shells!Login
<1>4. ASSUME Shells!Insert(t)
      PROVE  \/ /\ shells' = shells \cup {t}
                /\ term' = [term EXCEPT ![t] = [term[t] EXCEPT !.pc = "mark", !.up = TRUE,
                                                              !.reader = "gated"]]
             \/ /\ shells' = shells
                /\ term' = [term EXCEPT ![t] = [term[t] EXCEPT !.pc = "give up"]]
  BY <1>1, <1>4 DEF Shells!Insert
<1>5. Shells!Mark(t) =>
        term' = [term EXCEPT ![t] = [term[t] EXCEPT !.pc = "release", !.reader = "reads"]]
  BY <1>1 DEF Shells!Mark
<1>6. ASSUME Shells!Release(t)
      PROVE  \/ /\ term' = [term EXCEPT ![t] = [term[t] EXCEPT !.pc = "open"]]
                /\ term[t].pc = "release"
             \/ /\ term' = [term EXCEPT ![t] = [term[t] EXCEPT !.pc = "failed"]]
                /\ term[t].pc = "give up"
  <2>1. CASE term[t].pc = "release"
    BY <1>1, <1>6, <2>1 DEF Shells!Release
  <2>2. CASE term[t].pc = "give up"
    BY <1>1, <1>6, <2>2 DEF Shells!Release
  <2> QED
    BY <1>6, <2>1, <2>2 DEF Shells!Release
<1>7. Shells!Drop(t) => term' = [term EXCEPT ![t] = [term[t] EXCEPT !.up = FALSE]]
  BY <1>1 DEF Shells!Drop
<1>8. Shells!ReaderEnds(t) => term' = [term EXCEPT ![t] = [term[t] EXCEPT !.reader = "exited"]]
  BY <1>1 DEF Shells!ReaderEnds
<1>9. Shells!Write(t) => term' = [term EXCEPT ![t] = term[t]]
  BY <1>1 DEF Shells!Write
<1>10. Shells!Close(t) =>
         term' = [term EXCEPT ![t] = [term[t] EXCEPT !.up = FALSE, !.reader = "exited"]]
  BY <1>1 DEF Shells!Close
<1> QED
  BY <1>2, <1>3, <1>4, <1>5, <1>6, <1>7, <1>8, <1>9, <1>10
\* Types are kept, and a step of a terminal changes no other.
LEMMA TermStep ==
    ASSUME ShellTypeInv, ShellAssumption, NEW t \in Terms, ShellMoves(t),
           term[t].pc = "shake" => term[t].host \in Hosts
    PROVE  /\ term' \in [Terms -> TermTypes] /\ \A q \in Terms \ {t} : term'[q] = term[q]
           /\ \E u \in TermTypes : term' = [term EXCEPT ![t] = u]
<1>1. /\ term[t] \in TermTypes /\ offered \in Fingerprints
      /\ profile.host \in Hosts /\ profile.pin \in Fingerprints /\ NoKey \in Fingerprints
  BY SMTT(30) DEF ShellTypeInv, Fingerprints
<1>2. \E u \in TermTypes : term' = [term EXCEPT ![t] = u]
  <2>1. CASE Shells!Open(t)
    <3>1. CASE term' = [term EXCEPT ![t] = [term[t] EXCEPT !.pc = "refused"]]
      <4>1. [term[t] EXCEPT !.pc = "refused"] \in TermTypes
        BY <1>1 DEF TermTypes, Labels
      <4> QED
        BY <3>1, <4>1
    <3>2. ASSUME NEW k \in {NoKey, offered},
                 term' = [term EXCEPT ![t] = [term[t] EXCEPT !.pc = "connect", !.confirmed = k]]
          PROVE  \E u \in TermTypes : term' = [term EXCEPT ![t] = u]
      <4>1. [term[t] EXCEPT !.pc = "connect", !.confirmed = k] \in TermTypes
        BY <1>1, ZenonT(40) DEF TermTypes, Labels
      <4> QED
        BY <3>2, <4>1
    <3> QED
      BY <2>1, <3>1, <3>2, OpenRecord
  <2>2. CASE Shells!Shake(t)
    <3> DEFINE key == serverKey[term[t].host]
    <3>1. key \in Fingerprints
      BY <2>2 DEF ShellTypeInv, Fingerprints, Shells!Shake
    <3> HIDE DEF key
    <3>2. /\ [term[t] EXCEPT !.pc = "login", !.key = key, !.sent = TRUE] \in TermTypes
          /\ [term[t] EXCEPT !.pc = "give up", !.key = key] \in TermTypes
          /\ [term[t] EXCEPT !.pc = "give up"] \in TermTypes
      BY <1>1, <3>1 DEF TermTypes, Labels
    <3> QED
      BY <2>2, <3>2, ShakeRecord DEF key
  <2>3. /\ [term[t] EXCEPT !.pc = "shake", !.host = profile.host, !.pinned = profile.pin]
             \in TermTypes
        /\ [term[t] EXCEPT !.pc = "shell"] \in TermTypes
        /\ [term[t] EXCEPT !.pc = "give up"] \in TermTypes
        /\ [term[t] EXCEPT !.pc = "mark", !.up = TRUE, !.reader = "gated"] \in TermTypes
        /\ [term[t] EXCEPT !.pc = "release", !.reader = "reads"] \in TermTypes
        /\ [term[t] EXCEPT !.pc = "open"] \in TermTypes
        /\ [term[t] EXCEPT !.pc = "failed"] \in TermTypes
        /\ [term[t] EXCEPT !.up = FALSE] \in TermTypes
        /\ [term[t] EXCEPT !.reader = "exited"] \in TermTypes
        /\ [term[t] EXCEPT !.up = FALSE, !.reader = "exited"] \in TermTypes
    BY <1>1, ZenonT(40) DEF TermTypes, Labels
  <2> QED
    BY <1>1, <2>1, <2>2, <2>3, QuietRecord DEF ShellMoves, Shells!Step
<1> QED
  BY <1>2, TermChanged

-----------------------------------------------------------------------------
(* OPNsense: places, reservations and marks.                               *)

\* Where a step takes an open() and its reader.
LEMMA ControlOf ==
    ASSUME ShellTypeInv, NEW t \in Terms
    PROVE  /\ Shells!Open(t) =>
                /\ term[t].pc = "idle" /\ term'[t].reader = term[t].reader
                /\ shells' = shells /\ marks' = marks
                /\ \/ term'[t].pc = "refused" /\ starting' = starting
                   \/ /\ term'[t].pc = "connect" /\ starting' = starting + 1
                      /\ ~(Cardinality(shells) + starting >= MaxTerminals)
           /\ Shells!ReadProfile(t) \/ Shells!Shake(t) \/ Shells!Login(t) =>
                /\ term[t].pc \in {"connect", "shake", "login"}
                /\ term'[t].pc \in {"shake", "login", "shell", "give up"}
                /\ term'[t].reader = term[t].reader
                /\ shells' = shells /\ marks' = marks /\ starting' = starting
           /\ Shells!Insert(t) =>
                /\ term[t].pc = "shell" /\ starting' = starting /\ marks' = marks
                /\ \/ /\ term'[t].pc = "mark" /\ term'[t].reader = "gated"
                      /\ shells' = shells \cup {t}
                   \/ /\ term'[t].pc = "give up" /\ term'[t].reader = term[t].reader
                      /\ shells' = shells
           /\ Shells!Mark(t) =>
                /\ term[t].pc = "mark" /\ term'[t].pc = "release" /\ term'[t].reader = "reads"
                /\ shells' = shells /\ marks' = marks + 1 /\ starting' = starting
           /\ Shells!Release(t) =>
                /\ \/ term[t].pc = "release" /\ term'[t].pc = "open"
                   \/ term[t].pc = "give up" /\ term'[t].pc = "failed"
                /\ term'[t].reader = term[t].reader
                /\ shells' = shells /\ marks' = marks /\ starting' = starting - 1
           /\ Shells!Drop(t) =>
                /\ term'[t].pc = term[t].pc /\ term'[t].reader = term[t].reader
                /\ shells' = shells /\ marks' = marks /\ starting' = starting
           /\ Shells!ReaderEnds(t) =>
                /\ term[t].reader = "reads" /\ term'[t].reader = "exited"
                /\ term'[t].pc = term[t].pc /\ Shells!RemoveSlot(t) /\ starting' = starting
           /\ Shells!Write(t) =>
                /\ term[t].pc = "open" /\ term' = term /\ Shells!RemoveSlot(t) /\ starting' = starting
           /\ Shells!Close(t) =>
                /\ term[t].pc = "open" /\ term'[t].pc = "open" /\ term'[t].reader = "exited"
                /\ Shells!RemoveSlot(t) /\ starting' = starting
<1>1. term \in [Terms -> TermTypes] /\ term[t] \in TermTypes
  BY DEF ShellTypeInv
<1>2. ASSUME Shells!Open(t)
      PROVE  /\ term[t].pc = "idle" /\ term'[t].reader = term[t].reader
             /\ shells' = shells /\ marks' = marks
             /\ \/ term'[t].pc = "refused" /\ starting' = starting
                \/ /\ term'[t].pc = "connect" /\ starting' = starting + 1
                   /\ ~(Cardinality(shells) + starting >= MaxTerminals)
  <2>1. term[t].pc = "idle" /\ shells' = shells /\ marks' = marks
    BY <1>2 DEF Shells!Open
  <2>2. CASE /\ term' = [term EXCEPT ![t] = [term[t] EXCEPT !.pc = "refused"]]
             /\ starting' = starting
    BY <1>1, <2>1, <2>2 DEF TermTypes
  <2>3. ASSUME NEW k,
               term' = [term EXCEPT ![t] = [term[t] EXCEPT !.pc = "connect", !.confirmed = k]]
        PROVE  term'[t].pc = "connect" /\ term'[t].reader = term[t].reader
    BY <1>1, <2>3 DEF TermTypes
  <2> QED
    BY <1>2, <2>1, <2>2, <2>3, OpenRecord
<1>3. ASSUME Shells!ReadProfile(t) \/ Shells!Shake(t) \/ Shells!Login(t)
      PROVE  /\ term[t].pc \in {"connect", "shake", "login"}
             /\ term'[t].pc \in {"shake", "login", "shell", "give up"}
             /\ term'[t].reader = term[t].reader
             /\ shells' = shells /\ marks' = marks /\ starting' = starting
  <2>1. /\ term[t].pc \in {"connect", "shake", "login"}
        /\ shells' = shells /\ marks' = marks /\ starting' = starting
    BY <1>3 DEF Shells!ReadProfile, Shells!Shake, Shells!Login, Shells!slots
  <2>2. CASE Shells!ReadProfile(t)
    <3>1. term' = [term EXCEPT ![t] = [term[t] EXCEPT !.pc = "shake", !.host = profile.host,
                                                      !.pinned = profile.pin]]
      BY <2>2, QuietRecord
    <3> QED
      BY <1>1, <2>1, <3>1 DEF TermTypes
  <2>3. CASE Shells!Login(t)
    <3>1. \/ term' = [term EXCEPT ![t] = [term[t] EXCEPT !.pc = "shell"]]
          \/ term' = [term EXCEPT ![t] = [term[t] EXCEPT !.pc = "give up"]]
      BY <2>3, QuietRecord
    <3> QED
      BY <1>1, <2>1, <3>1, ZenonT(40) DEF TermTypes
  <2>4. CASE Shells!Shake(t)
    <3> DEFINE key == serverKey[term[t].host]
    <3>1. \/ term' = [term EXCEPT ![t] = [term[t] EXCEPT !.pc = "login", !.key = key, !.sent = TRUE]]
          \/ term' = [term EXCEPT ![t] = [term[t] EXCEPT !.pc = "give up", !.key = key]]
          \/ term' = [term EXCEPT ![t] = [term[t] EXCEPT !.pc = "give up"]]
      BY <2>4, ShakeRecord
    <3> HIDE DEF key
    <3>2. CASE term' = [term EXCEPT ![t] = [term[t] EXCEPT !.pc = "login", !.key = key,
                                                          !.sent = TRUE]]
      BY <1>1, <2>1, <3>2 DEF TermTypes
    <3>3. CASE term' = [term EXCEPT ![t] = [term[t] EXCEPT !.pc = "give up", !.key = key]]
      BY <1>1, <2>1, <3>3 DEF TermTypes
    <3>4. CASE term' = [term EXCEPT ![t] = [term[t] EXCEPT !.pc = "give up"]]
      BY <1>1, <2>1, <3>4, ZenonT(40) DEF TermTypes
    <3> QED
      BY <3>1, <3>2, <3>3, <3>4
  <2> QED
    BY <1>3, <2>2, <2>3, <2>4
<1>4. ASSUME Shells!Insert(t)
      PROVE  /\ term[t].pc = "shell" /\ starting' = starting /\ marks' = marks
             /\ \/ /\ term'[t].pc = "mark" /\ term'[t].reader = "gated"
                   /\ shells' = shells \cup {t}
                \/ /\ term'[t].pc = "give up" /\ term'[t].reader = term[t].reader
                   /\ shells' = shells
  <2>1. term[t].pc = "shell" /\ starting' = starting /\ marks' = marks
    BY <1>4 DEF Shells!Insert
  <2>2. CASE /\ shells' = shells \cup {t}
             /\ term' = [term EXCEPT ![t] = [term[t] EXCEPT !.pc = "mark", !.up = TRUE,
                                                           !.reader = "gated"]]
    BY <1>1, <2>1, <2>2 DEF TermTypes
  <2>3. CASE /\ shells' = shells
             /\ term' = [term EXCEPT ![t] = [term[t] EXCEPT !.pc = "give up"]]
    BY <1>1, <2>1, <2>3 DEF TermTypes
  <2> QED
    BY <1>4, <2>2, <2>3, QuietRecord
<1>5. Shells!Mark(t) =>
        /\ term[t].pc = "mark" /\ term'[t].pc = "release" /\ term'[t].reader = "reads"
        /\ shells' = shells /\ marks' = marks + 1 /\ starting' = starting
  BY <1>1 DEF Shells!Mark, TermTypes
<1>6. ASSUME Shells!Release(t)
      PROVE  /\ \/ term[t].pc = "release" /\ term'[t].pc = "open"
                \/ term[t].pc = "give up" /\ term'[t].pc = "failed"
             /\ term'[t].reader = term[t].reader
             /\ shells' = shells /\ marks' = marks /\ starting' = starting - 1
  BY <1>1, <1>6 DEF Shells!Release, TermTypes
<1>7. Shells!Drop(t) =>
        /\ term'[t].pc = term[t].pc /\ term'[t].reader = term[t].reader
        /\ shells' = shells /\ marks' = marks /\ starting' = starting
  BY <1>1 DEF Shells!Drop, TermTypes, Shells!slots
<1>8. Shells!ReaderEnds(t) =>
        /\ term[t].reader = "reads" /\ term'[t].reader = "exited"
        /\ term'[t].pc = term[t].pc /\ Shells!RemoveSlot(t) /\ starting' = starting
  BY <1>1 DEF Shells!ReaderEnds, TermTypes
<1>9. Shells!Write(t) =>
        /\ term[t].pc = "open" /\ term' = term /\ Shells!RemoveSlot(t) /\ starting' = starting
  BY DEF Shells!Write
<1>10. Shells!Close(t) =>
         /\ term[t].pc = "open" /\ term'[t].pc = "open" /\ term'[t].reader = "exited"
         /\ Shells!RemoveSlot(t) /\ starting' = starting
  BY <1>1 DEF Shells!Close, TermTypes
<1> QED
  BY <1>2, <1>3, <1>4, <1>5, <1>6, <1>7, <1>8, <1>9, <1>10

-----------------------------------------------------------------------------
(* OPNsense: places, marks and trust.                                      *)

\* open() calls that are under way.
Seats == {t \in Terms : Shells!Opening(t)}

\* A reservation for every open() that is under way, and room for all of them
\* and all slots.
SeatInv ==
    /\ IsFiniteSet(shells) /\ IsFiniteSet(Seats)
    /\ starting = Cardinality(Seats)
    /\ Cardinality(shells \cup Seats) <= MaxTerminals

\* Before its slot is filled a terminal has no reader; the gate opens when its
\* mark is made, so nothing can take the slot away before.
ReaderOf(t) ==
    /\ ~(term[t].pc \in {"mark", "release", "open"}) =>
         t \notin shells /\ term[t].reader = "none"
    /\ term[t].pc = "mark" => t \in shells /\ term[t].reader = "gated"

\* Terminals that have a slot and their mark.
Marked == {t \in shells : term[t].pc \in {"release", "open"}}

MarkInv == (\A t \in Terms : ReaderOf(t)) /\ marks = Cardinality(Marked)

\* What becomes of the reservations when one open() moves on.
LEMMA SeatsMove ==
    ASSUME NEW t \in Terms, \A q \in Terms \ {t} : term'[q] = term[q]
    PROVE  /\ (Shells!Opening(t)' <=> Shells!Opening(t)) => Seats' = Seats
           /\ ~Shells!Opening(t) /\ Shells!Opening(t)' => Seats' = Seats \cup {t} /\ t \notin Seats
           /\ Shells!Opening(t) /\ ~Shells!Opening(t)' => Seats' = Seats \ {t} /\ t \in Seats
<1>1. \A q \in Terms \ {t} : Shells!Opening(q)' <=> Shells!Opening(q)
  BY DEF Shells!Opening
<1> QED
  BY <1>1 DEF Seats

LEMMA SeatStep ==
    ASSUME ShellTypeInv, ShellAssumption, SeatInv, NEW t \in Terms, ShellMoves(t),
           \A q \in Terms \ {t} : term'[q] = term[q]
    PROVE  SeatInv'
<1>1. /\ IsFiniteSet(shells) /\ IsFiniteSet(Seats) /\ starting = Cardinality(Seats)
      /\ Cardinality(shells \cup Seats) <= MaxTerminals /\ MaxTerminals \in Nat
      /\ IsFiniteSet(shells \cup Seats) /\ starting \in Nat /\ Cardinality(shells) \in Nat
  BY FS_Union, FS_CardinalityType DEF SeatInv, ShellAssumption
\* But for a new reservation, the two sets together do not grow.
<1>2. ASSUME shells' \cup Seats' \subseteq shells \cup Seats, starting' = Cardinality(Seats')
      PROVE  SeatInv'
  <2>1. /\ IsFiniteSet(shells' \cup Seats')
        /\ Cardinality(shells' \cup Seats') <= MaxTerminals
    BY <1>1, <1>2, StillRoom
  <2>2. IsFiniteSet(shells') /\ IsFiniteSet(Seats')
    BY <2>1, FS_Subset
  <2> QED
    BY <1>2, <2>1, <2>2 DEF SeatInv
<1>3. CASE Shells!Open(t)
  <2>1. CASE term'[t].pc = "refused" /\ starting' = starting
    <3>1. Seats' = Seats /\ shells' = shells
      BY <1>3, <2>1, ControlOf, SeatsMove DEF Shells!Opening
    <3> QED
      BY <1>1, <1>2, <2>1, <3>1
  <2>2. CASE /\ term'[t].pc = "connect" /\ starting' = starting + 1
             /\ ~(Cardinality(shells) + starting >= MaxTerminals)
    <3>1. Seats' = Seats \cup {t} /\ t \notin Seats /\ shells' = shells
      BY <1>3, <2>2, ControlOf, SeatsMove DEF Shells!Opening
    <3>2. Cardinality(shells) + Cardinality(Seats) < MaxTerminals
      BY <1>1, <2>2
    <3>3. /\ IsFiniteSet(Seats \cup {t}) /\ Cardinality(Seats \cup {t}) = Cardinality(Seats) + 1
          /\ Cardinality(shells \cup (Seats \cup {t})) <= MaxTerminals
      <4> HIDE DEF Seats
      <4> QED
        BY <1>1, <3>1, <3>2, RoomForOne
    <3> QED
      BY <1>1, <2>2, <3>1, <3>3 DEF SeatInv
  <2> QED
    BY <1>3, <2>1, <2>2, ControlOf
<1>4. CASE Shells!ReadProfile(t) \/ Shells!Shake(t) \/ Shells!Login(t)
  <2>1. Seats' = Seats /\ shells' = shells /\ starting' = starting
    BY <1>4, ControlOf, SeatsMove DEF Shells!Opening
  <2> QED
    BY <1>1, <1>2, <2>1
<1>5. CASE Shells!Insert(t)
  <2>1. Seats' = Seats /\ shells' \subseteq shells \cup {t} /\ starting' = starting /\ t \in Seats
    BY <1>5, ControlOf, SeatsMove DEF Shells!Opening, Seats
  <2> QED
    BY <1>1, <1>2, <2>1
<1>6. CASE Shells!Mark(t)
  <2>1. Seats' = Seats /\ shells' = shells /\ starting' = starting
    BY <1>6, ControlOf, SeatsMove DEF Shells!Opening
  <2> QED
    BY <1>1, <1>2, <2>1
<1>7. CASE Shells!Release(t)
  <2>1. /\ Seats' = Seats \ {t} /\ t \in Seats /\ shells' = shells /\ starting' = starting - 1
    BY <1>7, ControlOf, SeatsMove DEF Shells!Opening
  <2>2. Cardinality(Seats') = Cardinality(Seats) - 1
    BY <1>1, <2>1, FS_RemoveElement
  <2> QED
    BY <1>1, <1>2, <2>1, <2>2
<1>8. CASE Shells!Drop(t) \/ Shells!ReaderEnds(t) \/ Shells!Write(t) \/ Shells!Close(t)
  <2>1. Seats' = Seats
    BY <1>8, ControlOf, SeatsMove DEF Shells!Opening
  <2>2. shells' \subseteq shells /\ starting' = starting
    BY <1>8, ControlOf DEF Shells!RemoveSlot
  <2> QED
    BY <1>1, <1>2, <2>1, <2>2
<1> QED
  BY <1>3, <1>4, <1>5, <1>6, <1>7, <1>8 DEF ShellMoves, Shells!Step
\* A step that leaves the slots of the others alone leaves their marks alone.
LEMMA MarkedMove ==
    ASSUME NEW t \in Terms, \A q \in Terms \ {t} : term'[q] = term[q],
           shells \subseteq Terms, shells' \ {t} = shells \ {t}
    PROVE  /\ (t \in Marked' <=> t \in Marked) => Marked' = Marked
           /\ t \notin Marked /\ t \in Marked' => Marked' = Marked \cup {t}
           /\ t \in Marked /\ t \notin Marked' => Marked' = Marked \ {t}
<1>1. \A q : q # t => (q \in shells' <=> q \in shells)
  OBVIOUS
<1>2. \A q : q # t => (q \in Marked' <=> q \in Marked)
  BY <1>1 DEF Marked
<1> QED
  BY <1>2

\* remove() takes slot and mark of a terminal that has them, and nothing of one
\* that lost them before.
LEMMA TermRemoved ==
    ASSUME ShellTypeInv, MarkInv, IsFiniteSet(shells), NEW t \in Terms, Shells!RemoveSlot(t),
           \A q \in Terms \ {t} : term'[q] = term[q], term[t].pc \in {"release", "open"}
    PROVE  marks' = Cardinality(Marked')
<1>1. /\ shells' \ {t} = shells \ {t} /\ shells \subseteq Terms
      /\ t \notin Marked' /\ (t \in Marked <=> t \in shells)
  BY DEF Shells!RemoveSlot, Marked, ShellTypeInv
<1>2. IsFiniteSet(Marked) /\ marks = Cardinality(Marked) /\ Cardinality(Marked) \in Nat
  BY FS_Subset, FS_CardinalityType DEF Marked, MarkInv
<1>3. CASE t \in shells
  <2>1. Marked' = Marked \ {t} /\ t \in Marked
    BY <1>1, <1>3, MarkedMove
  <2>2. Cardinality(Marked') = Cardinality(Marked) - 1 /\ Cardinality(Marked) > 0
    <3>1. Cardinality(Marked \ {t}) = Cardinality(Marked) - 1 /\ IsFiniteSet(Marked \ {t})
      BY <1>2, <2>1, FS_RemoveElement
    <3>2. Cardinality(Marked \ {t}) \in Nat
      BY <3>1, FS_CardinalityType
    <3> QED
      BY <1>2, <2>1, <3>1, <3>2
  <2> QED
    BY <1>2, <1>3, <2>2 DEF Shells!RemoveSlot
<1>4. CASE t \notin shells
  <2>1. Marked' = Marked
    BY <1>1, <1>4, MarkedMove
  <2> QED
    BY <1>2, <1>4, <2>1 DEF Shells!RemoveSlot
<1> QED
  BY <1>3, <1>4

LEMMA MarkStep ==
    ASSUME ShellTypeInv, MarkInv, IsFiniteSet(shells), NEW t \in Terms, ShellMoves(t),
           \A q \in Terms \ {t} : term'[q] = term[q]
    PROVE  MarkInv'
<1>1. /\ ReaderOf(t) /\ IsFiniteSet(Marked) /\ marks = Cardinality(Marked) /\ marks \in Nat
      /\ shells \subseteq Terms
  BY FS_Subset, FS_CardinalityType DEF Marked, MarkInv, ShellTypeInv
<1>2. shells' \ {t} = shells \ {t}
  BY ControlOf DEF ShellMoves, Shells!Step, Shells!RemoveSlot
<1>3. \A q \in Terms \ {t} : ReaderOf(q)'
  BY <1>2 DEF MarkInv, ReaderOf
<1>4. CASE Shells!Open(t) \/ Shells!ReadProfile(t) \/ Shells!Shake(t) \/ Shells!Login(t)
  <2>1. /\ ~(term[t].pc \in {"mark", "release", "open"})
        /\ ~(term'[t].pc \in {"mark", "release", "open"})
        /\ shells' = shells /\ term'[t].reader = term[t].reader /\ marks' = marks
    BY <1>4, ControlOf
  <2>2. Marked' = Marked
    BY <1>1, <1>2, <2>1, MarkedMove DEF Marked
  <2> QED
    BY <1>1, <1>3, <2>1, <2>2 DEF MarkInv, ReaderOf
<1>5. CASE Shells!Insert(t)
  <2>1. ReaderOf(t)'
    BY <1>1, <1>5, ControlOf DEF ReaderOf
  <2>2. t \notin Marked /\ t \notin Marked' /\ marks' = marks
    BY <1>5, ControlOf DEF Marked
  <2>3. Marked' = Marked
    BY <1>1, <1>2, <2>2, MarkedMove
  <2> QED
    BY <1>1, <1>3, <2>1, <2>2, <2>3 DEF MarkInv
<1>6. CASE Shells!Mark(t)
  <2>1. ReaderOf(t)'
    BY <1>1, <1>6, ControlOf DEF ReaderOf
  <2>2. t \notin Marked /\ t \in Marked' /\ marks' = marks + 1
    BY <1>1, <1>6, ControlOf DEF Marked, ReaderOf
  <2>3. Marked' = Marked \cup {t}
    BY <1>1, <1>2, <2>2, MarkedMove
  <2>4. Cardinality(Marked') = Cardinality(Marked) + 1
    BY <1>1, <2>2, <2>3, FS_AddElement
  <2> QED
    BY <1>1, <1>3, <2>1, <2>2, <2>4 DEF MarkInv
<1>7. CASE Shells!Release(t)
  <2>1. ReaderOf(t)'
    BY <1>1, <1>7, ControlOf DEF ReaderOf
  <2>2. (t \in Marked' <=> t \in Marked) /\ marks' = marks
    BY <1>1, <1>7, ControlOf DEF Marked, ReaderOf
  <2>3. Marked' = Marked
    BY <1>1, <1>2, <2>2, MarkedMove
  <2> QED
    BY <1>1, <1>3, <2>1, <2>2, <2>3 DEF MarkInv
<1>8. CASE Shells!Drop(t)
  <2>1. /\ term'[t].pc = term[t].pc /\ term'[t].reader = term[t].reader
        /\ shells' = shells /\ marks' = marks
    BY <1>8, ControlOf
  <2>2. Marked' = Marked
    BY <1>1, <1>2, <2>1, MarkedMove DEF Marked
  <2> QED
    BY <1>1, <1>3, <2>1, <2>2 DEF MarkInv, ReaderOf
<1>9. CASE Shells!ReaderEnds(t) \/ Shells!Write(t) \/ Shells!Close(t)
  <2>1. term[t].pc \in {"release", "open"} /\ term'[t].pc = term[t].pc /\ Shells!RemoveSlot(t)
    <3>1. term[t].pc \in {"mark", "release", "open"} /\ term[t].pc # "mark"
      BY <1>1, <1>9, ControlOf DEF ReaderOf
    <3> QED
      BY <1>9, <3>1, ControlOf
  <2>2. ReaderOf(t)'
    BY <2>1 DEF ReaderOf
  <2>3. marks' = Cardinality(Marked')
    BY <2>1, TermRemoved
  <2> QED
    BY <1>3, <2>2, <2>3 DEF MarkInv
<1> QED
  BY <1>4, <1>5, <1>6, <1>7, <1>8, <1>9 DEF ShellMoves, Shells!Step
-----------------------------------------------------------------------------
(* OPNsense: keys.                                                         *)

\* A key the user confirmed for some address.
Known(k) == \E h \in Hosts : <<h, k>> \in trusted

\* What an open() believes is a key that was confirmed once, and a password
\* leaves only to what it believes.
TrustOf(t) ==
    /\ term[t].pinned # NoKey => Known(term[t].pinned)
    /\ term[t].confirmed # NoKey => Known(term[t].confirmed)
    /\ term[t].sent => term[t].key # NoKey /\ Shells!Accepts(t, term[t].key)
    /\ term[t].pc = "login" => term[t].sent
    /\ term[t].pc \in {"idle", "connect", "shake"} => ~term[t].sent
    /\ term[t].pc = "shake" => term[t].host \in Hosts

TrustInv ==
    /\ \A t \in Terms : TrustOf(t)
    /\ profile.pin # NoKey => Known(profile.pin)

\* What the user confirmed for an open() that is under way is the key of the
\* address the profile has.
AddressInv ==
    /\ \A t \in Terms : Shells!Opening(t) /\ term[t].confirmed # NoKey =>
         <<profile.host, term[t].confirmed>> \in trusted
    /\ Shells!PinIsOfAddress

\* What a step does to the keys of an open() and of the profile.
LEMMA KeysOf ==
    ASSUME ShellTypeInv, NEW t \in Terms, ShellMoves(t),
           term[t].pc = "shake" => term[t].host \in Hosts
    PROVE  \/ /\ Shells!Open(t) /\ term[t].pc = "idle" /\ profile' = profile
              /\ term'[t].pinned = term[t].pinned /\ term'[t].key = term[t].key
              /\ term'[t].sent = term[t].sent
              /\ \/ /\ term'[t].pc = "refused" /\ term'[t].confirmed = term[t].confirmed
                    /\ trusted' = trusted
                 \/ /\ term'[t].pc = "connect" /\ term'[t].confirmed \in {NoKey, offered}
                    /\ trusted' = IF term'[t].confirmed = NoKey THEN trusted
                                  ELSE trusted \cup {<<profile.host, term'[t].confirmed>>}
           \/ /\ Shells!ReadProfile(t) /\ term[t].pc = "connect" /\ term'[t].pc = "shake"
              /\ profile' = profile /\ trusted' = trusted
              /\ term'[t].host = profile.host /\ term'[t].pinned = profile.pin
              /\ term'[t].confirmed = term[t].confirmed /\ term'[t].sent = term[t].sent
           \/ /\ Shells!Shake(t) /\ term[t].pc = "shake"
              /\ profile' = profile /\ trusted' = trusted
              /\ term'[t].pinned = term[t].pinned /\ term'[t].confirmed = term[t].confirmed
              /\ \/ /\ term'[t].pc = "login" /\ term'[t].key \in Keys
                    /\ Shells!Accepts(t, term'[t].key) /\ term'[t].sent
                 \/ term'[t].pc = "give up" /\ term'[t].sent = term[t].sent
           \/ /\ Shells!Login(t) /\ term[t].pc = "login" /\ trusted' = trusted
              /\ term'[t].pc \in {"shell", "give up"}
              /\ term'[t].pinned = term[t].pinned /\ term'[t].key = term[t].key
              /\ term'[t].confirmed = term[t].confirmed /\ term'[t].sent = term[t].sent
              /\ \/ profile' = profile
                 \/ term[t].pinned = NoKey /\ profile' = [profile EXCEPT !.pin = term[t].key]
           \/ /\ profile' = profile /\ trusted' = trusted
              /\ \/ term'[t].pc = term[t].pc
                 \/ Shells!Opening(t) /\ term'[t].pc \in {"mark", "release", "give up", "open", "failed"}
              /\ term'[t].pinned = term[t].pinned /\ term'[t].key = term[t].key
              /\ term'[t].confirmed = term[t].confirmed /\ term'[t].sent = term[t].sent
              /\ term'[t].host = term[t].host
<1>1. term \in [Terms -> TermTypes] /\ term[t] \in TermTypes
  BY DEF ShellTypeInv
<1>2. CASE Shells!Open(t)
  <2>1. term[t].pc = "idle" /\ profile' = profile
    BY <1>2 DEF Shells!Open
  <2>2. CASE /\ term' = [term EXCEPT ![t] = [term[t] EXCEPT !.pc = "refused"]]
             /\ trusted' = trusted
    <3>1. /\ term'[t].pc = "refused" /\ term'[t].confirmed = term[t].confirmed
          /\ term'[t].pinned = term[t].pinned /\ term'[t].key = term[t].key
          /\ term'[t].sent = term[t].sent
      BY <1>1, <2>2 DEF TermTypes
    <3> QED
      BY <1>2, <2>1, <2>2, <3>1
  <2>3. ASSUME NEW k \in {NoKey, offered},
               term' = [term EXCEPT ![t] = [term[t] EXCEPT !.pc = "connect", !.confirmed = k]]
        PROVE  /\ term'[t].pc = "connect" /\ term'[t].confirmed = k
               /\ term'[t].pinned = term[t].pinned /\ term'[t].key = term[t].key
               /\ term'[t].sent = term[t].sent
    BY <1>1, <2>3 DEF TermTypes
  <2>4. CASE \E k \in {NoKey, offered} :
               /\ term' = [term EXCEPT ![t] = [term[t] EXCEPT !.pc = "connect", !.confirmed = k]]
               /\ trusted' = IF k = NoKey THEN trusted ELSE trusted \cup {<<profile.host, k>>}
    <3>1. PICK k \in {NoKey, offered} :
               /\ term' = [term EXCEPT ![t] = [term[t] EXCEPT !.pc = "connect", !.confirmed = k]]
               /\ trusted' = IF k = NoKey THEN trusted ELSE trusted \cup {<<profile.host, k>>}
      BY <2>4
    <3>2. /\ term'[t].pc = "connect" /\ term'[t].confirmed = k
          /\ term'[t].pinned = term[t].pinned /\ term'[t].key = term[t].key
          /\ term'[t].sent = term[t].sent
      BY <2>3, <3>1
    <3> QED
      BY <1>2, <2>1, <3>1, <3>2
  <2> QED
    BY <1>2, <2>2, <2>4, OpenRecord
<1>3. CASE Shells!ReadProfile(t)
  <2>1. term[t].pc = "connect" /\ profile' = profile /\ trusted' = trusted
    BY <1>3, SMTT(30) DEF Shells!ReadProfile, Shells!world
  <2>2. term' = [term EXCEPT ![t] = [term[t] EXCEPT !.pc = "shake", !.host = profile.host,
                                                    !.pinned = profile.pin]]
    BY <1>3, QuietRecord
  <2>3. /\ term'[t].pc = "shake" /\ term'[t].host = profile.host
        /\ term'[t].pinned = profile.pin
        /\ term'[t].confirmed = term[t].confirmed /\ term'[t].sent = term[t].sent
    BY <1>1, <2>2 DEF TermTypes
  <2> QED
    BY <1>3, <2>1, <2>3
<1>4. CASE Shells!Shake(t)
  <2> DEFINE key == serverKey[term[t].host]
  <2>1. term[t].pc = "shake" /\ profile' = profile /\ trusted' = trusted
    BY <1>4 DEF Shells!Shake
  <2>2. key \in Keys
    BY <2>1, SMTT(30) DEF ShellTypeInv
  <2>3. \/ /\ term' = [term EXCEPT ![t] = [term[t] EXCEPT !.pc = "login", !.key = key, !.sent = TRUE]]
           /\ Shells!Accepts(t, key)
        \/ term' = [term EXCEPT ![t] = [term[t] EXCEPT !.pc = "give up", !.key = key]]
        \/ term' = [term EXCEPT ![t] = [term[t] EXCEPT !.pc = "give up"]]
    BY <1>4, ShakeRecord
  <2> HIDE DEF key
  <2>4. CASE /\ term' = [term EXCEPT ![t] = [term[t] EXCEPT !.pc = "login", !.key = key,
                                                          !.sent = TRUE]]
             /\ Shells!Accepts(t, key)
    <3>1. /\ term'[t].pc = "login" /\ term'[t].key = key /\ term'[t].sent
          /\ term'[t].pinned = term[t].pinned /\ term'[t].confirmed = term[t].confirmed
      BY <1>1, <2>4 DEF TermTypes
    <3> QED
      BY <1>4, <2>1, <2>2, <2>4, <3>1
  <2>5. CASE term' = [term EXCEPT ![t] = [term[t] EXCEPT !.pc = "give up", !.key = key]]
    <3>1. /\ term'[t].pc = "give up" /\ term'[t].sent = term[t].sent
          /\ term'[t].pinned = term[t].pinned /\ term'[t].confirmed = term[t].confirmed
      BY <1>1, <2>5 DEF TermTypes
    <3> QED
      BY <1>4, <2>1, <3>1
  <2>6. CASE term' = [term EXCEPT ![t] = [term[t] EXCEPT !.pc = "give up"]]
    <3>1. /\ term'[t].pc = "give up" /\ term'[t].sent = term[t].sent
          /\ term'[t].pinned = term[t].pinned /\ term'[t].confirmed = term[t].confirmed
      BY <1>1, <2>6 DEF TermTypes
    <3> QED
      BY <1>4, <2>1, <3>1
  <2> QED
    BY <2>3, <2>4, <2>5, <2>6
<1>5. CASE Shells!Login(t)
  <2>1. /\ term[t].pc = "login" /\ trusted' = trusted
        /\ \/ profile' = profile
           \/ term[t].pinned = NoKey /\ profile' = [profile EXCEPT !.pin = term[t].key]
    BY <1>5, ZenonT(40) DEF Shells!Login
  <2>2. \/ term' = [term EXCEPT ![t] = [term[t] EXCEPT !.pc = "shell"]]
        \/ term' = [term EXCEPT ![t] = [term[t] EXCEPT !.pc = "give up"]]
    BY <1>5, QuietRecord
  <2>3. /\ term'[t].pc \in {"shell", "give up"}
        /\ term'[t].pinned = term[t].pinned /\ term'[t].key = term[t].key
        /\ term'[t].confirmed = term[t].confirmed /\ term'[t].sent = term[t].sent
    <3>1. CASE term' = [term EXCEPT ![t] = [term[t] EXCEPT !.pc = "shell"]]
      BY <1>1, <3>1 DEF TermTypes
    <3>2. CASE term' = [term EXCEPT ![t] = [term[t] EXCEPT !.pc = "give up"]]
      BY <1>1, <3>2 DEF TermTypes
    <3> QED
      BY <2>2, <3>1, <3>2
  <2> QED
    BY <1>5, <2>1, <2>3
<1>6. CASE \/ Shells!Insert(t) \/ Shells!Mark(t) \/ Shells!Release(t)
           \/ Shells!Drop(t) \/ Shells!ReaderEnds(t) \/ Shells!Write(t) \/ Shells!Close(t)
  <2>1. profile' = profile /\ trusted' = trusted
    BY <1>6 DEF Shells!Insert, Shells!Mark, Shells!Release, Shells!Drop,
       Shells!ReaderEnds, Shells!Write, Shells!Close, Shells!world
  <2>2. \/ term'[t].pc = term[t].pc
        \/ Shells!Opening(t) /\ term'[t].pc \in {"mark", "release", "give up", "open", "failed"}
    BY <1>6, ControlOf, ZenonT(40) DEF Shells!Opening
  <2> DEFINE Agrees(u) == /\ u.pinned = term[t].pinned /\ u.key = term[t].key
                          /\ u.confirmed = term[t].confirmed /\ u.sent = term[t].sent
                          /\ u.host = term[t].host
  <2>3. /\ Agrees(term[t])
        /\ Agrees([term[t] EXCEPT !.pc = "mark", !.up = TRUE, !.reader = "gated"])
        /\ Agrees([term[t] EXCEPT !.pc = "give up"])
        /\ Agrees([term[t] EXCEPT !.pc = "release", !.reader = "reads"])
        /\ Agrees([term[t] EXCEPT !.pc = "open"]) /\ Agrees([term[t] EXCEPT !.pc = "failed"])
        /\ Agrees([term[t] EXCEPT !.up = FALSE]) /\ Agrees([term[t] EXCEPT !.reader = "exited"])
        /\ Agrees([term[t] EXCEPT !.up = FALSE, !.reader = "exited"])
    BY <1>1 DEF TermTypes
  <2> HIDE DEF Agrees
  <2>5. \E u : term' = [term EXCEPT ![t] = u] /\ Agrees(u)
    BY <1>6, <2>3, QuietRecord
  <2>6. Agrees(term'[t])
    BY <1>1, <2>5
  <2>4. /\ term'[t].pinned = term[t].pinned /\ term'[t].key = term[t].key
        /\ term'[t].confirmed = term[t].confirmed /\ term'[t].sent = term[t].sent
        /\ term'[t].host = term[t].host
    BY <2>6 DEF Agrees
  <2> QED
    BY <2>1, <2>2, <2>4
<1> QED
  BY <1>2, <1>3, <1>4, <1>5, <1>6 DEF ShellMoves, Shells!Step
\* What was confirmed stays confirmed.
LEMMA KnownStays ==
    ASSUME trusted \subseteq trusted', NEW k, Known(k)
    PROVE  \E h \in Hosts : <<h, k>> \in trusted'
  BY DEF Known

LEMMA TrustStep ==
    ASSUME ShellTypeInv, ShellAssumption, TrustInv, NEW t \in Terms, ShellMoves(t),
           \A q \in Terms \ {t} : term'[q] = term[q]
    PROVE  TrustInv'
<1> DEFINE Named(k) == \E h \in Hosts : <<h, k>> \in trusted'
<1>1. TrustOf(t) /\ profile.host \in Hosts /\ NoKey \notin Keys
  BY DEF TrustInv, ShellTypeInv, ShellAssumption
<1>2. trusted \subseteq trusted'
  BY <1>1, KeysOf DEF TrustOf
<1>3. \A k : Known(k) => Named(k)
  BY <1>2, KnownStays
<1>4. ASSUME NEW q \in Terms \ {t} PROVE TrustOf(q)'
  <2>1. TrustOf(q) /\ term'[q] = term[q]
    BY <1>4 DEF TrustInv
  <2> QED
    BY <1>3, <2>1 DEF TrustOf, Known, Shells!Accepts
<1>5. CASE /\ Shells!Open(t) /\ term[t].pc = "idle" /\ profile' = profile
           /\ term'[t].pinned = term[t].pinned /\ term'[t].key = term[t].key
           /\ term'[t].sent = term[t].sent
           /\ \/ /\ term'[t].pc = "refused" /\ term'[t].confirmed = term[t].confirmed
                 /\ trusted' = trusted
              \/ /\ term'[t].pc = "connect" /\ term'[t].confirmed \in {NoKey, offered}
                 /\ trusted' = IF term'[t].confirmed = NoKey THEN trusted
                               ELSE trusted \cup {<<profile.host, term'[t].confirmed>>}
  <2>1. ~term'[t].sent /\ term'[t].pc \in {"refused", "connect"}
    BY <1>1, <1>5 DEF TrustOf
  <2>2. term'[t].confirmed # NoKey => Named(term'[t].confirmed)
    BY <1>1, <1>3, <1>5 DEF TrustOf
  <2>3. term'[t].pinned # NoKey => Named(term'[t].pinned)
    BY <1>1, <1>3, <1>5 DEF TrustOf
  <2>4. TrustOf(t)'
    BY <2>1, <2>2, <2>3 DEF TrustOf, Known
  <2> QED
    BY <1>3, <1>4, <1>5, <2>4 DEF TrustInv, Known
<1>6. CASE /\ Shells!ReadProfile(t) /\ term[t].pc = "connect" /\ term'[t].pc = "shake"
           /\ profile' = profile /\ trusted' = trusted
           /\ term'[t].host = profile.host /\ term'[t].pinned = profile.pin
           /\ term'[t].confirmed = term[t].confirmed /\ term'[t].sent = term[t].sent
  <2>1. TrustOf(t)'
    BY <1>1, <1>6 DEF TrustOf, Known, TrustInv
  <2> QED
    BY <1>4, <1>6, <2>1 DEF TrustInv, Known
<1>7. CASE /\ Shells!Shake(t) /\ term[t].pc = "shake"
           /\ profile' = profile /\ trusted' = trusted
           /\ term'[t].pinned = term[t].pinned /\ term'[t].confirmed = term[t].confirmed
           /\ \/ /\ term'[t].pc = "login" /\ term'[t].key \in Keys
                 /\ Shells!Accepts(t, term'[t].key) /\ term'[t].sent
              \/ term'[t].pc = "give up" /\ term'[t].sent = term[t].sent
  <2>1. CASE /\ term'[t].pc = "login" /\ term'[t].key \in Keys
             /\ Shells!Accepts(t, term'[t].key) /\ term'[t].sent
    <3>1. Shells!Accepts(t, term[t].key)' /\ term'[t].key # NoKey
      BY <1>1, <1>7, <2>1 DEF Shells!Accepts
    <3>2. TrustOf(t)'
      BY <1>1, <1>7, <2>1, <3>1 DEF TrustOf, Known
    <3> QED
      BY <1>4, <1>7, <3>2 DEF TrustInv, Known
  <2>2. CASE term'[t].pc = "give up" /\ term'[t].sent = term[t].sent
    <3>1. ~term'[t].sent
      BY <1>1, <1>7, <2>2 DEF TrustOf
    <3>2. TrustOf(t)'
      BY <1>1, <1>7, <2>2, <3>1 DEF TrustOf, Known
    <3> QED
      BY <1>4, <1>7, <3>2 DEF TrustInv, Known
  <2> QED
    BY <1>7, <2>1, <2>2
<1>8. CASE /\ Shells!Login(t) /\ term[t].pc = "login" /\ trusted' = trusted
           /\ term'[t].pc \in {"shell", "give up"}
           /\ term'[t].pinned = term[t].pinned /\ term'[t].key = term[t].key
           /\ term'[t].confirmed = term[t].confirmed /\ term'[t].sent = term[t].sent
           /\ \/ profile' = profile
              \/ term[t].pinned = NoKey /\ profile' = [profile EXCEPT !.pin = term[t].key]
  <2>1. TrustOf(t)'
    BY <1>1, <1>8 DEF TrustOf, Known, Shells!Accepts
  <2>2. CASE profile' = profile
    BY <1>4, <1>8, <2>1, <2>2 DEF TrustInv, Known
  <2>3. CASE term[t].pinned = NoKey /\ profile' = [profile EXCEPT !.pin = term[t].key]
    <3>1. profile'.pin = term[t].key
      BY <2>3 DEF ShellTypeInv
    <3>2. term[t].key # NoKey /\ Known(term[t].key)
      BY <1>1, <1>8, <2>3 DEF TrustOf, Shells!Accepts
    <3> QED
      BY <1>4, <1>8, <2>1, <3>1, <3>2 DEF TrustInv, Known
  <2> QED
    BY <1>8, <2>2, <2>3
<1>9. CASE /\ profile' = profile /\ trusted' = trusted
           /\ \/ term'[t].pc = term[t].pc
              \/ Shells!Opening(t) /\ term'[t].pc \in {"mark", "release", "give up", "open", "failed"}
           /\ term'[t].pinned = term[t].pinned /\ term'[t].key = term[t].key
           /\ term'[t].confirmed = term[t].confirmed /\ term'[t].sent = term[t].sent
           /\ term'[t].host = term[t].host
  <2>1. TrustOf(t)'
    BY <1>1, <1>9 DEF TrustOf, Known, Shells!Accepts
  <2> QED
    BY <1>4, <1>9, <2>1 DEF TrustInv, Known
<1>10. term[t].pc = "shake" => term[t].host \in Hosts
  BY <1>1 DEF TrustOf
<1> HIDE DEF Named
<1> QED
  BY <1>5, <1>6, <1>7, <1>8, <1>9, <1>10, KeysOf, ZenonT(40)

LEMMA AddressStep ==
    ASSUME ShellTypeInv, ShellAssumption, TrustInv, AddressInv, NEW t \in Terms, ShellMoves(t),
           \A q \in Terms \ {t} : term'[q] = term[q], edit' = edit
    PROVE  AddressInv'
<1>1. TrustOf(t) /\ profile.host \in Hosts
  BY DEF TrustInv, ShellTypeInv
<1>2. (term[t].pc = "shake" => term[t].host \in Hosts)
  BY <1>1 DEF TrustOf
<1>3. trusted \subseteq trusted' /\ profile'.host = profile.host
  BY <1>1, <1>2, KeysOf DEF ShellTypeInv
<1>4. \A q \in Terms \ {t} : Shells!Opening(q)' /\ term'[q].confirmed # NoKey =>
        <<profile'.host, term'[q].confirmed>> \in trusted'
  BY <1>3 DEF AddressInv, Shells!Opening
<1>5. Shells!Opening(t)' /\ term'[t].confirmed # NoKey =>
        <<profile'.host, term'[t].confirmed>> \in trusted'
  <2>1. CASE Shells!Opening(t) /\ term'[t].confirmed = term[t].confirmed
    BY <1>3, <2>1 DEF AddressInv
  <2>2. CASE term'[t].pc = "refused" \/ (term'[t].pc = term[t].pc /\ ~Shells!Opening(t))
    BY <2>2 DEF Shells!Opening
  <2>3. CASE /\ profile' = profile
             /\ trusted' = IF term'[t].confirmed = NoKey THEN trusted
                           ELSE trusted \cup {<<profile.host, term'[t].confirmed>>}
    BY <2>3
  <2> QED
    BY <1>2, <2>1, <2>2, <2>3, KeysOf DEF Shells!Opening
<1>6. Shells!PinIsOfAddress'
  <2>1. CASE profile' = profile
    BY <1>3, <2>1 DEF AddressInv, Shells!PinIsOfAddress
  <2>2. CASE /\ term[t].pc = "login" /\ term[t].pinned = NoKey
             /\ profile' = [profile EXCEPT !.pin = term[t].key]
    <3>1. profile'.pin = term[t].key
      BY <2>2 DEF ShellTypeInv
    <3>2. term[t].key = term[t].confirmed /\ term[t].key # NoKey
      BY <1>1, <2>2 DEF TrustOf, Shells!Accepts
    <3>3. <<profile.host, term[t].key>> \in trusted
      BY <2>2, <3>2 DEF AddressInv, Shells!Opening
    <3> QED
      BY <1>3, <3>1, <3>3 DEF Shells!PinIsOfAddress
  <2> QED
    BY <1>2, <2>1, <2>2, KeysOf
<1> QED
  BY <1>4, <1>5, <1>6 DEF AddressInv
-----------------------------------------------------------------------------
(* OPNsense: the theorems.                                                 *)

\* A step of the profile or of a server moves no terminal.
WorldStep == Shells!EditAddress \/ Shells!ClearPin \/ Shells!Forget \/ Shells!Rekey \/ UNCHANGED Shells!vars

LEMMA WorldKeeps ==
    ASSUME ShellTypeInv, WorldStep
    PROVE  /\ UNCHANGED <<shells, starting, marks, term, trusted>>
           /\ ShellTypeInv'
           /\ profile'.pin \in {profile.pin, NoKey}
<1> USE DEF ShellTypeInv, Shells!slots
<1>1. CASE Shells!EditAddress
  BY <1>1 DEF Shells!EditAddress, Fingerprints
<1>2. CASE Shells!ClearPin
  BY <1>2 DEF Shells!ClearPin, Fingerprints
<1>3. CASE Shells!Forget
  BY <1>3 DEF Shells!Forget, Fingerprints
<1>4. CASE Shells!Rekey
  BY <1>4 DEF Shells!Rekey
<1>5. CASE UNCHANGED Shells!vars
  BY <1>5 DEF Shells!vars
<1> QED
  BY <1>1, <1>2, <1>3, <1>4, <1>5 DEF WorldStep

\* What a terminal leaves of the profile and the user's decisions.
LEMMA TermTypeStep ==
    ASSUME ShellTypeInv, ShellAssumption, NEW t \in Terms, ShellMoves(t),
           term[t].pc = "shake" => term[t].host \in Hosts
    PROVE  ShellTypeInv' /\ edit' = edit /\ \A q \in Terms \ {t} : term'[q] = term[q]
<1>1. /\ term[t] \in TermTypes /\ offered \in Fingerprints
      /\ profile \in [host : Hosts, pin : Fingerprints]
  BY DEF ShellTypeInv
<1>2. edit' = edit /\ serverKey' = serverKey /\ shells' \subseteq Terms
  BY ZenonT(40) DEF ShellMoves, Shells!Step, Shells!Open, Shells!ReadProfile,
     Shells!Shake, Shells!Login, Shells!Insert, Shells!Mark, Shells!Release, Shells!Drop,
         Shells!ReaderEnds, Shells!Write, Shells!Close, Shells!RemoveSlot, Shells!world,
           Shells!slots, ShellTypeInv
<1>3. offered' \in Fingerprints
  <2>1. CASE Shells!Shake(t)
    <3>1. serverKey[term[t].host] \in Fingerprints
      BY <2>1 DEF Shells!Shake, ShellTypeInv, Fingerprints
    <3> QED
      BY <1>1, <2>1, <3>1, ShakeRecord
  <2>2. CASE ~Shells!Shake(t)
    <3>1. offered' = offered
      BY <2>2 DEF ShellMoves, Shells!Step, Shells!Open, Shells!ReadProfile, Shells!Login,
         Shells!Insert, Shells!Mark, Shells!Release, Shells!Drop,
                  Shells!ReaderEnds, Shells!Write, Shells!Close, Shells!world
    <3> QED
      BY <1>1, <3>1
  <2> QED
    BY <2>1, <2>2
<1>4. profile' \in [host : Hosts, pin : Fingerprints]
  <2>1. term[t].key \in Fingerprints
    BY <1>1 DEF TermTypes
  <2>2. profile' = profile \/ profile' = [profile EXCEPT !.pin = term[t].key]
    BY KeysOf
  <2> QED
    BY <1>1, <2>1, <2>2
<1>5. trusted' \subseteq Hosts \X Keys
  <2>1. CASE trusted' = trusted
    BY <2>1 DEF ShellTypeInv
  <2>2. CASE /\ term'[t].confirmed \in {NoKey, offered}
             /\ trusted' = IF term'[t].confirmed = NoKey THEN trusted
                           ELSE trusted \cup {<<profile.host, term'[t].confirmed>>}
    BY <1>1, <2>2 DEF ShellTypeInv, Fingerprints
  <2> QED
    BY <2>1, <2>2, KeysOf
<1> QED
  BY <1>2, <1>3, <1>4, <1>5, TermStep DEF ShellTypeInv

ShellInv == ShellTypeInv /\ SeatInv /\ MarkInv /\ TrustInv

LEMMA InitShellInv ==
    ASSUME ShellAssumption, Shells!Init
    PROVE  ShellInv
<1>1. ShellTypeInv
  <2>1. (CHOOSE h \in Hosts : TRUE) \in Hosts
    BY DEF ShellAssumption
  <2>2. serverKey \in [Hosts -> Keys]
    BY DEF Shells!Init, ShellAssumption
  <2> QED
    BY <2>1, <2>2 DEF Shells!Init, ShellTypeInv, TermTypes, Shells!Idle, Labels,
       Fingerprints
<1>2. SeatInv
  <2>1. Seats = {} /\ shells = {}
    BY DEF Shells!Init, Shells!Idle, Seats, Shells!Opening
  <2>2. IsFiniteSet({}) /\ Cardinality({}) = 0
    BY FS_EmptySet
  <2> QED
    BY <2>1, <2>2 DEF SeatInv, Shells!Init, ShellAssumption
<1>3. MarkInv
  <2>1. Marked = {}
    BY DEF Shells!Init, Marked
  <2>2. Cardinality({}) = 0
    BY FS_EmptySet
  <2> QED
    BY <2>1, <2>2 DEF Shells!Init, Shells!Idle, MarkInv, ReaderOf
<1>4. TrustInv
  BY DEF Shells!Init, Shells!Idle, TrustInv, TrustOf, Shells!Accepts
<1> QED
  BY <1>1, <1>2, <1>3, <1>4 DEF ShellInv

LEMMA NextShellInv ==
    ASSUME ShellAssumption, ShellInv, [Shells!Next]_(Shells!vars)
    PROVE  ShellInv'
<1>1. CASE WorldStep
  <2>1. /\ UNCHANGED <<shells, starting, marks, term, trusted>> /\ ShellTypeInv'
        /\ profile'.pin \in {profile.pin, NoKey}
    BY <1>1, WorldKeeps DEF ShellInv
  <2>2. SeatInv'
    BY <2>1 DEF ShellInv, SeatInv, Seats, Shells!Opening
  <2>3. MarkInv'
    BY <2>1 DEF ShellInv, MarkInv, ReaderOf, Marked
  <2>4. TrustInv'
    BY <2>1 DEF ShellInv, TrustInv, TrustOf, Known, Shells!Accepts
  <2> QED
    BY <2>1, <2>2, <2>3, <2>4 DEF ShellInv
<1>2. ASSUME NEW t \in Terms, ShellMoves(t)
      PROVE  ShellInv'
  <2>1. term[t].pc = "shake" => term[t].host \in Hosts
    BY DEF ShellInv, TrustInv, TrustOf
  <2>2. ShellTypeInv' /\ \A q \in Terms \ {t} : term'[q] = term[q]
    BY <1>2, <2>1, TermTypeStep DEF ShellInv
  <2>3. SeatInv'
    BY <1>2, <2>2, SeatStep DEF ShellInv
  <2>4. MarkInv'
    BY <1>2, <2>2, MarkStep DEF ShellInv, SeatInv
  <2>5. TrustInv'
    BY <1>2, <2>2, TrustStep DEF ShellInv
  <2> QED
    BY <2>2, <2>3, <2>4, <2>5 DEF ShellInv
<1> QED
  BY <1>1, <1>2, ShellSteps DEF WorldStep

LEMMA ShellInvariance ==
    ASSUME ShellAssumption
    PROVE  Shells!Init /\ [][Shells!Next]_(Shells!vars) => []ShellInv
<1>1. Shells!Init => ShellInv
  BY InitShellInv
<1>2. ShellInv /\ [Shells!Next]_(Shells!vars) => ShellInv'
  BY NextShellInv
<1> QED
  BY <1>1, <1>2, PTL

\* However many opens shake hands at once, no more terminals have a slot than
\* the cap allows, and the count of reservations is that of the opens under way:
\* no failed one keeps its place.
THEOREM ShellTypeOKHolds ==
    ASSUME ShellAssumption
    PROVE  Shells!Init /\ [][Shells!Next]_(Shells!vars) => []Shells!TypeOK
<1>1. ShellInv => Shells!TypeOK
  <2> SUFFICES ASSUME ShellInv PROVE Shells!TypeOK
    OBVIOUS
  <2>1. /\ shells \subseteq Terms /\ profile.host \in Hosts
        /\ profile.pin \in Keys \cup {NoKey}
    BY DEF ShellInv, ShellTypeInv, Fingerprints
  <2>2. starting = Cardinality({t \in Terms : Shells!Opening(t)})
    BY DEF ShellInv, SeatInv, Seats
  <2>3. Cardinality(shells) <= MaxTerminals
    <3>1. /\ IsFiniteSet(shells \cup Seats) /\ Cardinality(shells \cup Seats) <= MaxTerminals
          /\ MaxTerminals \in Nat
      BY FS_Union DEF ShellInv, SeatInv, ShellAssumption
    <3> QED
      BY <3>1, StillRoom
  <2> QED
    BY <2>1, <2>2, <2>3, ShellSize DEF Shells!TypeOK
<1> QED
  BY <1>1, ShellInvariance, PTL

\* The registry that keeps a profile from deletion counts exactly the terminals
\* that have a slot and their mark, whether the reader, a write or close() ends
\* them, or all three.
THEOREM MarksExactHolds ==
    ASSUME ShellAssumption
    PROVE  Shells!Init /\ [][Shells!Next]_(Shells!vars) => []Shells!MarksExact
<1>1. ShellInv => Shells!MarksExact
  BY ShellSize DEF ShellInv, MarkInv, Marked, Shells!MarksExact
<1> QED
  BY <1>1, ShellInvariance, PTL

\* A password leaves the app only to a server whose key was pinned when the
\* open began or, without a pin, was confirmed - whatever is edited, forgotten
\* or reinstalled while terminals open, and whether or not the profile may be
\* edited under an open.
THEOREM PasswordOnlyToTrustedHolds ==
    ASSUME ShellAssumption
    PROVE  Shells!Init /\ [][Shells!Next]_(Shells!vars) => []Shells!PasswordOnlyToTrusted
<1>1. ShellInv => Shells!PasswordOnlyToTrusted
  BY DEF ShellInv, TrustInv, TrustOf, Known, Shells!Accepts, Shells!PasswordOnlyToTrusted
<1> QED
  BY <1>1, ShellInvariance, PTL

\* A pin is a key the user confirmed for the address the profile has, as long
\* as the profile is not edited while an open is under way.
THEOREM PinIsOfAddressHolds ==
    ASSUME ShellAssumption, EditBusy = FALSE
    PROVE  Shells!Init /\ [][Shells!Next]_(Shells!vars) => []Shells!PinIsOfAddress
<1>1. Shells!Init => AddressInv
  BY DEF Shells!Init, Shells!Idle, AddressInv, Shells!PinIsOfAddress, Shells!Opening
<1>2. ASSUME ShellInv, AddressInv, [Shells!Next]_(Shells!vars)
      PROVE  AddressInv'
  <2>1. CASE WorldStep
    <3>1. UNCHANGED <<term, trusted>> /\ profile'.pin \in {profile.pin, NoKey}
      BY <1>2, <2>1, WorldKeeps DEF ShellInv
    <3>2. CASE Shells!EditAddress
      BY <1>2, <3>1, <3>2 DEF Shells!EditAddress, AddressInv, Shells!PinIsOfAddress,
         Shells!Opening
    <3>3. CASE ~Shells!EditAddress
      <4>1. profile'.host = profile.host /\ (edit' = edit \/ profile'.pin = NoKey)
        BY <1>2, <2>1, <3>3
        DEF WorldStep, Shells!ClearPin, Shells!Forget, Shells!Rekey, Shells!vars,
           ShellInv, ShellTypeInv
      <4> QED
        BY <1>2, <3>1, <4>1 DEF AddressInv, Shells!PinIsOfAddress, Shells!Opening
    <3> QED
      BY <3>2, <3>3
  <2>2. ASSUME NEW t \in Terms, ShellMoves(t)
        PROVE  AddressInv'
    <3>1. term[t].pc = "shake" => term[t].host \in Hosts
      BY <1>2 DEF ShellInv, TrustInv, TrustOf
    <3>2. edit' = edit /\ \A q \in Terms \ {t} : term'[q] = term[q]
      BY <1>2, <2>2, <3>1, TermTypeStep DEF ShellInv
    <3> QED
      BY <1>2, <2>2, <3>2, AddressStep DEF ShellInv
  <2> QED
    BY <1>2, <2>1, <2>2, ShellSteps DEF WorldStep
<1>3. AddressInv => Shells!PinIsOfAddress
  BY DEF AddressInv
<1> QED
  BY <1>1, <1>2, <1>3, ShellInvariance, PTL

-----------------------------------------------------------------------------
(* MikroTik.  The manager has the same map and the same count; a terminal  *)
(* is simpler, as there is no key to confirm and no mark to make.          *)

MikrotikTypes ==
    [pc : {"idle", "refused", "connect", "insert", "release", "give up", "open", "failed"},
     up : BOOLEAN, sink : BOOLEAN, reader : {"none", "gated", "reads", "exited"}]

\* open() calls that are under way.
Reserved == {t \in Terms : console[t].pc \in {"connect", "insert", "release", "give up"}}

\* A reader cannot end before its slot is filled, and its end empties the slot.
MikrotikInv ==
    /\ console \in [Terms -> MikrotikTypes] /\ consoles \subseteq Terms
    /\ IsFiniteSet(consoles) /\ IsFiniteSet(Reserved) /\ reserved = Cardinality(Reserved)
    /\ Cardinality(consoles \cup Reserved) <= MaxTerminals
    /\ \A t \in Terms : console[t].pc = "insert" => console[t].reader = "gated"
    /\ Terminals!NoDeadSlot

MikrotikMoves(t) ==
    \/ Terminals!Open(t) \/ Terminals!Step(t) \/ Terminals!Drop(t) \/ Terminals!Write(t)
    \/ Terminals!Close(t)

\* Inside the instance, a set has the size it has outside.
LEMMA SameSize == \A S : Terminals!Cardinality(S) = Cardinality(S)
BY DEF Cardinality, Terminals!Cardinality

\* Where a step takes an open() and its reader.
LEMMA MikrotikControlOf ==
    ASSUME console \in [Terms -> MikrotikTypes], NEW t \in Terms
    PROVE  /\ Terminals!Open(t) =>
                /\ console[t].pc = "idle" /\ consoles' = consoles
                /\ \/ /\ console' = [console EXCEPT ![t] = [console[t] EXCEPT !.pc = "refused"]]
                      /\ reserved' = reserved
                   \/ /\ console' = [console EXCEPT ![t] = [console[t] EXCEPT !.pc = "connect"]]
                      /\ reserved' = reserved + 1
                      /\ ~(Cardinality(consoles) + reserved >= MaxTerminals)
           /\ Terminals!Connect(t) =>
                /\ console[t].pc = "connect" /\ consoles' = consoles /\ reserved' = reserved
                /\ \/ console' = [console EXCEPT ![t] = [console[t] EXCEPT !.pc = "insert", !.up = TRUE,
                                                                 !.reader = "gated"]]
                   \/ console' = [console EXCEPT ![t] = [console[t] EXCEPT !.pc = "give up"]]
           /\ Terminals!Insert(t) =>
                /\ console[t].pc = "insert" /\ consoles' = consoles \cup {t} /\ reserved' = reserved
                /\ \E reader \in {"none", "reads", "exited"} :
                     /\ console' = [console EXCEPT ![t] = [console[t] EXCEPT !.pc = "release",
                                                                   !.reader = reader]]
                     /\ console[t].reader = "gated" => reader = "reads"
           /\ Terminals!Release(t) =>
                /\ console[t].pc \in {"release", "give up"}
                /\ consoles' = consoles /\ reserved' = reserved - 1
                /\ \E pc \in {"open", "failed"} :
                     console' = [console EXCEPT ![t] = [console[t] EXCEPT !.pc = pc]]
           /\ Terminals!ReaderEnds(t) \/ Terminals!Close(t) =>
                /\ consoles' = consoles \ {t} /\ reserved' = reserved
                /\ console[t].reader = "reads" \/ console[t].pc = "open"
                /\ console' = [console EXCEPT ![t] = [console[t] EXCEPT !.up = FALSE, !.reader = "exited"]]
           /\ Terminals!Drop(t) =>
                /\ consoles' = consoles /\ reserved' = reserved
                /\ \/ console' = [console EXCEPT ![t] = [console[t] EXCEPT !.up = FALSE]]
                   \/ console' = [console EXCEPT ![t] = [console[t] EXCEPT !.sink = FALSE]]
           /\ Terminals!Write(t) =>
                consoles' = consoles \ {t} /\ reserved' = reserved /\ console' = console
<1>1. console[t] \in MikrotikTypes
  OBVIOUS
<1>2. ASSUME Terminals!Open(t)
      PROVE  /\ console[t].pc = "idle" /\ consoles' = consoles
             /\ \/ /\ console' = [console EXCEPT ![t] = [console[t] EXCEPT !.pc = "refused"]]
                   /\ reserved' = reserved
                \/ /\ console' = [console EXCEPT ![t] = [console[t] EXCEPT !.pc = "connect"]]
                   /\ reserved' = reserved + 1
                   /\ ~(Cardinality(consoles) + reserved >= MaxTerminals)
  <2>1. console[t].pc = "idle" /\ consoles' = consoles
    BY <1>2 DEF Terminals!Open
  <2>2. CASE Cardinality(consoles) + reserved >= MaxTerminals
    <3>1. console' = [console EXCEPT ![t].pc = "refused"] /\ reserved' = reserved
      BY <1>2, <2>2, SameSize DEF Terminals!Open
    <3> QED
      BY <1>1, <2>1, <3>1
  <2>3. CASE ~(Cardinality(consoles) + reserved >= MaxTerminals)
    <3>1. console' = [console EXCEPT ![t].pc = "connect"] /\ reserved' = reserved + 1
      BY <1>2, <2>3, SameSize DEF Terminals!Open
    <3> QED
      BY <1>1, <2>1, <2>3, <3>1
  <2> QED
    BY <2>2, <2>3
<1>3. ASSUME Terminals!Connect(t)
      PROVE  /\ console[t].pc = "connect" /\ consoles' = consoles /\ reserved' = reserved
             /\ \/ console' = [console EXCEPT ![t] = [console[t] EXCEPT !.pc = "insert", !.up = TRUE,
                                                              !.reader = "gated"]]
                \/ console' = [console EXCEPT ![t] = [console[t] EXCEPT !.pc = "give up"]]
  BY <1>1, <1>3 DEF Terminals!Connect
<1>4. ASSUME Terminals!Insert(t)
      PROVE  /\ console[t].pc = "insert" /\ consoles' = consoles \cup {t} /\ reserved' = reserved
             /\ \E reader \in {"none", "reads", "exited"} :
                  /\ console' = [console EXCEPT ![t] = [console[t] EXCEPT !.pc = "release",
                                                                !.reader = reader]]
                  /\ console[t].reader = "gated" => reader = "reads"
  <2> DEFINE reader == IF console[t].reader = "gated" THEN "reads" ELSE console[t].reader
  <2>1. /\ console[t].pc = "insert" /\ consoles' = consoles \cup {t} /\ reserved' = reserved
        /\ console' = [console EXCEPT ![t].pc = "release", ![t].reader = reader]
    BY <1>4 DEF Terminals!Insert
  <2>2. reader \in {"none", "reads", "exited"} /\ (console[t].reader = "gated" => reader = "reads")
    BY <1>1 DEF MikrotikTypes
  <2> HIDE DEF reader
  <2>3. console' = [console EXCEPT ![t] = [console[t] EXCEPT !.pc = "release", !.reader = reader]]
    BY <1>1, <2>1
  <2> QED
    BY <2>1, <2>2, <2>3
<1>5. ASSUME Terminals!Release(t)
      PROVE  /\ console[t].pc \in {"release", "give up"}
             /\ consoles' = consoles /\ reserved' = reserved - 1
             /\ \E pc \in {"open", "failed"} :
                  console' = [console EXCEPT ![t] = [console[t] EXCEPT !.pc = pc]]
  <2> DEFINE pc == IF console[t].pc = "release" THEN "open" ELSE "failed"
  <2>1. /\ console[t].pc \in {"release", "give up"}
        /\ consoles' = consoles /\ reserved' = reserved - 1
        /\ console' = [console EXCEPT ![t].pc = pc]
    BY <1>5 DEF Terminals!Release
  <2>2. pc \in {"open", "failed"}
    OBVIOUS
  <2> HIDE DEF pc
  <2> QED
    BY <1>1, <2>1, <2>2
<1>6. ASSUME Terminals!ReaderEnds(t) \/ Terminals!Close(t)
      PROVE  /\ consoles' = consoles \ {t} /\ reserved' = reserved
             /\ console[t].reader = "reads" \/ console[t].pc = "open"
             /\ console' = [console EXCEPT ![t] = [console[t] EXCEPT !.up = FALSE, !.reader = "exited"]]
  BY <1>1, <1>6 DEF Terminals!ReaderEnds, Terminals!Close, MikrotikTypes
<1>7. ASSUME Terminals!Drop(t)
      PROVE  /\ consoles' = consoles /\ reserved' = reserved
             /\ \/ console' = [console EXCEPT ![t] = [console[t] EXCEPT !.up = FALSE]]
                \/ console' = [console EXCEPT ![t] = [console[t] EXCEPT !.sink = FALSE]]
  BY <1>1, <1>7 DEF Terminals!Drop
<1>8. Terminals!Write(t) => consoles' = consoles \ {t} /\ reserved' = reserved /\ console' = console
  BY DEF Terminals!Write
<1> QED
  BY <1>2, <1>3, <1>4, <1>5, <1>6, <1>7, <1>8
\* A record that a step changes in pc or reader, as the invariant sees it.
LEMMA MikrotikChanged ==
    ASSUME console \in [Terms -> MikrotikTypes], NEW t \in Terms, NEW u \in MikrotikTypes,
           console' = [console EXCEPT ![t] = u]
    PROVE  /\ console' \in [Terms -> MikrotikTypes] /\ console'[t] = u
           /\ \A q \in Terms \ {t} : console'[q] = console[q]
<1> HIDE DEF MikrotikTypes
<1> QED
  OBVIOUS

\* What becomes of the reservations when one open() moves on.
LEMMA ReservedMove ==
    ASSUME NEW t \in Terms, \A q \in Terms \ {t} : console'[q] = console[q]
    PROVE  /\ (t \in Reserved' <=> t \in Reserved) => Reserved' = Reserved
           /\ t \notin Reserved /\ t \in Reserved' => Reserved' = Reserved \cup {t}
           /\ t \in Reserved /\ t \notin Reserved' => Reserved' = Reserved \ {t}
<1>1. \A q : q # t => (q \in Reserved' <=> q \in Reserved)
  BY DEF Reserved
<1> QED
  BY <1>1

\* Steps after which slots and reservations are no more than before.
LEMMA MikrotikShrinks ==
    ASSUME MaxTerminals \in Nat, MikrotikInv,
           consoles' \cup Reserved' \subseteq consoles \cup Reserved,
           reserved' = Cardinality(Reserved')
    PROVE  /\ IsFiniteSet(consoles') /\ IsFiniteSet(Reserved')
           /\ reserved' = Cardinality(Reserved')
           /\ Cardinality(consoles' \cup Reserved') <= MaxTerminals
<1>1. /\ IsFiniteSet(consoles \cup Reserved) /\ MaxTerminals \in Nat
      /\ Cardinality(consoles \cup Reserved) <= MaxTerminals
  BY FS_Union DEF MikrotikInv
<1>2. /\ IsFiniteSet(consoles' \cup Reserved')
      /\ Cardinality(consoles' \cup Reserved') <= MaxTerminals
  BY <1>1, StillRoom
<1> QED
  BY <1>2, FS_Subset

LEMMA MikrotikMove ==
    ASSUME MaxTerminals \in Nat, MikrotikInv, NEW t \in Terms, MikrotikMoves(t)
    PROVE  MikrotikInv'
<1>1. /\ console \in [Terms -> MikrotikTypes] /\ console[t] \in MikrotikTypes
      /\ consoles \subseteq Terms /\ IsFiniteSet(consoles) /\ IsFiniteSet(Reserved)
      /\ reserved = Cardinality(Reserved) /\ MaxTerminals \in Nat
      /\ Cardinality(consoles \cup Reserved) <= MaxTerminals
      /\ \A q \in Terms : console[q].pc = "insert" => console[q].reader = "gated"
      /\ \A q \in consoles : console[q].reader # "exited"
  BY DEF MikrotikInv, Terminals!NoDeadSlot
<1> DEFINE SeatsRight == /\ IsFiniteSet(consoles') /\ IsFiniteSet(Reserved')
                         /\ reserved' = Cardinality(Reserved')
                         /\ Cardinality(consoles' \cup Reserved') <= MaxTerminals
\* What is left to show of a step that changes one record.
<1>2. ASSUME NEW u \in MikrotikTypes, console' = [console EXCEPT ![t] = u],
             u.pc = "insert" => u.reader = "gated",
             consoles' \subseteq consoles \cup {t}, t \in consoles' => u.reader # "exited",
             SeatsRight
      PROVE  MikrotikInv'
  <2>1. /\ console' \in [Terms -> MikrotikTypes] /\ console'[t] = u
        /\ \A q \in Terms \ {t} : console'[q] = console[q]
    BY <1>1, <1>2, MikrotikChanged
  <2>2. \A q \in Terms : console'[q].pc = "insert" => console'[q].reader = "gated"
    BY <1>1, <1>2, <2>1
  <2>3. Terminals!NoDeadSlot'
    BY <1>1, <1>2, <2>1 DEF Terminals!NoDeadSlot
  <2> QED
    BY <1>1, <1>2, <2>1, <2>2, <2>3 DEF MikrotikInv
\* The reservations do not change unless pc does.
<1>3. ASSUME NEW u \in MikrotikTypes, console' = [console EXCEPT ![t] = u]
      PROVE  /\ u.pc \in {"connect", "insert", "release", "give up"} <=> t \in Reserved'
             /\ (t \in Reserved' <=> t \in Reserved) => Reserved' = Reserved
             /\ t \notin Reserved /\ t \in Reserved' => Reserved' = Reserved \cup {t}
             /\ t \in Reserved /\ t \notin Reserved' => Reserved' = Reserved \ {t}
  <2>1. console'[t] = u /\ \A q \in Terms \ {t} : console'[q] = console[q]
    BY <1>1, <1>3, MikrotikChanged
  <2> QED
    BY <2>1, ReservedMove DEF Reserved
<1>4. t \in Reserved <=> console[t].pc \in {"connect", "insert", "release", "give up"}
  BY ZenonT(40) DEF Reserved
<1>5. CASE Terminals!Open(t)
  <2>1. CASE /\ console' = [console EXCEPT ![t] = [console[t] EXCEPT !.pc = "refused"]]
             /\ reserved' = reserved
    <3> DEFINE u == [console[t] EXCEPT !.pc = "refused"]
    <3>1. u \in MikrotikTypes /\ u.pc = "refused" /\ u.reader = console[t].reader
      BY <1>1 DEF MikrotikTypes
    <3>2. console' = [console EXCEPT ![t] = u] /\ console[t].pc = "idle" /\ consoles' = consoles
      BY <1>1, <1>5, <2>1, MikrotikControlOf
    <3> HIDE DEF u
    <3>3. Reserved' = Reserved
      BY <1>3, <1>4, <3>1, <3>2
    <3>4. SeatsRight
      BY <1>1, <2>1, <3>2, <3>3, MikrotikShrinks
    <3> HIDE DEF SeatsRight
    <3> QED
      BY <1>1, <1>2, <3>1, <3>2, <3>4
  <2>2. CASE /\ console' = [console EXCEPT ![t] = [console[t] EXCEPT !.pc = "connect"]]
             /\ reserved' = reserved + 1 /\ ~(Cardinality(consoles) + reserved >= MaxTerminals)
    <3> DEFINE u == [console[t] EXCEPT !.pc = "connect"]
    <3>1. u \in MikrotikTypes /\ u.pc = "connect" /\ u.reader = console[t].reader
      BY <1>1 DEF MikrotikTypes
    <3>2. console' = [console EXCEPT ![t] = u] /\ console[t].pc = "idle" /\ consoles' = consoles
      BY <1>1, <1>5, <2>2, MikrotikControlOf
    <3> HIDE DEF u
    <3>3. Reserved' = Reserved \cup {t} /\ t \notin Reserved
      BY <1>3, <1>4, <3>1, <3>2
    <3>4. Cardinality(consoles) + Cardinality(Reserved) < MaxTerminals
      BY <1>1, <2>2, FS_CardinalityType
    <3>5. /\ IsFiniteSet(Reserved \cup {t})
          /\ Cardinality(Reserved \cup {t}) = Cardinality(Reserved) + 1
          /\ Cardinality(consoles \cup (Reserved \cup {t})) <= MaxTerminals
      <4> HIDE DEF Reserved
      <4> QED
        BY <1>1, <3>3, <3>4, RoomForOne
    <3>6. SeatsRight
      BY <1>1, <2>2, <3>2, <3>3, <3>5
    <3> HIDE DEF SeatsRight
    <3> QED
      BY <1>1, <1>2, <3>1, <3>2, <3>6
  <2> QED
    BY <1>1, <1>5, <2>1, <2>2, MikrotikControlOf
<1>6. CASE Terminals!Connect(t)
  <2>1. /\ console[t].pc = "connect" /\ consoles' = consoles /\ reserved' = reserved
        /\ \/ console' = [console EXCEPT ![t] = [console[t] EXCEPT !.pc = "insert", !.up = TRUE,
                                                         !.reader = "gated"]]
           \/ console' = [console EXCEPT ![t] = [console[t] EXCEPT !.pc = "give up"]]
    BY <1>1, <1>6, MikrotikControlOf
  <2>2. /\ [console[t] EXCEPT !.pc = "insert", !.up = TRUE, !.reader = "gated"] \in MikrotikTypes
        /\ [console[t] EXCEPT !.pc = "give up"] \in MikrotikTypes
    BY <1>1 DEF MikrotikTypes
  <2>3. PICK u \in MikrotikTypes :
          /\ console' = [console EXCEPT ![t] = u]
          /\ \/ u.pc = "insert" /\ u.reader = "gated"
             \/ u.pc = "give up" /\ u.reader = console[t].reader
    <3>1. /\ [console[t] EXCEPT !.pc = "insert", !.up = TRUE, !.reader = "gated"].pc = "insert"
          /\ [console[t] EXCEPT !.pc = "insert", !.up = TRUE, !.reader = "gated"].reader = "gated"
          /\ [console[t] EXCEPT !.pc = "give up"].pc = "give up"
          /\ [console[t] EXCEPT !.pc = "give up"].reader = console[t].reader
      BY <1>1 DEF MikrotikTypes
    <3> QED
      BY <2>1, <2>2, <3>1
  <2>4. Reserved' = Reserved
    BY <1>3, <1>4, <2>1, <2>3
  <2>5. SeatsRight
    BY <1>1, <2>1, <2>4, MikrotikShrinks
  <2> HIDE DEF SeatsRight
  <2> QED
    BY <1>1, <1>2, <2>1, <2>3, <2>5
<1>7. CASE Terminals!Insert(t)
  <2>1. PICK reader \in {"none", "reads", "exited"} :
          /\ console[t].pc = "insert" /\ consoles' = consoles \cup {t} /\ reserved' = reserved
          /\ console' = [console EXCEPT ![t] = [console[t] EXCEPT !.pc = "release", !.reader = reader]]
          /\ console[t].reader = "gated" => reader = "reads"
    BY <1>1, <1>7, MikrotikControlOf
  <2> DEFINE u == [console[t] EXCEPT !.pc = "release", !.reader = reader]
  <2>2. u \in MikrotikTypes /\ u.pc = "release" /\ u.reader = "reads"
    BY <1>1, <2>1 DEF MikrotikTypes
  <2>3. console' = [console EXCEPT ![t] = u]
    BY <2>1
  <2> HIDE DEF u
  <2>4. Reserved' = Reserved /\ t \in Reserved
    BY <1>3, <1>4, <2>1, <2>2, <2>3
  <2>5. SeatsRight
    BY <1>1, <2>1, <2>4, MikrotikShrinks
  <2> HIDE DEF SeatsRight
  <2> QED
    BY <1>1, <1>2, <2>1, <2>2, <2>3, <2>5
<1>8. CASE Terminals!Release(t)
  <2>1. PICK pc \in {"open", "failed"} :
          /\ console[t].pc \in {"release", "give up"} /\ consoles' = consoles
          /\ reserved' = reserved - 1
          /\ console' = [console EXCEPT ![t] = [console[t] EXCEPT !.pc = pc]]
    BY <1>1, <1>8, MikrotikControlOf
  <2> DEFINE u == [console[t] EXCEPT !.pc = pc]
  <2>2. u \in MikrotikTypes /\ u.pc = pc /\ u.reader = console[t].reader
    BY <1>1, <2>1 DEF MikrotikTypes
  <2>3. console' = [console EXCEPT ![t] = u]
    BY <2>1
  <2> HIDE DEF u
  <2>4. Reserved' = Reserved \ {t} /\ t \in Reserved
    BY <1>3, <1>4, <2>1, <2>2, <2>3
  <2>5. Cardinality(Reserved') = Cardinality(Reserved) - 1
    BY <1>1, <2>4, FS_RemoveElement
  <2>6. SeatsRight
    BY <1>1, <2>1, <2>4, <2>5, MikrotikShrinks
  <2> HIDE DEF SeatsRight
  <2> QED
    BY <1>1, <1>2, <2>1, <2>2, <2>3, <2>6, ZenonT(40)
<1>9. CASE Terminals!ReaderEnds(t) \/ Terminals!Close(t)
  <2> DEFINE u == [console[t] EXCEPT !.up = FALSE, !.reader = "exited"]
  <2>1. /\ consoles' = consoles \ {t} /\ reserved' = reserved
        /\ console[t].reader = "reads" \/ console[t].pc = "open"
        /\ console' = [console EXCEPT ![t] = u]
    BY <1>1, <1>9, MikrotikControlOf
  <2>2. u \in MikrotikTypes /\ u.pc = console[t].pc
    BY <1>1 DEF MikrotikTypes
  <2> HIDE DEF u
  <2>3. Reserved' = Reserved
    BY <1>3, <1>4, <2>1, <2>2
  <2>4. SeatsRight
    BY <1>1, <2>1, <2>3, MikrotikShrinks
  <2>5. u.pc # "insert"
    BY <1>1, <2>1, <2>2
  <2> HIDE DEF SeatsRight
  <2> QED
    BY <1>1, <1>2, <2>1, <2>2, <2>4, <2>5
<1>10. CASE Terminals!Drop(t)
  <2>1. /\ consoles' = consoles /\ reserved' = reserved
        /\ \/ console' = [console EXCEPT ![t] = [console[t] EXCEPT !.up = FALSE]]
           \/ console' = [console EXCEPT ![t] = [console[t] EXCEPT !.sink = FALSE]]
    BY <1>1, <1>10, MikrotikControlOf
  <2>2. PICK u \in MikrotikTypes :
          console' = [console EXCEPT ![t] = u] /\ u.pc = console[t].pc /\ u.reader = console[t].reader
    <3>1. /\ [console[t] EXCEPT !.up = FALSE] \in MikrotikTypes
          /\ [console[t] EXCEPT !.up = FALSE].pc = console[t].pc
          /\ [console[t] EXCEPT !.up = FALSE].reader = console[t].reader
          /\ [console[t] EXCEPT !.sink = FALSE] \in MikrotikTypes
          /\ [console[t] EXCEPT !.sink = FALSE].pc = console[t].pc
          /\ [console[t] EXCEPT !.sink = FALSE].reader = console[t].reader
      BY <1>1 DEF MikrotikTypes
    <3> QED
      BY <2>1, <3>1
  <2>3. Reserved' = Reserved
    BY <1>3, <1>4, <2>2
  <2>4. SeatsRight
    BY <1>1, <2>1, <2>3, MikrotikShrinks
  <2> HIDE DEF SeatsRight
  <2> QED
    BY <1>1, <1>2, <2>1, <2>2, <2>4
<1>11. CASE Terminals!Write(t)
  <2>1. consoles' = consoles \ {t} /\ reserved' = reserved /\ console' = console
    BY <1>1, <1>11, MikrotikControlOf
  <2>2. Reserved' = Reserved
    BY <2>1 DEF Reserved
  <2>3. SeatsRight
    BY <1>1, <2>1, <2>2, MikrotikShrinks
  <2> QED
    BY <1>1, <2>1, <2>2, <2>3, SMTT(30) DEF MikrotikInv, Terminals!NoDeadSlot
<1> HIDE DEF SeatsRight
<1> QED
  BY <1>5, <1>6, <1>7, <1>8, <1>9, <1>10, <1>11 DEF MikrotikMoves, Terminals!Step

LEMMA MikrotikInvariance ==
    ASSUME MaxTerminals \in Nat
    PROVE  Terminals!Init /\ [][Terminals!Next]_(Terminals!vars) => []MikrotikInv
<1>1. Terminals!Init => MikrotikInv
  <2> SUFFICES ASSUME Terminals!Init PROVE MikrotikInv
    OBVIOUS
  <2>1. Reserved = {} /\ consoles = {}
    BY DEF Terminals!Init, Terminals!Idle, Reserved
  <2>2. IsFiniteSet({}) /\ Cardinality({}) = 0
    BY FS_EmptySet
  <2> QED
    BY <2>1, <2>2 DEF Terminals!Init, Terminals!Idle, MikrotikInv, MikrotikTypes,
                      Terminals!NoDeadSlot
<1>2. MikrotikInv /\ [Terminals!Next]_(Terminals!vars) => MikrotikInv'
  <2> SUFFICES ASSUME MikrotikInv, [Terminals!Next]_(Terminals!vars) PROVE MikrotikInv'
    OBVIOUS
  <2>1. CASE UNCHANGED Terminals!vars
    BY <2>1 DEF Terminals!vars, MikrotikInv, Reserved, Terminals!NoDeadSlot
  <2>2. CASE Terminals!Next
    BY <2>2, MikrotikMove DEF Terminals!Next, MikrotikMoves
  <2> QED
    BY <2>1, <2>2
<1> QED
  BY <1>1, <1>2, PTL

\* However many opens shake hands at once, the cap on open terminals holds: a
\* terminal that counts twice for a moment costs a place, and never gains one.
THEOREM CapHoldsAlways ==
    ASSUME MaxTerminals \in Nat
    PROVE  Terminals!Init /\ [][Terminals!Next]_(Terminals!vars) => []Terminals!CapHolds
<1>1. MikrotikInv => Terminals!CapHolds
  <2> SUFFICES ASSUME MikrotikInv PROVE Cardinality(consoles) <= MaxTerminals
    BY SameSize DEF Terminals!CapHolds
  <2>1. /\ IsFiniteSet(consoles \cup Reserved) /\ MaxTerminals \in Nat
        /\ Cardinality(consoles \cup Reserved) <= MaxTerminals
    BY FS_Union DEF MikrotikInv
  <2> QED
    BY <2>1, StillRoom
<1> QED
  BY <1>1, MikrotikInvariance, PTL

\* Every open that is under way holds one reservation, and nothing else does:
\* an open that fails cannot wear the cap down.
THEOREM ReservationsExactAlways ==
    ASSUME MaxTerminals \in Nat
    PROVE  Terminals!Init /\ [][Terminals!Next]_(Terminals!vars) =>
               []Terminals!ReservationsExact
<1>1. MikrotikInv => Terminals!ReservationsExact
  BY SameSize DEF MikrotikInv, Reserved, Terminals!ReservationsExact
<1> QED
  BY <1>1, MikrotikInvariance, PTL

\* No slot is held by a terminal whose reader is gone, whenever the connection
\* ends: the gate keeps the reader from its end until the slot is filled.
THEOREM NoDeadSlotAlways ==
    ASSUME MaxTerminals \in Nat
    PROVE  Terminals!Init /\ [][Terminals!Next]_(Terminals!vars) => []Terminals!NoDeadSlot
<1>1. MikrotikInv => Terminals!NoDeadSlot
  BY DEF MikrotikInv
<1> QED
  BY <1>1, MikrotikInvariance, PTL

-----------------------------------------------------------------------------
(* The parts together *)

\* Names are told from the values that stand for none.
RoutersAssumption ==
    /\ SettingAssumption
    /\ ShellAssumption
    /\ Badly \notin Backups \cup Exports

\* The calls that the view keeps apart do not meet; see the modules.
ViewKeepsApart ==
    DeleteBusy = FALSE /\ EditBusy = FALSE /\ Overlap = FALSE /\ Late = FALSE

\* Every step is one of a part's own, or leaves the part as it is.
LEMMA PartSteps ==
    ASSUME [RoutersNext]_routersVars
    PROVE  /\ [Next]_vars /\ [Logs!Next]_(Logs!vars) /\ [Files!Next]_(Files!vars)
           /\ [Terminals!Next]_(Terminals!vars) /\ [Shells!Next]_(Shells!vars)
           /\ [Ticks!Next]_(Ticks!vars) /\ [Monitor!Next]_(Monitor!vars)
<1>1. [Next]_vars
  BY DEF RoutersNext, routersVars, vars
<1>2. [Logs!Next]_(Logs!vars)
  BY DEF RoutersNext, routersVars, logVars, Logs!vars
<1>3. [Files!Next]_(Files!vars)
  BY DEF RoutersNext, routersVars, fileVars, Files!vars
<1>4. [Terminals!Next]_(Terminals!vars)
  BY DEF RoutersNext, routersVars, termVars, Terminals!vars
<1>5. [Shells!Next]_(Shells!vars)
  BY DEF RoutersNext, routersVars, shellVars, Shells!vars, Shells!slots, Shells!world
<1>6. [Ticks!Next]_(Ticks!vars)
  BY DEF RoutersNext, routersVars, tickVars, Ticks!vars
<1>7. [Monitor!Next]_(Monitor!vars)
  BY DEF RoutersNext, routersVars, pollVars, Monitor!vars
<1> QED
  BY <1>1, <1>2, <1>3, <1>4, <1>5, <1>6, <1>7

\* A behaviour of the routers is one of each part.
LEMMA PartsRun ==
    RoutersSpec =>
        /\ Init /\ [][Next]_vars
        /\ Files!Init /\ [][Files!Next]_(Files!vars)
        /\ Terminals!Init /\ [][Terminals!Next]_(Terminals!vars)
        /\ Shells!Init /\ [][Shells!Next]_(Shells!vars)
<1>1. RoutersInit => Init /\ Files!Init /\ Terminals!Init /\ Shells!Init
  BY DEF RoutersInit
<1>2. [RoutersNext]_routersVars =>
        /\ [Next]_vars /\ [Files!Next]_(Files!vars)
        /\ [Terminals!Next]_(Terminals!vars) /\ [Shells!Next]_(Shells!vars)
  BY PartSteps
<1> QED
  BY <1>1, <1>2, PTL DEF RoutersSpec

\* However many starts connect at once and whatever is deleted when: a router is
\* polled by one task, and a task that polls is the one that stop() reaches.
THEOREM OneTaskEachHolds ==
    ASSUME RoutersAssumption
    PROVE  RoutersSpec => []OneTaskEach
<1>1. SettingAssumption
  BY DEF RoutersAssumption
<1>2. OnePollerPerRouter /\ Stoppable => OneTaskEach
  BY DEF OneTaskEach
<1> QED
  BY <1>1, <1>2, PartsRun, OnePollerPerRouterHolds, StoppableHolds, PTL

\* The history of a router that was polled is its own: every snapshot that was
\* read, an error only after failures in a row, and no column that a task and its
\* version probe undo for each other.
THEOREM HistoryTrueHolds ==
    ASSUME RoutersAssumption, ViewKeepsApart
    PROVE  RoutersSpec => HistoryTrue
<1>1. SettingAssumption /\ DeleteBusy = FALSE
  BY DEF RoutersAssumption, ViewKeepsApart
<1> QED
  BY <1>1, PartsRun, SnapshotsExactHolds, ErrorMeansStreakHolds, ColumnsKeptHolds,
     NoLateVersionHolds, PTL DEF HistoryTrue

\* The cap of the terminals counts each of them once, a dead one keeps no slot,
\* and the marks that keep a profile from deletion are exact.
THEOREM SlotsExactHolds ==
    ASSUME RoutersAssumption
    PROVE  RoutersSpec => []SlotsExact
<1>1. ShellAssumption /\ MaxTerminals \in Nat
  BY DEF RoutersAssumption, ShellAssumption
<1>2. Terminals!CapHolds /\ Terminals!ReservationsExact /\ Terminals!NoDeadSlot
        /\ Shells!MarksExact => SlotsExact
  BY DEF SlotsExact
<1> QED
  BY <1>1, <1>2, PartsRun, CapHoldsAlways, ReservationsExactAlways, NoDeadSlotAlways,
     MarksExactHolds, PTL

\* A password goes only to a server whose key the user trusted, and a pin is the
\* key of the address it was taken from.
THEOREM TrustHoldsAlways ==
    ASSUME RoutersAssumption, ViewKeepsApart
    PROVE  RoutersSpec => []TrustHolds
<1>1. ShellAssumption /\ EditBusy = FALSE
  BY DEF RoutersAssumption, ViewKeepsApart
<1>2. Shells!PasswordOnlyToTrusted /\ Shells!PinIsOfAddress => TrustHolds
  BY DEF TrustHolds
<1> QED
  BY <1>1, <1>2, PartsRun, PasswordOnlyToTrustedHolds, PinIsOfAddressHolds, PTL

\* After a backup the router is clean or the user told, a record names whole
\* files, and no call loses or replaces the file of another.
THEOREM BackupsWholeHolds ==
    ASSUME RoutersAssumption, ViewKeepsApart
    PROVE  RoutersSpec => BackupsWhole
<1>1. Overlap = FALSE /\ Late = FALSE /\ Badly \notin Backups \cup Exports
  BY DEF RoutersAssumption, ViewKeepsApart
<1> QED
  BY <1>1, PartsRun, RouterLeftCleanHolds, RecordsWholeHolds, CiphersWholeHolds,
     NoFileLostHolds, NotReplacedHolds, PTL DEF BackupsWhole
==============================================================================
