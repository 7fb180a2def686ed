------------------------- MODULE JobManagersProofs -------------------------
(***************************************************************************)
(* Proofs about the MTU search, about MTU runs and about LAN scans.        *)
(*                                                                         *)
(* The search, for every configuration and every path: type correctness,   *)
(* the refine interval, and the soundness of the exact and lower-bound     *)
(* results.  The interval alone is not inductive.  Bracket must know that  *)
(* the largest size it believes in is the floor or fits the path, and that *)
(* it never probes a size next to the floor; Refine must know that low     *)
(* fits the path unless it is the floor, that high does not, and that      *)
(* probing low itself happens only when low fits.                          *)
(*                                                                         *)
(* Runs and scans, for any number of start() calls, probes, hosts and      *)
(* failing database calls, and any sizes of channel and batch: the slots   *)
(* of MtuManager and ScanManager, the counts, batches and verdicts in the  *)
(* history, and that each is a session of SessionLog.  SlotInv and         *)
(* ScanSlotInv need no hypothesis.  MtuInv and ScanInv add who owns which  *)
(* row and what its probes or hosts are; clear_active, add_mtu_probe,      *)
(* finish_scan and flush_batch go by row id, which SQLite gives away       *)
(* again, so they need that only what is over is deleted                   *)
(* (DeleteBusy = FALSE).                                                   *)
(***************************************************************************)
EXTENDS JobManagers, TLAPS, WellFoundedInduction

-----------------------------------------------------------------------------
(* The search.                                                              *)

Fits(size) == PayloadToMtu(size) <= link

BaselineInv == phase = "baseline" => payload = BaselinePayload

BracketInv ==
    phase = "bracket" =>
        /\ okMtu \in Mtus /\ curMtu \in Mtus
        /\ okMtu < curMtu
        /\ FirstMtu <= curMtu
        /\ payload = curMtu - Overhead
        /\ okMtu = FloorMtu \/ okMtu <= link
        /\ okMtu - Overhead \in passed \cup {FloorPayload}

RefineInv ==
    phase = "refine" =>
        /\ low \in Payloads /\ high \in Payloads
        /\ RefineInterval
        /\ low = FloorPayload \/ Fits(low)
        /\ payload = low => Fits(low) /\ high = low + 1
        /\ ~Fits(high)

DoneInv == phase # "done" => result = NoResult

IInv ==
    /\ TypeOK
    /\ BaselineInv
    /\ BracketInv
    /\ RefineInv
    /\ DoneInv
    /\ ExactIsLinkMtu
    /\ LowerBoundSound

-----------------------------------------------------------------------------
(* The conversions.                                                        *)

\* Payload bounds are the MTU bounds minus the headers (no saturation).
LEMMA PayloadBounds ==
    /\ FloorPayload = FloorMtu - Overhead /\ FloorPayload \in Nat
    /\ CeilingPayload = CeilingMtu - Overhead /\ CeilingPayload \in Nat
    /\ FloorPayload + 1 < CeilingPayload
  BY ConfigAssumption DEF FloorPayload, CeilingPayload, SubSat

\* Clamping lands between the bounds, and keeps what is between them.
LEMMA ClampBounds ==
    ASSUME NEW n \in Int, NEW least \in Int, NEW most \in Int, least <= most
    PROVE  /\ Clamp(n, least, most) \in least..most
           /\ n \in least..most => Clamp(n, least, most) = n
  BY DEF Clamp

\* Inside the configured range mtu_to_payload subtracts the headers.
LEMMA MtuToPayloadInRange ==
    ASSUME NEW mtu \in Mtus
    PROVE  /\ MtuToPayload(mtu) = mtu - Overhead
           /\ MtuToPayload(mtu) \in Payloads
  BY ConfigAssumption, PayloadBounds
  DEF MtuToPayload, Mtus, Payloads, Clamp, SubSat

LEMMA HintToPayloadType ==
    ASSUME NEW hint \in Int
    PROVE  HintToPayload(hint) \in Payloads
<1>1. Clamp(hint, FloorMtu + 1, CeilingMtu) \in Mtus
  BY ConfigAssumption DEF Clamp, Mtus
<1> QED
  BY <1>1, MtuToPayloadInRange DEF HintToPayload

\* next_refine_payload stays inside the interval, and strictly inside unless
\* the interval has width one.
LEMMA NextRefinePayloadInside ==
    ASSUME NEW lo \in Nat, NEW hi \in Nat, NEW hint \in Int, lo < hi
    PROVE  /\ NextRefinePayload(lo, hi, hint) \in Nat
           /\ lo <= NextRefinePayload(lo, hi, hint)
           /\ NextRefinePayload(lo, hi, hint) < hi
           /\ NextRefinePayload(lo, hi, hint) = lo => hi = lo + 1
<1>1. HintToPayload(hint) \in Nat
  BY HintToPayloadType, PayloadBounds DEF Payloads
<1> DEFINE half == (hi - lo) \div 2
<1>2. half \in Nat /\ half < hi - lo /\ (half = 0 => hi = lo + 1)
  BY SMT
<1> QED
  BY <1>1, <1>2 DEF NextRefinePayload
-----------------------------------------------------------------------------
(* The inductive invariant.                                                *)

THEOREM InitIInv == Init => IInv
<1> SUFFICES ASSUME Init PROVE IInv
  OBVIOUS
<1>1. 1 \in 1..ConfirmAttempts
  BY ConfigAssumption DEF ConfirmAttempts
<1> QED
  BY <1>1 DEF Init, IInv, TypeOK, NoResult, BaselineInv, BracketInv, RefineInv, DoneInv,
              ExactIsLinkMtu, LowerBoundSound

\* What the path says about the probe on the wire.
LEMMA OutcomeMeaning ==
    ASSUME IInv, NEW o \in PathOutcome(payload)
    PROVE  /\ o.hint \in Int
           /\ o.type \in {"ok", "too-big", "timeout", "error"}
           /\ o.type = "ok" => Fits(payload)
           /\ o.type = "too-big" => ~Fits(payload)
  BY EnvironmentAssumption
  DEF PathOutcome, Ok, TooBig, Fault, NoHint, Fits

\* Starting or doubling the bracket keeps the invariant, provided the size
\* believed to pass does.
LEMMA EmitBracketProbeInv ==
    ASSUME IInv, NEW o \in PathOutcome(payload), Step(o),
           NEW mtu \in Mtus, NEW ok \in Mtus,
           ok < mtu, FirstMtu <= mtu,
           ok = FloorMtu \/ ok <= link,
           ok - Overhead \in passed' \cup {FloorPayload},
           phase # "done",
           EmitBracketProbe(mtu, ok)
    PROVE  IInv'
<1>1. MtuToPayload(mtu) = mtu - Overhead /\ MtuToPayload(mtu) \in Payloads
  BY MtuToPayloadInRange
<1>2. 1 \in 1..ConfirmAttempts
  BY ConfigAssumption DEF ConfirmAttempts
<1>3. TypeOK'
  BY <1>1, <1>2 DEF IInv, TypeOK, EmitBracketProbe, EmitProbe, Step
<1>4. BracketInv'
  BY <1>1 DEF BracketInv, EmitBracketProbe, EmitProbe, Step
<1>5. BaselineInv' /\ RefineInv' /\ DoneInv'
  BY DEF IInv, BaselineInv, RefineInv, DoneInv, EmitBracketProbe, EmitProbe
<1>6. ExactIsLinkMtu' /\ LowerBoundSound'
  BY DEF IInv, ExactIsLinkMtu, LowerBoundSound, EmitBracketProbe, EmitProbe, Step
<1> QED
  BY <1>3, <1>4, <1>5, <1>6 DEF IInv

\* So does a refine probe between two sizes on the right sides of the path.
LEMMA EmitRefineProbeInv ==
    ASSUME IInv, NEW o \in PathOutcome(payload), Step(o),
           NEW lo \in Payloads, NEW hi \in Payloads, NEW hint \in Int,
           lo < hi,
           lo = FloorPayload \/ Fits(lo),
           hi = lo + 1 => Fits(lo),
           ~Fits(hi),
           lo \in passed' \cup {FloorPayload},
           hi \in rejected',
           phase # "done",
           EmitRefineProbe(lo, hi, hint)
    PROVE  IInv'
<1> DEFINE size == NextRefinePayload(lo, hi, hint)
<1>1. lo \in Nat /\ hi \in Nat
  BY PayloadBounds DEF Payloads
<1>2. size \in Nat /\ lo <= size /\ size < hi /\ (size = lo => hi = lo + 1)
  BY <1>1, NextRefinePayloadInside
<1>3. size \in Payloads
  BY <1>1, <1>2, PayloadBounds DEF Payloads
<1>4. 1 \in 1..ConfirmAttempts
  BY ConfigAssumption DEF ConfirmAttempts
<1>5. TypeOK'
  BY <1>3, <1>4 DEF IInv, TypeOK, EmitRefineProbe, EmitProbe, Step
<1>6. RefineInv'
  <2>1. low' = lo /\ high' = hi /\ payload' = size /\ link' = link
    BY DEF EmitRefineProbe, EmitProbe, Step
  <2> QED
    BY <1>2, <2>1 DEF RefineInv, RefineInterval, Fits
<1>7. BaselineInv' /\ BracketInv' /\ DoneInv'
  BY DEF IInv, BaselineInv, BracketInv, DoneInv, EmitRefineProbe, EmitProbe
<1>8. ExactIsLinkMtu' /\ LowerBoundSound'
  BY DEF IInv, ExactIsLinkMtu, LowerBoundSound, EmitRefineProbe, EmitProbe, Step
<1> QED
  BY <1>5, <1>6, <1>7, <1>8 DEF IInv

\* A sound result may be reported from any phase.
LEMMA FinishInv ==
    ASSUME IInv, NEW o \in PathOutcome(payload), Step(o), NEW kind, Finish(kind),
           kind \in [kind : {"exact", "lower-bound", "unreachable", "failed"},
                     mtu : {0} \cup Mtus, tried : {0} \cup Mtus],
           kind.kind = "exact" /\ FloorMtu <= link => kind.mtu = link,
           kind.kind = "lower-bound" /\ FloorMtu <= link => kind.mtu <= link
    PROVE  IInv'
<1>1. TypeOK'
  BY DEF IInv, TypeOK, Finish, Step
<1>2. BaselineInv' /\ BracketInv' /\ RefineInv' /\ DoneInv'
  BY DEF BaselineInv, BracketInv, RefineInv, DoneInv, Finish
<1>3. ExactIsLinkMtu' /\ LowerBoundSound'
  BY DEF ExactIsLinkMtu, LowerBoundSound, Finish, Step
<1> QED
  BY <1>1, <1>2, <1>3 DEF IInv

\* Sending the same size again changes nothing the invariant speaks of.
LEMMA RetryInv ==
    ASSUME IInv, NEW o \in PathOutcome(payload), Step(o), o.type = "timeout",
           phase # "done", Retry(payload)
    PROVE  IInv'
<1>1. attempts + 1 \in 1..ConfirmAttempts
  BY ConfigAssumption DEF IInv, TypeOK, Retry, ConfirmAttempts
<1>2. passed' = passed /\ rejected' = rejected /\ link' = link
  BY DEF Step
<1>3. TypeOK'
  BY <1>1, <1>2 DEF IInv, TypeOK, Retry, EmitProbe
<1>4. BaselineInv' /\ BracketInv' /\ RefineInv' /\ DoneInv'
  BY <1>2 DEF IInv, BaselineInv, BracketInv, RefineInv, RefineInterval, Fits,
     PayloadToMtu,
              DoneInv, Retry, EmitProbe
<1>5. ExactIsLinkMtu' /\ LowerBoundSound'
  BY <1>2 DEF IInv, ExactIsLinkMtu, LowerBoundSound, Retry, EmitProbe
<1> QED
  BY <1>3, <1>4, <1>5 DEF IInv

-----------------------------------------------------------------------------
(* One lemma per phase.                                                    *)

LEMMA BaselineStep ==
    ASSUME IInv, NEW o \in PathOutcome(payload), Step(o), StepBaseline(o)
    PROVE  IInv'
<1> USE DEF StepBaseline
<1>1. CASE o.type = "ok"
  <2>1. Clamp(FirstMtu, FloorMtu, CeilingMtu) = FirstMtu /\ FirstMtu \in Mtus
    BY <1>1, ConfigAssumption, ClampBounds DEF Mtus
  <2>2. FloorMtu \in Mtus /\ FloorMtu < FirstMtu /\ FirstMtu <= FirstMtu
    BY ConfigAssumption DEF Mtus
  <2>3. FloorMtu - Overhead \in passed' \cup {FloorPayload}
    BY PayloadBounds
  <2>4. EmitBracketProbe(FirstMtu, FloorMtu)
    BY <1>1, <2>1
  <2> QED
    BY <2>1, <2>2, <2>3, <2>4, EmitBracketProbeInv
<1>2. CASE o.type \in {"too-big", "error"}
  BY <1>2, FinishInv DEF Failed, Finish
<1>3. CASE o.type = "timeout"
  <2>1. CASE Retry(BaselinePayload)
    <3>1. payload = BaselinePayload
      BY DEF IInv, BaselineInv
    <3> QED
      BY <1>3, <2>1, <3>1, RetryInv
  <2>2. CASE Finish(Unreachable)
    BY <2>2, FinishInv DEF Unreachable
  <2> QED
    BY <1>3, <2>1, <2>2
<1> QED
  BY <1>1, <1>2, <1>3, OutcomeMeaning

LEMMA BracketStep ==
    ASSUME IInv, NEW o \in PathOutcome(payload), Step(o), StepBracket(o)
    PROVE  IInv'
<1> USE DEF StepBracket
<1>1. /\ okMtu \in Mtus /\ curMtu \in Mtus
      /\ okMtu < curMtu /\ FirstMtu <= curMtu
      /\ payload = curMtu - Overhead
      /\ okMtu = FloorMtu \/ okMtu <= link
      /\ okMtu - Overhead \in passed \cup {FloorPayload}
  BY DEF IInv, BracketInv
<1>2. /\ okMtu \in Nat /\ curMtu \in Nat /\ link \in Nat
      /\ FloorMtu <= okMtu /\ curMtu <= CeilingMtu
  BY <1>1, ConfigAssumption, EnvironmentAssumption DEF Mtus, IInv, TypeOK
<1>3. Fits(payload) <=> curMtu <= link
  BY <1>1, <1>2, ConfigAssumption DEF Fits, PayloadToMtu
<1>4. CASE o.type = "ok"
  <2>1. curMtu <= link
    BY <1>3, <1>4, OutcomeMeaning
  <2>2. CASE curMtu = CeilingMtu /\ Finish(CeilingReached)
    <3>1. CeilingMtu \in Mtus
      BY <1>1, <2>2
    <3> QED
      BY <2>1, <2>2, <3>1, FinishInv DEF CeilingReached
  <2>3. CASE /\ curMtu # CeilingMtu
             /\ EmitBracketProbe(Clamp(2 * curMtu, 0, CeilingMtu), curMtu)
    <3> DEFINE next == Clamp(2 * curMtu, 0, CeilingMtu)
    <3>1. next \in Mtus /\ curMtu < next /\ FirstMtu <= next
      BY <1>1, <1>2, <2>3, ConfigAssumption DEF Clamp, Mtus
    <3>2. curMtu - Overhead \in passed'
      BY <1>1, <1>4 DEF Step
    <3> QED
      BY <1>1, <2>1, <2>3, <3>1, <3>2, EmitBracketProbeInv
  <2> QED
    BY <1>4, <2>2, <2>3
<1>5. CASE o.type = "too-big"
  <2> DEFINE lo == MtuToPayload(okMtu)
             hi == MtuToPayload(curMtu)
  <2>1. /\ lo = okMtu - Overhead /\ lo \in Payloads
        /\ hi = curMtu - Overhead /\ hi \in Payloads
    BY <1>1, MtuToPayloadInRange
  <2>2. lo < hi
    BY <1>1, <1>2, <2>1, ConfigAssumption
  <2>3. lo = FloorPayload \/ Fits(lo)
    BY <1>1, <1>2, <2>1, PayloadBounds, ConfigAssumption DEF Fits, PayloadToMtu
  <2>4. hi = lo + 1 => Fits(lo)
    <3>1. hi = lo + 1 => okMtu # FloorMtu
      BY <1>1, <1>2, <2>1, ConfigAssumption
    <3> QED
      BY <1>1, <1>2, <2>1, <3>1, ConfigAssumption DEF Fits, PayloadToMtu
  <2>5. ~Fits(hi) /\ hi \in rejected'
    BY <1>1, <1>5, <2>1, OutcomeMeaning DEF Step
  <2>6. lo \in passed' \cup {FloorPayload}
    BY <1>1, <2>1 DEF Step
  <2>7. EmitRefineProbe(lo, hi, o.hint) /\ o.hint \in Int
    BY <1>5, OutcomeMeaning
  <2> HIDE DEF lo, hi
  <2> QED
    BY <2>1, <2>2, <2>3, <2>4, <2>5, <2>6, <2>7, EmitRefineProbeInv
<1>6. CASE o.type = "timeout"
  <2>1. CASE Retry(MtuToPayload(curMtu))
    BY <1>1, <1>6, <2>1, MtuToPayloadInRange, RetryInv
  <2>2. CASE Finish(TimeoutAbove(okMtu, curMtu))
    <3>1. FloorMtu <= link => okMtu <= link
      BY <1>1
    <3> QED
      BY <1>1, <2>2, <3>1, FinishInv DEF TimeoutAbove
  <2> QED
    BY <1>6, <2>1, <2>2
<1>7. CASE o.type = "error"
  BY <1>7, FinishInv DEF Failed
<1> QED
  BY <1>4, <1>5, <1>6, <1>7, OutcomeMeaning

\* Closing the interval reports it, or tries the next size inside it.
LEMMA ContinueRefineInv ==
    ASSUME IInv, NEW o \in PathOutcome(payload), Step(o),
           NEW lo \in Payloads, NEW hi \in Payloads, NEW hint \in Int,
           lo < hi,
           lo = FloorPayload \/ Fits(lo),
           ~Fits(hi),
           lo \in passed' \cup {FloorPayload},
           hi \in rejected',
           phase # "done",
           ContinueRefine(lo, hi, hint)
    PROVE  IInv'
<1>1. /\ lo \in Nat /\ hi \in Nat /\ link \in Nat
      /\ FloorMtu <= lo + Overhead /\ lo + Overhead <= CeilingMtu
  BY PayloadBounds, ConfigAssumption, EnvironmentAssumption
  DEF Payloads, IInv, TypeOK
<1>2. CASE hi = lo + 1 /\ Finish(Exact(PayloadToMtu(lo)))
  <2>1. PayloadToMtu(lo) \in Mtus
    BY <1>1, ConfigAssumption DEF PayloadToMtu, Mtus
  <2>2. FloorMtu <= link => PayloadToMtu(lo) = link
    <3>1. FloorMtu <= link => lo + Overhead <= link
      BY PayloadBounds, ConfigAssumption, <1>1 DEF Fits, PayloadToMtu
    <3>2. link < hi + Overhead
      BY <1>1, ConfigAssumption DEF Fits, PayloadToMtu
    <3> QED
      BY <1>1, <1>2, <3>1, <3>2, ConfigAssumption DEF PayloadToMtu
  <2> QED
    BY <1>2, <2>1, <2>2, FinishInv DEF Exact
<1>3. CASE hi # lo + 1 /\ EmitRefineProbe(lo, hi, hint)
  BY <1>3, EmitRefineProbeInv
<1> QED
  BY <1>2, <1>3 DEF ContinueRefine

LEMMA RefineStep ==
    ASSUME IInv, NEW o \in PathOutcome(payload), Step(o), StepRefine(o)
    PROVE  IInv'
<1> USE DEF StepRefine
<1>1. /\ low \in Payloads /\ high \in Payloads
      /\ low <= payload /\ payload < high
      /\ low \in passed \cup {FloorPayload} /\ high \in rejected
      /\ low = FloorPayload \/ Fits(low)
      /\ payload = low => Fits(low)
      /\ ~Fits(high)
  BY DEF IInv, RefineInv, RefineInterval
<1>2. /\ low \in Nat /\ high \in Nat /\ payload \in Nat /\ link \in Nat
      /\ payload \in Payloads
  BY <1>1, PayloadBounds, ConfigAssumption, EnvironmentAssumption
  DEF Payloads, IInv, TypeOK
<1>3. CASE o.type = "ok"
  <2>1. Fits(payload) /\ payload \in passed' /\ high \in rejected'
    BY <1>1, <1>3, OutcomeMeaning DEF Step
  <2>2. ContinueRefine(payload, high, NoHint) /\ NoHint \in Int
    BY <1>3 DEF NoHint
  <2> QED
    BY <1>1, <1>2, <2>1, <2>2, ContinueRefineInv
<1>4. CASE o.type = "too-big"
  <2>1. ~Fits(payload) /\ payload \in rejected'
    BY <1>4, OutcomeMeaning DEF Step
  <2>2. low < payload
    BY <1>1, <1>2, <2>1
  <2>3. low \in passed' \cup {FloorPayload}
    BY <1>1, <1>4 DEF Step
  <2>4. ContinueRefine(low, payload, o.hint) /\ o.hint \in Int
    BY <1>1, <1>4, OutcomeMeaning
  <2> QED
    BY <1>1, <1>2, <2>1, <2>2, <2>3, <2>4, ContinueRefineInv
<1>5. CASE o.type = "timeout"
  <2>1. CASE Retry(payload)
    BY <1>5, <2>1, RetryInv
  <2>2. CASE Finish(TimeoutAbove(PayloadToMtu(low), PayloadToMtu(payload)))
    <3>1. PayloadToMtu(low) \in Mtus /\ PayloadToMtu(payload) \in Mtus
      BY <1>1, <1>2, PayloadBounds, ConfigAssumption
      DEF PayloadToMtu, Mtus, Payloads
    <3>2. FloorMtu <= link => PayloadToMtu(low) <= link
      BY <1>1, <1>2, PayloadBounds, ConfigAssumption DEF Fits, PayloadToMtu
    <3> QED
      BY <2>2, <3>1, <3>2, FinishInv DEF TimeoutAbove
  <2> QED
    BY <1>5, <2>1, <2>2
<1>6. CASE o.type = "error"
  BY <1>6, FinishInv DEF Failed
<1> QED
  BY <1>3, <1>4, <1>5, <1>6, OutcomeMeaning

THEOREM NextIInv == IInv /\ [Next]_vars => IInv'
<1> SUFFICES ASSUME IInv, [Next]_vars PROVE IInv'
  OBVIOUS
<1>1. CASE \E o \in PathOutcome(payload) : Step(o)
  <2>1. PICK o \in PathOutcome(payload) : Step(o)
    BY <1>1
  <2> QED
    BY <2>1, BaselineStep, BracketStep, RefineStep DEF Step
<1>2. CASE UNCHANGED vars
  BY <1>2 DEF vars, IInv, TypeOK, BaselineInv, BracketInv, RefineInv, DoneInv,
              RefineInterval, Fits, PayloadToMtu, ExactIsLinkMtu, LowerBoundSound
<1> QED
  BY <1>1, <1>2 DEF Next, StepDone

-----------------------------------------------------------------------------
(* The results.                                                            *)

\* The inductive invariant holds in every reachable state.
THEOREM Invariance == Init /\ [][Next]_vars => []IInv
  BY InitIInv, NextIInv, PTL

\* Every probe lies between the configured bounds or is the baseline.
THEOREM TypeCorrect == Init /\ [][Next]_vars => []TypeOK
<1>1. IInv => TypeOK
  BY DEF IInv
<1> QED
  BY <1>1, Invariance, PTL

\* An outcome is never filed on the wrong side of the refine interval.
THEOREM RefineIntervalHolds == Init /\ [][Next]_vars => []RefineInterval
<1>1. IInv => RefineInterval
  BY DEF IInv, RefineInv, RefineInterval
<1> QED
  BY <1>1, Invariance, PTL

\* The bisection's variant: a new size is tried only in a smaller interval.
THEOREM RefineShrinksAlways == Init /\ [][Next]_vars => RefineShrinks
<1>1. ASSUME IInv, Next, phase = "refine", phase' = "refine", attempts' = 1
      PROVE  high' - low' < high - low
  <2>1. /\ low \in Nat /\ high \in Nat /\ payload \in Nat
        /\ low <= payload /\ payload < high
        /\ payload = low => Fits(low) /\ high = low + 1
        /\ attempts \in 1..ConfirmAttempts
    BY <1>1, PayloadBounds, ConfigAssumption
    DEF IInv, TypeOK, RefineInv, RefineInterval, Payloads
  <2>2. PICK o \in PathOutcome(payload) : StepRefine(o)
    BY <1>1 DEF Next, StepDone, Step, StepBaseline, StepBracket
  <2>3. CASE o.type = "ok"
    <3>1. low' = payload /\ high' = high /\ high # payload + 1
      BY <1>1, <2>2, <2>3
      DEF StepRefine, ContinueRefine, Finish, EmitRefineProbe
    <3> QED
      BY <2>1, <3>1
  <2>4. CASE o.type = "too-big"
    <3>1. ~Fits(payload)
      BY <1>1, <2>4, OutcomeMeaning
    <3>2. low' = low /\ high' = payload
      BY <1>1, <2>1, <2>2, <2>4
      DEF StepRefine, ContinueRefine, Finish, EmitRefineProbe
    <3> QED
      BY <2>1, <3>1, <3>2
  <2>5. CASE o.type = "timeout"
    <3>1. attempts' = attempts + 1
      BY <1>1, <2>2, <2>5 DEF StepRefine, Retry, EmitProbe, Finish
    <3> QED
      BY <1>1, <2>1, <3>1
  <2>6. CASE o.type = "error"
    BY <1>1, <2>2, <2>6 DEF StepRefine, Finish
  <2> QED
    BY <1>1, <2>3, <2>4, <2>5, <2>6, OutcomeMeaning
<1>2. IInv /\ [Next]_vars
      => [phase = "refine" /\ phase' = "refine" /\ attempts' = 1
            => high' - low' < high - low]_vars
  BY <1>1
<1> QED
  BY <1>2, Invariance, PTL DEF RefineShrinks

\* For every configuration, path MTU, loss pattern and hint: an exact result
\* is the MTU of the path.
THEOREM ExactResultCorrect == Init /\ [][Next]_vars => []ExactIsLinkMtu
<1>1. IInv => ExactIsLinkMtu
  BY DEF IInv
<1> QED
  BY <1>1, Invariance, PTL

\* And a lower bound is a size the path carries.
THEOREM LowerBoundCorrect == Init /\ [][Next]_vars => []LowerBoundSound
<1>1. IInv => LowerBoundSound
  BY DEF IInv
<1> QED
  BY <1>1, Invariance, PTL

-----------------------------------------------------------------------------
(* A path that answers anything at any time.  Here low need not fit and    *)
(* high need not be rejected, and the interval may become empty; what      *)
(* remains is its order.                                                   *)

MovingBracket ==
    phase = "bracket" =>
        okMtu \in Mtus /\ curMtu \in Mtus /\ okMtu < curMtu

MovingRefine ==
    phase = "refine" =>
        /\ low \in Nat /\ high \in Nat /\ payload \in Nat
        /\ IntervalOrdered

MovingInv == MovingBracket /\ MovingRefine

LEMMA MovingOutcome ==
    ASSUME NEW o \in Outcome
    PROVE  o.hint \in Int /\ o.type \in {"ok", "too-big", "timeout", "error"}
  BY EnvironmentAssumption DEF Outcome, Ok, TooBig, Fault, NoHint

\* A refine probe between two ordered sizes stays between them.
LEMMA EmitRefineProbeOrdered ==
    ASSUME NEW lo \in Nat, NEW hi \in Nat, NEW hint \in Int, lo <= hi,
           EmitRefineProbe(lo, hi, hint)
    PROVE  MovingInv'
<1> DEFINE size == NextRefinePayload(lo, hi, hint)
           half == (hi - lo) \div 2
<1>1. HintToPayload(hint) \in Nat
  BY HintToPayloadType, PayloadBounds DEF Payloads
<1>2. half \in Nat /\ half <= hi - lo
  BY SMT
<1>3. size \in Nat /\ lo <= size /\ size <= hi
  BY <1>1, <1>2 DEF NextRefinePayload
<1>4. low' = lo /\ high' = hi /\ payload' = size /\ phase' = "refine"
  BY DEF EmitRefineProbe, EmitProbe
<1> HIDE DEF size
<1> QED
  BY <1>3, <1>4 DEF MovingInv, MovingBracket, MovingRefine, IntervalOrdered

\* A finished search has no interval.
LEMMA FinishOrdered ==
    ASSUME NEW kind, Finish(kind)
    PROVE  MovingInv'
  BY DEF Finish, MovingInv, MovingBracket, MovingRefine

\* A retry leaves the interval and the size alone.
LEMMA RetryOrdered ==
    ASSUME MovingInv, NEW size, Retry(size), phase = "refine" => size = payload
    PROVE  MovingInv'
  BY DEF Retry, EmitProbe, MovingInv, MovingBracket, MovingRefine, IntervalOrdered

LEMMA ContinueRefineOrdered ==
    ASSUME NEW lo \in Nat, NEW hi \in Nat, NEW hint \in Int, lo <= hi,
           ContinueRefine(lo, hi, hint)
    PROVE  MovingInv'
  BY EmitRefineProbeOrdered, FinishOrdered DEF ContinueRefine

LEMMA EmitBracketProbeOrdered ==
    ASSUME NEW mtu \in Mtus, NEW ok \in Mtus, ok < mtu, EmitBracketProbe(mtu, ok)
    PROVE  MovingInv'
  BY DEF EmitBracketProbe, EmitProbe, MovingInv, MovingBracket, MovingRefine

LEMMA MovingStep ==
    ASSUME MovingInv, NEW o \in Outcome, Step(o)
    PROVE  MovingInv'
<1>1. o.hint \in Int /\ o.type \in {"ok", "too-big", "timeout", "error"}
  BY MovingOutcome
<1>2. CASE StepBaseline(o)
  <2>1. Clamp(FirstMtu, FloorMtu, CeilingMtu) \in Mtus /\ FloorMtu \in Mtus
        /\ FloorMtu < Clamp(FirstMtu, FloorMtu, CeilingMtu)
    BY ConfigAssumption DEF Clamp, Mtus
  <2>2. phase = "baseline"
    BY <1>2 DEF StepBaseline
  <2> QED
    BY <1>2, <2>1, <2>2, EmitBracketProbeOrdered, FinishOrdered, RetryOrdered
       DEF StepBaseline
<1>3. CASE StepBracket(o)
  <2>1. phase = "bracket" /\ okMtu \in Mtus /\ curMtu \in Mtus /\ okMtu < curMtu
    BY <1>3 DEF StepBracket, MovingInv, MovingBracket
  <2>2. CASE /\ curMtu # CeilingMtu
             /\ EmitBracketProbe(Clamp(2 * curMtu, 0, CeilingMtu), curMtu)
    <3>1. /\ Clamp(2 * curMtu, 0, CeilingMtu) \in Mtus
          /\ curMtu < Clamp(2 * curMtu, 0, CeilingMtu)
      BY <2>1, <2>2, ConfigAssumption DEF Clamp, Mtus
    <3> QED
      BY <2>1, <2>2, <3>1, EmitBracketProbeOrdered
  <2>3. CASE EmitRefineProbe(MtuToPayload(okMtu), MtuToPayload(curMtu), o.hint)
    <3>1. /\ MtuToPayload(okMtu) = okMtu - Overhead /\ MtuToPayload(okMtu) \in Nat
          /\ MtuToPayload(curMtu) = curMtu - Overhead /\ MtuToPayload(curMtu) \in Nat
      BY <2>1, MtuToPayloadInRange, PayloadBounds DEF Payloads
    <3>2. MtuToPayload(okMtu) <= MtuToPayload(curMtu)
      BY <2>1, <3>1, ConfigAssumption DEF Mtus
    <3> QED
      BY <1>1, <2>3, <3>1, <3>2, EmitRefineProbeOrdered
  <2> QED
    BY <1>3, <2>1, <2>2, <2>3, FinishOrdered, RetryOrdered DEF StepBracket
<1>4. CASE StepRefine(o)
  <2>1. /\ phase = "refine" /\ low \in Nat /\ high \in Nat /\ payload \in Nat
        /\ low <= payload /\ payload <= high
    BY <1>4 DEF StepRefine, MovingInv, MovingRefine, IntervalOrdered
  <2>2. NoHint \in Int
    BY DEF NoHint
  <2> QED
    BY <1>1, <1>4, <2>1, <2>2, ContinueRefineOrdered, FinishOrdered, RetryOrdered
    DEF StepRefine
<1> QED
  BY <1>2, <1>3, <1>4 DEF Step

\* Whatever the path answers, the refine interval is never inverted: the
\* subtraction in the midpoint does not underflow.
THEOREM IntervalNeverInverted == MovingSpec => []IntervalOrdered
<1>1. Init => MovingInv
  BY DEF Init, MovingInv, MovingBracket, MovingRefine
<1>2. MovingInv /\ [MovingNext]_vars => MovingInv'
  <2> SUFFICES ASSUME MovingInv, [MovingNext]_vars PROVE MovingInv'
    OBVIOUS
  <2>1. CASE UNCHANGED vars
    BY <2>1 DEF vars, MovingInv, MovingBracket, MovingRefine, IntervalOrdered
  <2>2. CASE \E o \in Outcome : Step(o)
    BY <2>2, MovingStep
  <2> QED
    BY <2>1, <2>2 DEF MovingNext, StepDone
<1>3. MovingInv => IntervalOrdered
  BY DEF MovingInv, MovingRefine, IntervalOrdered
<1> QED
  BY <1>1, <1>2, <1>3, PTL DEF MovingSpec

-----------------------------------------------------------------------------
(* MTU runs.                                                                *)

Labels == {"idle", "refused", "failed", "check", "attempt", "save", "finish",
           "done", "clear", "broken", "ended"}

RunTypes == [pc : Labels, id : Nat, stop : BOOLEAN,
             stopper : {"none", "joining", "returned"}, shown : Nat, settled : Nat]

RowTypes == [owner : Runs, result : {"open", "cancelled", "found"}, sent : Nat]

RowsBounded == \E n \in Nat : \A i \in Mtu!ids : i <= n

TypeInv ==
    /\ mtuSlot \in Runs \cup {NoRun}
    /\ run \in [Runs -> RunTypes]
    /\ Mtu!ids \subseteq Nat \ {0} /\ RowsBounded
    /\ mtuRows \in [Mtu!ids -> RowTypes]
    /\ mtuDbErrors \in Nat

\* One outcome at a time is on its way to the table; a run has an id from the
\* moment its row exists.
CountOf(r) ==
    /\ run[r].shown = IF run[r].pc = "save" THEN run[r].settled + 1 ELSE run[r].settled
    /\ run[r].id = 0 <=> run[r].pc \in {"idle", "refused", "failed"}
    /\ run[r].id = 0 => run[r].settled = 0

\* A full slot holds a run that is going, or one whose row could not be closed.
SlotHeld == mtuSlot # NoRun => Mtu!Busy(mtuSlot) \/ run[mtuSlot].pc = "broken"

SlotInv == TypeInv /\ (\A r \in Runs : CountOf(r)) /\ SlotHeld

\* A run that is going has its row, and can be stopped.
OwnRow(r) == Mtu!Busy(r) => run[r].id \in Mtu!ids /\ mtuRows[run[r].id].owner = r

\* A row belongs to the run that has its id, and is closed with its count when
\* that run has closed it.
OwnedRow(i) ==
    LET r == mtuRows[i].owner IN
    /\ run[r].id = i
    /\ IF run[r].pc \in {"clear", "ended"}
       THEN mtuRows[i].result # "open" /\ mtuRows[i].sent = run[r].shown
       ELSE mtuRows[i].result = "open"

\* A probe belongs to its row's run and has been settled.
OwnProbe(p) ==
    /\ p.id \in Mtu!ids /\ p.owner = mtuRows[p.id].owner
    /\ p.seq \in 1..run[p.owner].settled

\* With a database that works, every settled probe of a row is stored.
AllStored(i) == 1..run[mtuRows[i].owner].settled \subseteq {p.seq : p \in {x \in probes : x.id = i}}

MtuInv ==
    /\ SlotInv
    /\ \A r \in Runs : OwnRow(r)
    /\ \A i \in Mtu!ids : OwnedRow(i)
    /\ \A p \in probes : OwnProbe(p)
    /\ mtuDbErrors = 0 => \A i \in Mtu!ids : AllStored(i)
    /\ Mtu!Stoppable

-----------------------------------------------------------------------------
(* The next rowid.                                                         *)

\* A bounded set of row ids has a largest one (0 when it is empty).
LEMMA MaxIdExists ==
    ASSUME Mtu!ids \subseteq Nat \ {0}, RowsBounded
    PROVE  \E m \in Mtu!ids \cup {0} : \A i \in Mtu!ids : i <= m
<1> DEFINE bounds == {n \in Nat : \A i \in Mtu!ids : i <= n}
<1> HIDE DEF Mtu!ids
<1>1. bounds # {} /\ bounds \subseteq Nat
  BY DEF RowsBounded
<1>2. PICK m \in bounds : \A n \in bounds : ~(<<n, m>> \in OpToRel(<, Nat))
  <2> HIDE DEF bounds
  <2>1. IsWellFoundedOn(OpToRel(<, Nat), bounds)
    BY <1>1, NatLessThanWellFounded, IsWellFoundedOnSubset, Zenon
  <2> QED
    BY <1>1, <2>1, WFMin, Zenon
<1>3. \A n \in bounds : ~(n < m)
  BY <1>1, <1>2 DEF OpToRel
<1>4. m \in Mtu!ids \cup {0}
  <2> SUFFICES ASSUME m \notin Mtu!ids, m # 0
               PROVE  FALSE
    OBVIOUS
  <2>1. m - 1 \in Nat /\ \A i \in Mtu!ids : i <= m - 1
    OBVIOUS
  <2> QED
    BY <1>3, <2>1
<1> QED
  BY <1>4

\* The rowid of a new row is positive and above every row.
LEMMA NextIdProps ==
    ASSUME TypeInv
    PROVE  Mtu!NextId \in Nat \ {0} /\ \A i \in Mtu!ids : i < Mtu!NextId
<1> DEFINE m == CHOOSE m \in Mtu!ids \cup {0} : \A i \in Mtu!ids : i <= m
<1>1. m \in Mtu!ids \cup {0} /\ \A i \in Mtu!ids : i <= m
  BY MaxIdExists DEF TypeInv
<1>2. Mtu!NextId = 1 + m
  BY DEF Mtu!NextId
<1> HIDE DEF m
<1> QED
  BY <1>1, <1>2 DEF TypeInv

-----------------------------------------------------------------------------
(* What the steps do.                                                      *)

\* The actions of the module.
LEMMA MtuSteps ==
    ASSUME [Mtu!Next]_(Mtu!vars)
    PROVE  \/ UNCHANGED Mtu!vars
           \/ \E r \in Runs : Mtu!Start(r) \/ Mtu!Stop(r) \/ Mtu!StopReturn(r) \/ Mtu!Check(r) \/ Mtu!Attempt(r)
                              \/ Mtu!Save(r) \/ Mtu!Cancel(r) \/ Mtu!Finish(r) \/ Mtu!Clear(r)
           \/ \E i \in Mtu!ids : Mtu!Delete(i)
  BY DEF Mtu!Next, Mtu!RunStep

\* A new run gets the next id and a row; nothing else changes.
LEMMA StartEffect ==
    ASSUME TypeInv, NEW r \in Runs, Mtu!Start(r)
    PROVE  /\ run[r].pc = "idle" /\ run' = [run EXCEPT ![r] = run'[r]]
           /\ run'[r] \in RunTypes /\ run'[r].shown = run[r].shown
           /\ run'[r].settled = run[r].settled /\ run'[r].stop = run[r].stop
           /\ UNCHANGED <<probes, mtuDbErrors>>
           /\ \/ /\ run'[r].pc \in {"refused", "failed"} /\ run'[r].id = run[r].id
                 /\ UNCHANGED <<mtuSlot, mtuRows>>
              \/ /\ run'[r].pc = "check" /\ run'[r].id = Mtu!NextId
                 /\ mtuSlot = NoRun /\ mtuSlot' = r
                 /\ Mtu!ids' = Mtu!ids \cup {Mtu!NextId} /\ Mtu!NextId \notin Mtu!ids
                 /\ mtuRows'[Mtu!NextId] = [owner |-> r, result |-> "open", sent |-> 0]
                 /\ \A i \in Mtu!ids : mtuRows'[i] = mtuRows[i]
                 /\ mtuRows' \in [Mtu!ids' -> RowTypes]
<1>1. Mtu!NextId \in Nat \ {0} /\ Mtu!NextId \notin Mtu!ids
  BY NextIdProps DEF TypeInv
<1>2. CASE mtuSlot # NoRun /\ run' = [run EXCEPT ![r].pc = "refused"] /\ UNCHANGED <<mtuSlot, mtuRows>>
  BY <1>2 DEF Mtu!Start, TypeInv, RunTypes, Labels
<1>3. CASE mtuSlot = NoRun /\ run' = [run EXCEPT ![r].pc = "failed"] /\ UNCHANGED <<mtuSlot, mtuRows>>
  BY <1>3 DEF Mtu!Start, TypeInv, RunTypes, Labels
<1>4. CASE /\ mtuSlot = NoRun
           /\ mtuRows' = [i \in Mtu!ids \cup {Mtu!NextId} |->
                         IF i = Mtu!NextId THEN [owner |-> r, result |-> "open", sent |-> 0]
                                       ELSE mtuRows[i]]
           /\ run' = [run EXCEPT ![r].pc = "check", ![r].id = Mtu!NextId]
           /\ mtuSlot' = r
  <2>1. /\ run' = [run EXCEPT ![r] = run'[r]] /\ run'[r] \in RunTypes
        /\ run'[r].pc = "check" /\ run'[r].id = Mtu!NextId
        /\ run'[r].shown = run[r].shown /\ run'[r].settled = run[r].settled
        /\ run'[r].stop = run[r].stop
    BY <1>1, <1>4, ZenonT(40) DEF TypeInv, RunTypes, Labels
  <2>2. /\ Mtu!ids' = Mtu!ids \cup {Mtu!NextId}
        /\ mtuRows'[Mtu!NextId] = [owner |-> r, result |-> "open", sent |-> 0]
        /\ \A i \in Mtu!ids : mtuRows'[i] = mtuRows[i]
        /\ mtuRows' \in [Mtu!ids' -> RowTypes]
    <3>1. Mtu!ids' = DOMAIN mtuRows'
      BY DEF Mtu!ids
    <3> QED
      BY <1>1, <1>4, <3>1 DEF TypeInv, RowTypes
  <2> QED
    BY <1>1, <1>4, <2>1, <2>2 DEF Mtu!Start
<1> QED
  BY <1>2, <1>3, <1>4 DEF Mtu!Start

\* A step of the task touches its own run; the table stays, but for the result.
LEMMA TaskEffect ==
    ASSUME TypeInv, NEW r \in Runs,
           \/ Mtu!Stop(r) \/ Mtu!StopReturn(r) \/ Mtu!Check(r) \/ Mtu!Attempt(r) \/ Mtu!Save(r)
           \/ Mtu!Cancel(r) \/ Mtu!Finish(r) \/ Mtu!Clear(r)
    PROVE  /\ run' = [run EXCEPT ![r] = run'[r]] /\ run'[r] \in RunTypes
           /\ run'[r].id = run[r].id
           /\ mtuDbErrors' \in {mtuDbErrors, mtuDbErrors + 1}
<1> USE DEF TypeInv, RunTypes, Labels
<1>1. CASE Mtu!Stop(r)
  BY <1>1, ZenonT(40) DEF Mtu!Stop
<1>2. CASE Mtu!StopReturn(r)
  BY <1>2 DEF Mtu!StopReturn
<1>3. CASE Mtu!Check(r)
  BY <1>3 DEF Mtu!Check
<1>4. CASE Mtu!Clear(r)
  BY <1>4 DEF Mtu!Clear
<1>5. CASE Mtu!Attempt(r)
  BY <1>5 DEF Mtu!Attempt
<1>6. CASE Mtu!Save(r)
  <2>1. PICK next \in {"check", "done"} :
          run' = [run EXCEPT ![r].pc = next, ![r].settled = run[r].shown]
    BY <1>6 DEF Mtu!Save
  <2>2. mtuDbErrors' \in {mtuDbErrors, mtuDbErrors + 1}
    BY <1>6 DEF Mtu!Save, Mtu!DbError
  <2> QED
    BY <2>1, <2>2, ZenonT(40)
<1>7. CASE Mtu!Cancel(r) \/ Mtu!Finish(r)
  <2>1. /\ \/ run' = [run EXCEPT ![r].pc = "clear"]
           \/ run' = [run EXCEPT ![r].pc = "broken"]
        /\ mtuDbErrors' \in {mtuDbErrors, mtuDbErrors + 1}
    BY <1>7 DEF Mtu!Cancel, Mtu!Finish, Mtu!CloseRow, Mtu!DbError
  <2> QED
    BY <2>1
<1> QED
  BY <1>1, <1>2, <1>3, <1>4, <1>5, <1>6, <1>7

\* Closing a row writes its result and count, or breaks the run.
LEMMA CloseEffect ==
    ASSUME TypeInv, NEW r \in Runs, Mtu!Cancel(r) \/ Mtu!Finish(r)
    PROVE  /\ run[r].pc \in {"finish", "done"}
           /\ run'[r].shown = run[r].shown /\ run'[r].settled = run[r].settled
           /\ run'[r].stop = run[r].stop
           /\ UNCHANGED <<mtuSlot, probes>>
           /\ Mtu!ids' = Mtu!ids /\ mtuRows' \in [Mtu!ids -> RowTypes]
           /\ \/ /\ run'[r].pc = "clear" /\ UNCHANGED mtuDbErrors
                 /\ \A i \in Mtu!ids : /\ mtuRows'[i].owner = mtuRows[i].owner
                                       /\ i # run[r].id => mtuRows'[i] = mtuRows[i]
                                       /\ i = run[r].id => /\ mtuRows'[i].result # "open"
                                                           /\ mtuRows'[i].sent = run[r].shown
              \/ run'[r].pc = "broken" /\ mtuDbErrors' = mtuDbErrors + 1 /\ UNCHANGED mtuRows
<1>1. PICK outcome \in {"cancelled", "found"} : Mtu!CloseRow(r, outcome)
  BY DEF Mtu!Cancel, Mtu!Finish
<1>2. /\ run[r].pc \in {"finish", "done"} /\ UNCHANGED <<mtuSlot, probes>>
  BY DEF Mtu!Cancel, Mtu!Finish, Mtu!CloseRow
<1>3. Mtu!ids' = DOMAIN mtuRows'
  BY SMTT(30) DEF Mtu!ids
<1>4. CASE /\ mtuRows' = [i \in Mtu!ids |-> IF i = run[r].id
                          THEN [mtuRows[i] EXCEPT !.result = outcome, !.sent = run[r].shown]
                          ELSE mtuRows[i]]
           /\ run' = [run EXCEPT ![r].pc = "clear"]
           /\ UNCHANGED mtuDbErrors
  <2>1. Mtu!ids' = Mtu!ids
    BY <1>3, <1>4
  <2>2. run[r].shown \in Nat
    BY DEF TypeInv, RunTypes
  <2>3. \A i \in Mtu!ids : /\ mtuRows[i] \in RowTypes /\ mtuRows'[i] \in RowTypes
                           /\ mtuRows'[i].owner = mtuRows[i].owner
                           /\ i # run[r].id => mtuRows'[i] = mtuRows[i]
                           /\ i = run[r].id => /\ mtuRows'[i].result = outcome
                                               /\ mtuRows'[i].sent = run[r].shown
    BY <1>1, <1>4, <2>2 DEF TypeInv, RowTypes
  <2>4. mtuRows' \in [Mtu!ids -> RowTypes]
    BY <1>4, <2>3
  <2>5. /\ run'[r].shown = run[r].shown /\ run'[r].settled = run[r].settled
        /\ run'[r].stop = run[r].stop /\ run'[r].pc = "clear"
    BY <1>4 DEF TypeInv, RunTypes
  <2> QED
    BY <1>1, <1>2, <1>4, <2>1, <2>3, <2>4, <2>5
<1>5. CASE Mtu!DbError /\ run' = [run EXCEPT ![r].pc = "broken"] /\ UNCHANGED mtuRows
  BY <1>2, <1>3, <1>5 DEF TypeInv, RunTypes, Mtu!DbError, Mtu!ids
<1> QED
  BY <1>1, <1>4, <1>5 DEF Mtu!CloseRow

-----------------------------------------------------------------------------
(* The types and the slot.                                                 *)

LEMMA TypeNext == TypeInv /\ [Mtu!Next]_(Mtu!vars) => TypeInv'
<1> SUFFICES ASSUME TypeInv, [Mtu!Next]_(Mtu!vars)
             PROVE  TypeInv'
  OBVIOUS
<1>1. CASE UNCHANGED Mtu!vars
  BY <1>1 DEF Mtu!vars, TypeInv, RowsBounded, Mtu!ids
<1>2. ASSUME NEW r \in Runs, Mtu!Start(r)
      PROVE  TypeInv'
  <2>1. RowsBounded'
    <3>1. CASE UNCHANGED mtuRows
      BY <3>1 DEF TypeInv, RowsBounded, Mtu!ids
    <3>2. CASE Mtu!ids' = Mtu!ids \cup {Mtu!NextId}
      <4>1. Mtu!NextId \in Nat /\ \A i \in Mtu!ids : i < Mtu!NextId
        BY NextIdProps
      <4>2. \A i \in Mtu!ids' : i <= Mtu!NextId
        BY <3>2, <4>1 DEF TypeInv
      <4> QED
        BY <4>1, <4>2 DEF RowsBounded
    <3> QED
      BY <1>2, <3>1, <3>2, StartEffect
  <2>2. \/ UNCHANGED mtuRows
        \/ Mtu!ids' = Mtu!ids \cup {Mtu!NextId} /\ mtuRows' \in [Mtu!ids' -> RowTypes]
    BY <1>2, StartEffect
  <2>3. Mtu!ids' \subseteq Nat \ {0} /\ mtuRows' \in [Mtu!ids' -> RowTypes]
    BY <2>2, NextIdProps DEF TypeInv, Mtu!ids
  <2>4. run' \in [Runs -> RunTypes]
    <3>1. run' = [run EXCEPT ![r] = run'[r]] /\ run'[r] \in RunTypes
      BY <1>2, StartEffect
    <3> QED
      BY <3>1 DEF TypeInv
  <2>5. mtuSlot' \in {mtuSlot, r} /\ UNCHANGED mtuDbErrors
    BY <1>2, StartEffect
  <2> QED
    BY <2>1, <2>3, <2>4, <2>5 DEF TypeInv
<1>3. ASSUME NEW r \in Runs,
             Mtu!Stop(r) \/ Mtu!StopReturn(r) \/ Mtu!Check(r) \/ Mtu!Attempt(r)
               \/ Mtu!Save(r) \/ Mtu!Clear(r)
      PROVE  TypeInv'
  <2>1. UNCHANGED mtuRows /\ mtuSlot' \in {mtuSlot, NoRun}
    BY <1>3 DEF Mtu!Stop, Mtu!StopReturn, Mtu!Check, Mtu!Attempt, Mtu!Save, Mtu!Clear
  <2>2. /\ run' = [run EXCEPT ![r] = run'[r]] /\ run'[r] \in RunTypes
        /\ mtuDbErrors' \in {mtuDbErrors, mtuDbErrors + 1}
    BY <1>3, TaskEffect
  <2> QED
    BY <2>1, <2>2 DEF TypeInv, RowsBounded, Mtu!ids
<1>4. ASSUME NEW r \in Runs, Mtu!Cancel(r) \/ Mtu!Finish(r)
      PROVE  TypeInv'
  <2>1. /\ run' = [run EXCEPT ![r] = run'[r]] /\ run'[r] \in RunTypes
        /\ mtuDbErrors' \in {mtuDbErrors, mtuDbErrors + 1}
    BY <1>4, TaskEffect
  <2>2. UNCHANGED mtuSlot /\ Mtu!ids' = Mtu!ids /\ mtuRows' \in [Mtu!ids -> RowTypes]
    BY <1>4, CloseEffect
  <2>3. Mtu!ids' \subseteq Nat \ {0} /\ RowsBounded'
    BY <2>2 DEF TypeInv, RowsBounded
  <2>4. mtuSlot' \in Runs \cup {NoRun} /\ mtuDbErrors' \in Nat
    BY <2>1, <2>2 DEF TypeInv
  <2>5. run' \in [Runs -> RunTypes]
    BY <2>1 DEF TypeInv
  <2> QED
    BY <2>2, <2>3, <2>4, <2>5 DEF TypeInv
<1>5. ASSUME NEW i \in Mtu!ids, Mtu!Delete(i)
      PROVE  TypeInv'
  <2>1. Mtu!ids' = Mtu!ids \ {i} /\ mtuRows' = [j \in Mtu!ids \ {i} |-> mtuRows[j]]
    BY <1>5 DEF Mtu!Delete, Mtu!ids
  <2>2. mtuRows' \in [Mtu!ids' -> RowTypes]
    BY <2>1 DEF TypeInv
  <2> QED
    BY <1>5, <2>1, <2>2 DEF Mtu!Delete, TypeInv, RowsBounded
<1> QED
  BY <1>1, <1>2, <1>3, <1>4, <1>5, MtuSteps

LEMMA CountNext ==
    TypeInv /\ (\A r \in Runs : CountOf(r)) /\ [Mtu!Next]_(Mtu!vars) => (\A r \in Runs : CountOf(r))'
<1> SUFFICES ASSUME TypeInv, \A r \in Runs : CountOf(r), [Mtu!Next]_(Mtu!vars),
                    NEW q \in Runs
             PROVE  CountOf(q)'
  OBVIOUS
<1> USE DEF CountOf
<1>1. CASE run'[q] = run[q]
  BY <1>1
<1>2. CASE Mtu!Start(q)
  BY <1>2, StartEffect, NextIdProps, ZenonT(40)
<1>3. CASE Mtu!Stop(q) \/ Mtu!StopReturn(q) \/ Mtu!Check(q) \/ Mtu!Clear(q)
  BY <1>3 DEF Mtu!Stop, Mtu!StopReturn, Mtu!Check, Mtu!Clear, TypeInv, RunTypes, Labels
<1>4. CASE Mtu!Attempt(q)
  BY <1>4 DEF Mtu!Attempt, TypeInv, RunTypes, Labels
<1>5. CASE Mtu!Save(q)
  <2>1. PICK next \in {"check", "done"} :
          run' = [run EXCEPT ![q].pc = next, ![q].settled = run[q].shown]
    BY <1>5 DEF Mtu!Save
  <2> QED
    BY <1>5, <2>1 DEF Mtu!Save, TypeInv, RunTypes, Labels
<1>6. CASE Mtu!Cancel(q) \/ Mtu!Finish(q)
  BY <1>6, CloseEffect, TaskEffect
<1>7. \/ run'[q] = run[q]
      \/ Mtu!Start(q) \/ Mtu!Stop(q) \/ Mtu!StopReturn(q) \/ Mtu!Check(q) \/ Mtu!Attempt(q)
      \/ Mtu!Save(q) \/ Mtu!Cancel(q) \/ Mtu!Finish(q) \/ Mtu!Clear(q)
  <2>1. ASSUME NEW r \in Runs \ {q},
               \/ Mtu!Start(r) \/ Mtu!Stop(r) \/ Mtu!StopReturn(r) \/ Mtu!Check(r) \/ Mtu!Attempt(r)
               \/ Mtu!Save(r) \/ Mtu!Cancel(r) \/ Mtu!Finish(r) \/ Mtu!Clear(r)
        PROVE  run'[q] = run[q]
    <3>1. run' = [run EXCEPT ![r] = run'[r]]
      BY <2>1, StartEffect, TaskEffect
    <3> QED
      BY <3>1 DEF TypeInv
  <2>2. ASSUME NEW i \in Mtu!ids, Mtu!Delete(i)
        PROVE  run'[q] = run[q]
    BY <2>2 DEF Mtu!Delete
  <2> QED
    BY <2>1, <2>2, MtuSteps DEF Mtu!vars
<1> QED
  BY <1>1, <1>2, <1>3, <1>4, <1>5, <1>6, <1>7

\* A run leaves "going" only by clear_active, which empties the slot if it
\* holds this run, or by a row that cannot be closed.
LEMMA SlotNext ==
    ASSUME NoRun \notin Runs
    PROVE  SlotInv /\ [Mtu!Next]_(Mtu!vars) => SlotHeld'
<1> SUFFICES ASSUME SlotInv, [Mtu!Next]_(Mtu!vars), mtuSlot' # NoRun
             PROVE  Mtu!Busy(mtuSlot)' \/ (run[mtuSlot].pc = "broken")'
  BY DEF SlotHeld
<1> USE DEF SlotInv, SlotHeld
<1>1. CASE UNCHANGED <<mtuSlot, run>>
  BY <1>1 DEF Mtu!Busy
<1>2. ASSUME NEW r \in Runs, Mtu!Start(r)
      PROVE  Mtu!Busy(mtuSlot)' \/ (run[mtuSlot].pc = "broken")'
  <2>1. CASE mtuSlot' = r /\ run'[r].pc = "check"
    BY <2>1 DEF Mtu!Busy
  <2>2. CASE UNCHANGED mtuSlot /\ run[r].pc = "idle"
    <3>1. mtuSlot \in Runs /\ mtuSlot # r
      BY <2>2 DEF Mtu!Busy, TypeInv
    <3>2. run'[mtuSlot] = run[mtuSlot]
      BY <1>2, <3>1, StartEffect DEF TypeInv
    <3> QED
      BY <2>2, <3>1, <3>2 DEF Mtu!Busy
  <2> QED
    BY <1>2, <2>1, <2>2, StartEffect
<1>3. ASSUME NEW r \in Runs, Mtu!Stop(r)
      PROVE  Mtu!Busy(mtuSlot)' \/ (run[mtuSlot].pc = "broken")'
  BY <1>3 DEF Mtu!Stop
<1>4. ASSUME NEW r \in Runs, UNCHANGED mtuSlot,
             \/ Mtu!StopReturn(r) \/ Mtu!Check(r) \/ Mtu!Attempt(r) \/ Mtu!Save(r)
             \/ Mtu!Cancel(r) \/ Mtu!Finish(r)
      PROVE  Mtu!Busy(mtuSlot)' \/ (run[mtuSlot].pc = "broken")'
  <2>1. CASE mtuSlot = r
    <3>1. CASE Mtu!StopReturn(r)
      <4>1. run'[r].pc = run[r].pc
        BY <3>1 DEF Mtu!StopReturn, TypeInv, RunTypes
      <4> QED
        BY <1>4, <2>1, <4>1 DEF Mtu!Busy
    <3>2. CASE Mtu!Check(r) \/ Mtu!Attempt(r) \/ Mtu!Save(r)
      <4>1. run'[r].pc \in {"check", "attempt", "save", "finish", "done"}
        BY <3>2 DEF Mtu!Check, Mtu!Attempt, Mtu!Save, TypeInv, RunTypes
      <4> QED
        BY <1>4, <2>1, <4>1 DEF Mtu!Busy
    <3>3. CASE Mtu!Cancel(r) \/ Mtu!Finish(r)
      BY <1>4, <2>1, <3>3, CloseEffect DEF Mtu!Busy
    <3> QED
      BY <1>4, <3>1, <3>2, <3>3
  <2>2. CASE mtuSlot # r
    <3>1. mtuSlot \in Runs
      BY <1>4 DEF TypeInv
    <3>2. run'[mtuSlot] = run[mtuSlot]
      BY <1>4, <2>2, <3>1, TaskEffect DEF TypeInv
    <3> QED
      BY <1>4, <3>2 DEF Mtu!Busy
  <2> QED
    BY <2>1, <2>2
<1>5. ASSUME NEW r \in Runs, Mtu!Clear(r)
      PROVE  Mtu!Busy(mtuSlot)' \/ (run[mtuSlot].pc = "broken")'
  <2>1. mtuSlot' = mtuSlot /\ mtuSlot \in Runs /\ run[mtuSlot].id # run[r].id
    BY <1>5 DEF Mtu!Clear, TypeInv
  <2>2. run'[mtuSlot] = run[mtuSlot]
    BY <1>5, <2>1, TaskEffect DEF TypeInv
  <2> QED
    BY <2>1, <2>2 DEF Mtu!Busy
<1> QED
  <2>1. ASSUME NEW i \in Mtu!ids, Mtu!Delete(i)
        PROVE  UNCHANGED <<mtuSlot, run>>
    BY <2>1 DEF Mtu!Delete
  <2>2. ASSUME NEW r \in Runs,
               Mtu!StopReturn(r) \/ Mtu!Check(r) \/ Mtu!Attempt(r) \/ Mtu!Save(r)
                 \/ Mtu!Cancel(r) \/ Mtu!Finish(r)
        PROVE  UNCHANGED mtuSlot
    BY <2>2 DEF Mtu!StopReturn, Mtu!Check, Mtu!Attempt, Mtu!Save, Mtu!Cancel, Mtu!Finish,
       Mtu!CloseRow
  <2> QED
    BY <1>1, <1>2, <1>3, <1>4, <1>5, <2>1, <2>2, MtuSteps DEF Mtu!vars

LEMMA SlotInit == Mtu!Init => SlotInv
<1> SUFFICES ASSUME Mtu!Init
             PROVE  SlotInv
  OBVIOUS
<1>1. Mtu!ids = {}
  BY DEF Mtu!Init, Mtu!ids
<1>2. mtuRows \in [Mtu!ids -> RowTypes]
  BY <1>1 DEF Mtu!Init
<1>3. RowsBounded
  BY <1>1 DEF RowsBounded
<1> QED
  BY <1>1, <1>2, <1>3 DEF Mtu!Init, Mtu!Idle, SlotInv, SlotHeld, TypeInv, CountOf,
     RunTypes, Labels

LEMMA SlotInvariance ==
    ASSUME NoRun \notin Runs
    PROVE  Mtu!Init /\ [][Mtu!Next]_(Mtu!vars) => []SlotInv
<1>1. SlotInv /\ [Mtu!Next]_(Mtu!vars) => SlotInv'
  BY TypeNext, CountNext, SlotNext DEF SlotInv
<1> QED
  BY <1>1, SlotInit, PTL

\* Types, and one outcome at most is shown and not yet settled, whatever is
\* deleted while runs go on.
THEOREM MtuTypeOKHolds ==
    ASSUME NoRun \notin Runs
    PROVE  Mtu!Init /\ [][Mtu!Next]_(Mtu!vars) => []Mtu!TypeOK
<1>1. SlotInv => Mtu!TypeOK
  <2> SUFFICES ASSUME SlotInv
               PROVE  Mtu!TypeOK
    OBVIOUS
  <2>1. ASSUME NEW r \in Runs
        PROVE  run[r].pc \in Labels /\ run[r].settled \in (run[r].shown - 1)..run[r].shown
    <3>1. run[r].shown \in Nat /\ run[r].settled \in Nat /\ run[r].pc \in Labels
      BY DEF SlotInv, TypeInv, RunTypes
    <3>2. run[r].shown = run[r].settled + 1 \/ run[r].shown = run[r].settled
      BY DEF SlotInv, CountOf
    <3> QED
      BY <3>1, <3>2
  <2> QED
    BY <2>1 DEF SlotInv, TypeInv, Mtu!TypeOK, Labels, RowTypes
<1> QED
  BY <1>1, SlotInvariance, PTL

\* A start() is refused only because of a run that goes on, or of one whose row
\* could not be closed - for any number of runs that overlap because stop()
\* waits without the lock, and whatever is deleted meanwhile.
THEOREM MtuSlotNotEndedHolds ==
    ASSUME NoRun \notin Runs
    PROVE  Mtu!Init /\ [][Mtu!Next]_(Mtu!vars) => []Mtu!SlotNotEnded
<1>1. SlotInv => Mtu!SlotNotEnded
  BY DEF SlotInv, SlotHeld, Mtu!SlotNotEnded, Mtu!Busy
<1> QED
  BY <1>1, SlotInvariance, PTL

-----------------------------------------------------------------------------
(* Who owns which row, and what its probes are.                            *)

\* Two runs that are going have different ids.
LEMMA DistinctIds ==
    ASSUME MtuInv, NEW r \in Runs, NEW q \in Runs, Mtu!Busy(r), Mtu!Busy(q), run[r].id = run[q].id
    PROVE  r = q
  BY DEF MtuInv, OwnRow

\* The owner of a row has an id, so it is not waiting to start.
LEMMA OwnerStarted ==
    ASSUME MtuInv, NEW i \in Mtu!ids
    PROVE  /\ mtuRows[i].owner \in Runs /\ run[mtuRows[i].owner].id = i
           /\ run[mtuRows[i].owner].pc # "idle"
<1>1. i # 0 /\ mtuRows[i] \in RowTypes
  BY DEF MtuInv, SlotInv, TypeInv
<1>2. mtuRows[i].owner \in Runs /\ run[mtuRows[i].owner].id = i
  BY <1>1 DEF MtuInv, OwnedRow, RowTypes
<1> QED
  BY <1>1, <1>2 DEF MtuInv, SlotInv, CountOf

\* Steps of a run that has its row and does not close it now.
LEMMA StepEffect ==
    ASSUME TypeInv, NEW r \in Runs,
           Mtu!Stop(r) \/ Mtu!StopReturn(r) \/ Mtu!Check(r) \/ Mtu!Attempt(r)
             \/ Mtu!Save(r) \/ Mtu!Clear(r)
    PROVE  /\ UNCHANGED mtuRows
           /\ run'[r].pc \in {"clear", "ended"} <=> run[r].pc \in {"clear", "ended"}
           /\ run'[r].pc \in {"clear", "ended"} => run'[r].shown = run[r].shown
           /\ Mtu!Busy(r)' => Mtu!Busy(r)
           /\ run[r].stop => run'[r].stop
           /\ run'[r].settled = run[r].settled \/ Mtu!Save(r)
<1> USE DEF TypeInv, RunTypes, Labels, Mtu!Busy
<1>1. CASE Mtu!Stop(r)
  BY <1>1 DEF Mtu!Stop
<1>2. CASE Mtu!StopReturn(r)
  BY <1>2 DEF Mtu!StopReturn
<1>3. CASE Mtu!Check(r)
  BY <1>3 DEF Mtu!Check
<1>4. CASE Mtu!Attempt(r)
  BY <1>4 DEF Mtu!Attempt
<1>5. CASE Mtu!Save(r)
  <2>1. PICK next \in {"check", "done"} :
          run' = [run EXCEPT ![r].pc = next, ![r].settled = run[r].shown]
    BY <1>5 DEF Mtu!Save
  <2> QED
    BY <1>5, <2>1 DEF Mtu!Save
<1>6. CASE Mtu!Clear(r)
  BY <1>6 DEF Mtu!Clear
<1> QED
  BY <1>1, <1>2, <1>3, <1>4, <1>5, <1>6

\* What a step leaves of the other runs.
LEMMA Others ==
    ASSUME TypeInv, NEW r \in Runs, NEW q \in Runs \ {r},
           \/ Mtu!Start(r) \/ Mtu!Stop(r) \/ Mtu!StopReturn(r) \/ Mtu!Check(r) \/ Mtu!Attempt(r) \/ Mtu!Save(r)
           \/ Mtu!Cancel(r) \/ Mtu!Finish(r) \/ Mtu!Clear(r)
    PROVE  run'[q] = run[q]
<1>1. run' = [run EXCEPT ![r] = run'[r]]
  BY StartEffect, TaskEffect
<1> QED
  BY <1>1 DEF TypeInv

\* Rows keep their owners and runs their rows.
LEMMA RowNext ==
    ASSUME NoRun \notin Runs, DeleteBusy = FALSE
    PROVE  MtuInv /\ [Mtu!Next]_(Mtu!vars) =>
             /\ \A r \in Runs : OwnRow(r)'
             /\ (\A i \in Mtu!ids : OwnedRow(i))'
<1> SUFFICES ASSUME MtuInv, [Mtu!Next]_(Mtu!vars)
             PROVE  /\ \A r \in Runs : OwnRow(r)'
                    /\ \A i \in Mtu!ids' : OwnedRow(i)'
  OBVIOUS
<1> USE DEF OwnRow, OwnedRow
<1>0. /\ TypeInv /\ (\A r \in Runs : CountOf(r))
      /\ \A r \in Runs : Mtu!Busy(r) => run[r].id \in Mtu!ids /\ mtuRows[run[r].id].owner = r
      /\ \A i \in Mtu!ids : OwnedRow(i)
  BY DEF MtuInv, SlotInv
<1>1. CASE UNCHANGED Mtu!vars
  BY <1>0, <1>1 DEF Mtu!vars, Mtu!ids, Mtu!Busy
<1>2. ASSUME NEW r \in Runs, Mtu!Start(r)
      PROVE  /\ \A q \in Runs : OwnRow(q)'
             /\ \A i \in Mtu!ids' : OwnedRow(i)'
  <2>1. \A q \in Runs \ {r} : run'[q] = run[q]
    BY <1>0, <1>2, Others
  <2>2. \A i \in Mtu!ids : mtuRows[i].owner # r /\ mtuRows[i].owner \in Runs
    <3>1. run[r].pc = "idle"
      BY <1>2 DEF Mtu!Start
    <3> QED
      BY <3>1, OwnerStarted
  <2>3. CASE run'[r].pc \in {"refused", "failed"} /\ UNCHANGED mtuRows
    <3>1. Mtu!ids' = Mtu!ids /\ ~Mtu!Busy(r)'
      BY <2>3 DEF Mtu!ids, Mtu!Busy
    <3> QED
      BY <1>0, <2>1, <2>2, <2>3, <3>1 DEF Mtu!Busy
  <2>4. CASE /\ run'[r].pc = "check" /\ run'[r].id = Mtu!NextId
             /\ Mtu!ids' = Mtu!ids \cup {Mtu!NextId} /\ Mtu!NextId \notin Mtu!ids
             /\ mtuRows'[Mtu!NextId] = [owner |-> r, result |-> "open", sent |-> 0]
             /\ \A i \in Mtu!ids : mtuRows'[i] = mtuRows[i]
    <3>1. \A q \in Runs : OwnRow(q)'
      BY <1>0, <2>1, <2>4 DEF Mtu!Busy
    <3>2. \A i \in Mtu!ids : OwnedRow(i)'
      BY <1>0, <2>1, <2>2, <2>4
    <3>3. ASSUME NEW j, j = Mtu!NextId
          PROVE  OwnedRow(j)'
      <4>1. mtuRows'[j].owner = r /\ mtuRows'[j].result = "open"
        BY <2>4, <3>3
      <4> QED
        BY <2>4, <3>3, <4>1
    <3> QED
      BY <2>4, <3>1, <3>2, <3>3
  <2> QED
    BY <1>0, <1>2, <2>3, <2>4, StartEffect
<1>3. ASSUME NEW r \in Runs,
             Mtu!Stop(r) \/ Mtu!StopReturn(r) \/ Mtu!Check(r) \/ Mtu!Attempt(r)
               \/ Mtu!Save(r) \/ Mtu!Clear(r)
      PROVE  /\ \A q \in Runs : OwnRow(q)'
             /\ \A i \in Mtu!ids' : OwnedRow(i)'
  <2>1. \A q \in Runs \ {r} : run'[q] = run[q]
    BY <1>0, <1>3, Others
  <2>2. /\ UNCHANGED mtuRows /\ Mtu!ids' = Mtu!ids /\ run'[r].id = run[r].id
        /\ run'[r].pc \in {"clear", "ended"} <=> run[r].pc \in {"clear", "ended"}
        /\ run'[r].pc \in {"clear", "ended"} => run'[r].shown = run[r].shown
        /\ Mtu!Busy(r)' => Mtu!Busy(r)
    BY <1>0, <1>3, StepEffect, TaskEffect DEF Mtu!ids
  <2>3. \A q \in Runs : OwnRow(q)'
    BY <1>0, <2>1, <2>2 DEF Mtu!Busy
  <2>4. ASSUME NEW i \in Mtu!ids
        PROVE  OwnedRow(i)'
    <3>1. mtuRows[i].owner \in Runs
      BY OwnerStarted
    <3>2. CASE mtuRows[i].owner = r
      BY <1>0, <2>2, <3>2
    <3>3. CASE mtuRows[i].owner # r
      BY <1>0, <2>1, <2>2, <3>1, <3>3
    <3> QED
      BY <3>2, <3>3
  <2> QED
    BY <2>2, <2>3, <2>4
<1>4. ASSUME NEW r \in Runs, Mtu!Cancel(r) \/ Mtu!Finish(r)
      PROVE  /\ \A q \in Runs : OwnRow(q)'
             /\ \A i \in Mtu!ids' : OwnedRow(i)'
  <2>1. \A q \in Runs \ {r} : run'[q] = run[q]
    BY <1>0, <1>4, Others
  <2>2. /\ Mtu!Busy(r) /\ run'[r].id = run[r].id /\ Mtu!ids' = Mtu!ids
        /\ run'[r].shown = run[r].shown
        /\ run[r].pc \notin {"clear", "ended"}
        /\ run'[r].pc \in {"clear", "broken"}
    BY <1>0, <1>4, CloseEffect, TaskEffect DEF Mtu!Busy
  <2>3. \A i \in Mtu!ids : mtuRows'[i].owner = mtuRows[i].owner
    BY <1>0, <1>4, CloseEffect
  <2>4. \A i \in Mtu!ids : i # run[r].id => mtuRows'[i] = mtuRows[i]
    BY <1>0, <1>4, CloseEffect
  <2>5. \/ /\ run'[r].pc = "clear"
           /\ mtuRows'[run[r].id].result # "open" /\ mtuRows'[run[r].id].sent = run[r].shown
        \/ run'[r].pc = "broken" /\ UNCHANGED mtuRows
    BY <1>0, <1>4, <2>2, CloseEffect
  <2>6. \A q \in Runs : OwnRow(q)'
    BY <1>0, <2>1, <2>2, <2>3 DEF Mtu!Busy
  <2>7. ASSUME NEW i \in Mtu!ids
        PROVE  OwnedRow(i)'
    <3>1. mtuRows[i].owner \in Runs /\ (mtuRows[i].owner = r <=> i = run[r].id)
      BY <1>0, <2>2, OwnerStarted
    <3>2. CASE i = run[r].id
      BY <1>0, <2>2, <2>3, <2>5, <3>1, <3>2
    <3>3. CASE i # run[r].id
      BY <1>0, <2>1, <2>4, <3>1, <3>3
    <3> QED
      BY <3>2, <3>3
  <2> QED
    BY <2>2, <2>6, <2>7
<1>5. ASSUME NEW i \in Mtu!ids, Mtu!Delete(i)
      PROVE  /\ \A q \in Runs : OwnRow(q)'
             /\ \A j \in Mtu!ids' : OwnedRow(j)'
  <2>1. /\ Mtu!ids' = Mtu!ids \ {i} /\ mtuRows' = [j \in Mtu!ids \ {i} |-> mtuRows[j]] /\ UNCHANGED run
        /\ \A q \in Runs : Mtu!Busy(q) => run[q].id # i
    BY <1>5 DEF Mtu!Delete, Mtu!ids
  <2> QED
    BY <1>0, <2>1 DEF Mtu!Busy
<1> QED
  BY <1>1, <1>2, <1>3, <1>4, <1>5, MtuSteps

\* What add_mtu_probe does: the outcome shown last is stored under the run's
\* id, or the database fails.
LEMMA SaveEffect ==
    ASSUME MtuInv, NEW r \in Runs, Mtu!Save(r)
    PROVE  /\ run[r].id \in Mtu!ids /\ mtuRows[run[r].id].owner = r
           /\ run[r].shown = run[r].settled + 1 /\ run[r].settled \in Nat
           /\ run'[r].settled = run[r].shown
           /\ run'[r].shown = run[r].shown /\ run'[r].pc \in {"check", "done"}
           /\ \/ /\ probes' = probes \cup {[id |-> run[r].id, owner |-> r, seq |-> run[r].shown]}
                 /\ UNCHANGED mtuDbErrors
              \/ UNCHANGED probes /\ mtuDbErrors' = mtuDbErrors + 1
<1>1. run[r].pc = "save"
  BY DEF Mtu!Save
<1>2. run[r].id \in Mtu!ids /\ mtuRows[run[r].id].owner = r
  BY <1>1 DEF MtuInv, OwnRow, Mtu!Busy
<1>3. run[r].shown = run[r].settled + 1 /\ run[r].settled \in Nat
  BY <1>1 DEF MtuInv, SlotInv, CountOf, TypeInv, RunTypes
<1>4. /\ run'[r].settled = run[r].shown
      /\ run'[r].shown = run[r].shown /\ run'[r].pc \in {"check", "done"}
  <2>1. PICK next \in {"check", "done"} :
          run' = [run EXCEPT ![r].pc = next, ![r].settled = run[r].shown]
    BY DEF Mtu!Save
  <2> QED
    BY <2>1 DEF MtuInv, SlotInv, TypeInv, RunTypes
<1>5. \/ /\ probes' = probes \cup {[id |-> run[r].id, owner |-> r, seq |-> run[r].shown]}
         /\ UNCHANGED mtuDbErrors
      \/ UNCHANGED probes /\ mtuDbErrors' = mtuDbErrors + 1
  BY <1>2 DEF Mtu!Save, Mtu!DbError
<1> QED
  BY <1>2, <1>3, <1>4, <1>5

\* A step other than Save and Delete leaves the probes, and what every run has
\* settled, as they are.
LEMMA QuietStep ==
    ASSUME MtuInv, NEW r \in Runs,
           \/ Mtu!Start(r) \/ Mtu!Stop(r) \/ Mtu!StopReturn(r) \/ Mtu!Check(r) \/ Mtu!Attempt(r)
           \/ Mtu!Cancel(r) \/ Mtu!Finish(r) \/ Mtu!Clear(r)
    PROVE  /\ UNCHANGED probes
           /\ \A q \in Runs : run'[q].settled = run[q].settled
           /\ \A i \in Mtu!ids : i \in Mtu!ids' /\ mtuRows'[i].owner = mtuRows[i].owner
           /\ \A i \in Mtu!ids' \ Mtu!ids : mtuRows'[i].owner = r /\ run[r].settled = 0 /\ Mtu!Start(r)
           /\ mtuDbErrors' \in {mtuDbErrors, mtuDbErrors + 1}
<1>0. TypeInv
  BY DEF MtuInv, SlotInv
<1>1. \A q \in Runs \ {r} : run'[q] = run[q]
  BY <1>0, Others
<1>2. CASE Mtu!Start(r)
  <2>1. run[r].settled = 0
    <3>1. run[r].pc = "idle"
      BY <1>2 DEF Mtu!Start
    <3> QED
      BY <3>1 DEF MtuInv, SlotInv, CountOf
  <2>2. /\ UNCHANGED <<probes, mtuDbErrors>> /\ run'[r].settled = run[r].settled
        /\ \/ UNCHANGED mtuRows
           \/ /\ Mtu!ids' = Mtu!ids \cup {Mtu!NextId} /\ mtuRows'[Mtu!NextId].owner = r
              /\ \A i \in Mtu!ids : mtuRows'[i] = mtuRows[i]
    <3>1. /\ UNCHANGED <<probes, mtuDbErrors>> /\ run'[r].settled = run[r].settled
          /\ \/ UNCHANGED mtuRows
             \/ /\ Mtu!ids' = Mtu!ids \cup {Mtu!NextId}
                /\ mtuRows'[Mtu!NextId] = [owner |-> r, result |-> "open", sent |-> 0]
                /\ \A i \in Mtu!ids : mtuRows'[i] = mtuRows[i]
      BY <1>0, <1>2, StartEffect
    <3> QED
      BY <3>1
  <2>3. CASE UNCHANGED mtuRows
    BY <1>1, <1>2, <2>1, <2>2, <2>3 DEF Mtu!ids
  <2> QED
    BY <1>1, <1>2, <2>1, <2>2, <2>3
<1>3. CASE Mtu!Stop(r) \/ Mtu!StopReturn(r) \/ Mtu!Check(r) \/ Mtu!Attempt(r) \/ Mtu!Clear(r)
  <2>1. UNCHANGED <<mtuRows, probes, mtuDbErrors>>
    BY <1>3 DEF Mtu!Stop, Mtu!StopReturn, Mtu!Check, Mtu!Attempt, Mtu!Clear
  <2>2. run'[r].settled = run[r].settled
    BY <1>0, <1>3 DEF Mtu!Stop, Mtu!StopReturn, Mtu!Check, Mtu!Attempt, Mtu!Clear,
       TypeInv, RunTypes
  <2> QED
    BY <1>1, <2>1, <2>2 DEF Mtu!ids
<1>4. CASE Mtu!Cancel(r) \/ Mtu!Finish(r)
  <2>1. /\ UNCHANGED probes /\ run'[r].settled = run[r].settled /\ Mtu!ids' = Mtu!ids
        /\ \A i \in Mtu!ids : mtuRows'[i].owner = mtuRows[i].owner
        /\ mtuDbErrors' \in {mtuDbErrors, mtuDbErrors + 1}
    BY <1>0, <1>4, CloseEffect
  <2> QED
    BY <1>1, <2>1
<1> QED
  BY <1>2, <1>3, <1>4

\* No probe is filed under another run's row, none before it is settled, and
\* with a database that works none is missing.
LEMMA ProbeNext ==
    ASSUME NoRun \notin Runs, DeleteBusy = FALSE
    PROVE  MtuInv /\ [Mtu!Next]_(Mtu!vars) =>
             /\ (\A p \in probes : OwnProbe(p))'
             /\ (mtuDbErrors = 0 => \A i \in Mtu!ids : AllStored(i))'
<1> SUFFICES ASSUME MtuInv, [Mtu!Next]_(Mtu!vars)
             PROVE  /\ \A p \in probes' : OwnProbe(p)'
                    /\ mtuDbErrors' = 0 => \A i \in Mtu!ids' : AllStored(i)'
  OBVIOUS
<1>0. /\ \A p \in probes : OwnProbe(p)
      /\ mtuDbErrors = 0 => \A i \in Mtu!ids : AllStored(i)
      /\ \A i \in Mtu!ids : mtuRows[i].owner \in Runs
      /\ \A q \in Runs : run[q].settled \in Nat
      /\ mtuDbErrors \in Nat
  BY OwnerStarted DEF MtuInv, SlotInv, TypeInv, RunTypes
<1>1. CASE UNCHANGED Mtu!vars
  BY <1>0, <1>1 DEF Mtu!vars, Mtu!ids, OwnProbe, AllStored
<1>2. ASSUME NEW r \in Runs,
             \/ Mtu!Start(r) \/ Mtu!Stop(r) \/ Mtu!StopReturn(r) \/ Mtu!Check(r) \/ Mtu!Attempt(r)
             \/ Mtu!Cancel(r) \/ Mtu!Finish(r) \/ Mtu!Clear(r)
      PROVE  /\ \A p \in probes' : OwnProbe(p)'
             /\ mtuDbErrors' = 0 => \A i \in Mtu!ids' : AllStored(i)'
  <2>1. /\ UNCHANGED probes
        /\ \A q \in Runs : run'[q].settled = run[q].settled
        /\ \A i \in Mtu!ids : i \in Mtu!ids' /\ mtuRows'[i].owner = mtuRows[i].owner
        /\ \A i \in Mtu!ids' \ Mtu!ids : mtuRows'[i].owner = r /\ run[r].settled = 0
        /\ mtuDbErrors' \in {mtuDbErrors, mtuDbErrors + 1}
    BY <1>2, QuietStep
  <2>2. \A p \in probes : OwnProbe(p)'
    BY <1>0, <2>1 DEF OwnProbe
  <2>3. ASSUME mtuDbErrors' = 0, NEW i \in Mtu!ids'
        PROVE  AllStored(i)'
    <3>1. mtuDbErrors = 0
      BY <1>0, <2>1, <2>3
    <3>2. CASE i \in Mtu!ids
      BY <1>0, <2>1, <3>1, <3>2 DEF AllStored
    <3>3. CASE i \notin Mtu!ids
      <4>1. (1..run[mtuRows[i].owner].settled)' = {}
        BY <2>1, <3>3
      <4> QED
        BY <4>1 DEF AllStored
    <3> QED
      BY <3>2, <3>3
  <2> QED
    BY <2>1, <2>2, <2>3
<1>3. ASSUME NEW r \in Runs, Mtu!Save(r)
      PROVE  /\ \A p \in probes' : OwnProbe(p)'
             /\ mtuDbErrors' = 0 => \A i \in Mtu!ids' : AllStored(i)'
  <2> DEFINE new == [id |-> run[r].id, owner |-> r, seq |-> run[r].shown]
  <2>1. /\ run[r].id \in Mtu!ids /\ mtuRows[run[r].id].owner = r
        /\ run[r].shown = run[r].settled + 1 /\ run'[r].settled = run[r].shown
        /\ \/ probes' = probes \cup {new} /\ UNCHANGED mtuDbErrors
           \/ UNCHANGED probes /\ mtuDbErrors' = mtuDbErrors + 1
    BY <1>3, SaveEffect
  <2>2. UNCHANGED mtuRows /\ Mtu!ids' = Mtu!ids
    BY <1>3 DEF Mtu!Save, Mtu!ids
  <2>3. \A q \in Runs \ {r} : run'[q] = run[q]
    BY <1>3, Others DEF MtuInv, SlotInv
  <2>4. ASSUME NEW p, p = new
        PROVE  OwnProbe(p)'
    BY <1>0, <2>1, <2>2, <2>4 DEF OwnProbe
  <2>5. \A p \in probes : OwnProbe(p)'
    BY <1>0, <2>1, <2>2, <2>3 DEF OwnProbe
  <2>6. ASSUME mtuDbErrors' = 0, NEW i \in Mtu!ids
        PROVE  AllStored(i)'
    <3>1. probes' = probes \cup {new} /\ mtuDbErrors = 0
      BY <1>0, <2>1, <2>6
    <3>2. AllStored(i) /\ mtuRows[i].owner \in Runs
      BY <1>0, <3>1
    <3>3. CASE mtuRows[i].owner # r
      BY <2>2, <2>3, <3>1, <3>2, <3>3 DEF AllStored
    <3>4. CASE mtuRows[i].owner = r
      <4>1. run[r].id = i
        BY <3>4 DEF MtuInv, OwnedRow
      <4>2. 1..run'[r].settled = 1..run[r].settled \cup {run[r].shown}
        BY <1>0, <2>1
      <4>3. new \in {x \in probes' : x.id = i} /\ new.seq = run[r].shown
        BY <3>1, <4>1
      <4>4. run[r].shown \in {p.seq : p \in {x \in probes' : x.id = i}}
        BY <4>3
      <4> QED
        BY <2>2, <3>1, <3>2, <3>4, <4>2, <4>4 DEF AllStored
    <3> QED
      BY <3>3, <3>4
  <2> HIDE DEF new
  <2> QED
    BY <2>1, <2>2, <2>4, <2>5, <2>6
<1>4. ASSUME NEW i \in Mtu!ids, Mtu!Delete(i)
      PROVE  /\ \A p \in probes' : OwnProbe(p)'
             /\ mtuDbErrors' = 0 => \A j \in Mtu!ids' : AllStored(j)'
  <2>1. /\ mtuRows' = [j \in Mtu!ids \ {i} |-> mtuRows[j]] /\ Mtu!ids' = Mtu!ids \ {i}
        /\ probes' = {p \in probes : p.id # i} /\ UNCHANGED <<run, mtuDbErrors>>
    BY <1>4 DEF Mtu!Delete, Mtu!ids
  <2>2. \A p \in probes' : OwnProbe(p)'
    BY <1>0, <2>1 DEF OwnProbe
  <2>3. ASSUME mtuDbErrors' = 0, NEW j \in Mtu!ids'
        PROVE  AllStored(j)'
    <3>1. {x \in probes' : x.id = j} = {x \in probes : x.id = j}
      BY <2>1
    <3> QED
      BY <1>0, <2>1, <2>3, <3>1 DEF AllStored
  <2> QED
    BY <2>2, <2>3
<1> QED
  BY <1>1, <1>2, <1>3, <1>4, MtuSteps

\* A start() fills the slot only when it is empty, and clear_active empties it
\* only if it holds the run that ends: its id is nobody else's.
LEMMA StoppableNext ==
    ASSUME NoRun \notin Runs
    PROVE  MtuInv /\ [Mtu!Next]_(Mtu!vars) => Mtu!Stoppable'
<1> SUFFICES ASSUME MtuInv, [Mtu!Next]_(Mtu!vars), NEW q \in Runs, Mtu!Busy(q)'
             PROVE  mtuSlot' = q \/ run'[q].stop
  BY DEF Mtu!Stoppable
<1>0. /\ TypeInv
      /\ \A r \in Runs : Mtu!Busy(r) => mtuSlot = r \/ run[r].stop
  BY DEF MtuInv, SlotInv, Mtu!Stoppable
<1>1. CASE UNCHANGED Mtu!vars
  BY <1>0, <1>1 DEF Mtu!vars, Mtu!Busy
<1>2. ASSUME NEW r \in Runs, Mtu!Start(r)
      PROVE  mtuSlot' = q \/ run'[q].stop
  <2>1. CASE q = r
    BY <1>0, <1>2, <2>1, StartEffect DEF Mtu!Busy
  <2>2. CASE q # r
    <3>1. run'[q] = run[q]
      BY <1>0, <1>2, <2>2, Others
    <3>2. mtuSlot = NoRun \/ UNCHANGED mtuSlot
      BY <1>0, <1>2, StartEffect
    <3> QED
      BY <1>0, <3>1, <3>2 DEF Mtu!Busy
  <2> QED
    BY <2>1, <2>2
<1>3. ASSUME NEW r \in Runs,
             \/ Mtu!Stop(r) \/ Mtu!StopReturn(r) \/ Mtu!Check(r) \/ Mtu!Attempt(r) \/ Mtu!Save(r)
             \/ Mtu!Cancel(r) \/ Mtu!Finish(r) \/ Mtu!Clear(r)
      PROVE  mtuSlot' = q \/ run'[q].stop
  <2>1. Mtu!Busy(q) /\ (run[q].stop => run'[q].stop)
    <3>1. CASE q # r
      <4>1. run'[q] = run[q]
        BY <1>0, <1>3, <3>1, Others
      <4> QED
        BY <4>1 DEF Mtu!Busy
    <3>2. CASE q = r /\ (Mtu!Cancel(r) \/ Mtu!Finish(r))
      BY <1>0, <3>2, CloseEffect DEF Mtu!Busy
    <3> QED
      BY <1>0, <1>3, <3>1, <3>2, StepEffect
  <2>2. CASE Mtu!Stop(r)
    <3>1. mtuSlot = r /\ (q = r => run'[q].stop)
      BY <1>0, <2>2 DEF Mtu!Stop, TypeInv, RunTypes
    <3> QED
      BY <1>0, <2>1, <3>1
  <2>3. CASE Mtu!Clear(r)
    <3>1. CASE q = r
      <4>1. run'[r].pc = "ended"
        BY <1>0, <2>3 DEF Mtu!Clear, TypeInv, RunTypes
      <4> QED
        BY <3>1, <4>1 DEF Mtu!Busy
    <3>2. CASE q # r
      <4>1. Mtu!Busy(r)
        BY <2>3 DEF Mtu!Clear, Mtu!Busy
      <4>2. run[q].id # run[r].id
        BY <2>1, <3>2, <4>1, DistinctIds
      <4>3. mtuSlot = q => mtuSlot' = mtuSlot
        BY <2>3, <4>2 DEF Mtu!Clear
      <4> QED
        BY <1>0, <2>1, <4>3
    <3> QED
      BY <3>1, <3>2
  <2>4. CASE UNCHANGED mtuSlot
    BY <1>0, <2>1, <2>4
  <2>5. Mtu!Stop(r) \/ Mtu!Clear(r) \/ UNCHANGED mtuSlot
    BY <1>3 DEF Mtu!StopReturn, Mtu!Check, Mtu!Attempt, Mtu!Save, Mtu!Cancel, Mtu!Finish,
       Mtu!CloseRow
  <2> QED
    BY <2>2, <2>3, <2>4, <2>5
<1>4. ASSUME NEW i \in Mtu!ids, Mtu!Delete(i)
      PROVE  mtuSlot' = q \/ run'[q].stop
  BY <1>0, <1>4 DEF Mtu!Delete, Mtu!Busy
<1> QED
  BY <1>1, <1>2, <1>3, <1>4, MtuSteps

LEMMA MtuInvariance ==
    ASSUME NoRun \notin Runs, DeleteBusy = FALSE
    PROVE  Mtu!Init /\ [][Mtu!Next]_(Mtu!vars) => []MtuInv
<1>1. Mtu!Init => MtuInv
  <2> SUFFICES ASSUME Mtu!Init
               PROVE  MtuInv
    OBVIOUS
  <2>1. Mtu!ids = {} /\ probes = {} /\ \A r \in Runs : run[r].pc = "idle"
    BY DEF Mtu!Init, Mtu!Idle, Mtu!ids
  <2> QED
    BY <2>1, SlotInit DEF MtuInv, OwnRow, Mtu!Stoppable, Mtu!Busy
<1>2. MtuInv /\ [Mtu!Next]_(Mtu!vars) => MtuInv'
  <2> SUFFICES ASSUME MtuInv, [Mtu!Next]_(Mtu!vars)
               PROVE  MtuInv'
    OBVIOUS
  <2>1. SlotInv'
    BY TypeNext, CountNext, SlotNext DEF MtuInv, SlotInv
  <2> QED
    BY <2>1, RowNext, ProbeNext, StoppableNext DEF MtuInv
<1> QED
  BY <1>1, <1>2, PTL

\* A run that is going can be stopped or has been told to stop: no second
\* start() and no other run's clear_active takes its slot away.
THEOREM MtuStoppableHolds ==
    ASSUME NoRun \notin Runs, DeleteBusy = FALSE
    PROVE  Mtu!Init /\ [][Mtu!Next]_(Mtu!vars) => []Mtu!Stoppable
<1>1. MtuInv => Mtu!Stoppable
  BY DEF MtuInv
<1> QED
  BY <1>1, MtuInvariance, PTL

\* The count a closed run is listed with is the number of outcomes its view was
\* shown, and with a database that works exactly those are in its history.
THEOREM CountsExactHolds ==
    ASSUME NoRun \notin Runs, DeleteBusy = FALSE
    PROVE  Mtu!Init /\ [][Mtu!Next]_(Mtu!vars) => []Mtu!CountsExact
<1>1. MtuInv => Mtu!CountsExact
  <2> SUFFICES ASSUME MtuInv, NEW i \in Mtu!ids, mtuRows[i].result # "open"
               PROVE  /\ mtuRows[i].sent = run[mtuRows[i].owner].shown
                      /\ mtuDbErrors = 0 =>
                           {p.seq : p \in {x \in probes : x.id = i}} = 1..mtuRows[i].sent
    BY DEF Mtu!CountsExact
  <2> DEFINE r == mtuRows[i].owner
  <2>1. r \in Runs /\ run[r].pc \in {"clear", "ended"} /\ mtuRows[i].sent = run[r].shown
    BY OwnerStarted DEF MtuInv, OwnedRow
  <2>2. run[r].shown = run[r].settled
    BY <2>1 DEF MtuInv, SlotInv, CountOf
  <2>3. \A p \in probes : p.id = i => p.seq \in 1..run[r].settled
    BY DEF MtuInv, OwnProbe
  <2>4. mtuDbErrors = 0 => 1..run[r].settled \subseteq {p.seq : p \in {x \in probes : x.id = i}}
    BY DEF MtuInv, AllStored
  <2> QED
    BY <2>1, <2>2, <2>3, <2>4
<1> QED
  BY <1>1, MtuInvariance, PTL

-----------------------------------------------------------------------------
(* A run is a session of SessionLog.                                       *)

\* The log's variables, run by run (the substitution of Log).
Produced(r) == Mtu!Counted(r, run[r].shown)
Settled(r) == Mtu!Counted(r, run[r].settled)
StoredOutcomes(r) == {p.seq : p \in {x \in probes : x.owner = r}}

\* What the log sees of a run.
Seen(r) == <<Mtu!Status(r), Produced(r), Settled(r), StoredOutcomes(r)>>

\* If the log sees nothing change in any run, its variables stay.
LEMMA Unseen ==
    ASSUME \A q \in Runs : Seen(q)' = Seen(q)
    PROVE  UNCHANGED Mtu!Log!logVars
<1>1. \A q \in Runs : Mtu!Status(q)' = Mtu!Status(q) /\ Produced(q)' = Produced(q)
                      /\ Settled(q)' = Settled(q) /\ StoredOutcomes(q)' = StoredOutcomes(q)
  BY DEF Seen
<1>2. [q \in Runs |-> Mtu!Status(q)]' = [q \in Runs |-> Mtu!Status(q)]
  BY <1>1
<1>3. [q \in Runs |-> Produced(q)]' = [q \in Runs |-> Produced(q)]
  BY <1>1
<1>4. [q \in Runs |-> Settled(q)]' = [q \in Runs |-> Settled(q)]
  BY <1>1
<1>5. [q \in Runs |-> StoredOutcomes(q)]' = [q \in Runs |-> StoredOutcomes(q)]
  BY <1>1
<1> QED
  BY <1>2, <1>3, <1>4, <1>5 DEF Mtu!Log!logVars, Produced, Settled, StoredOutcomes

\* A step that the log sees in one run only.
LEMMA SeenIn ==
    ASSUME NEW r \in Runs, \A q \in Runs \ {r} : Seen(q)' = Seen(q)
    PROVE  /\ Mtu!Status(r)' = Mtu!Status(r) =>
                [q \in Runs |-> Mtu!Status(q)]' = [q \in Runs |-> Mtu!Status(q)]
           /\ Produced(r)' = Produced(r) =>
                [q \in Runs |-> Produced(q)]' = [q \in Runs |-> Produced(q)]
           /\ Settled(r)' = Settled(r) =>
                [q \in Runs |-> Settled(q)]' = [q \in Runs |-> Settled(q)]
           /\ StoredOutcomes(r)' = StoredOutcomes(r) =>
                [q \in Runs |-> StoredOutcomes(q)]' = [q \in Runs |-> StoredOutcomes(q)]
           /\ \A v : Mtu!Status(r)' = v =>
                [q \in Runs |-> Mtu!Status(q)]' = [[q \in Runs |-> Mtu!Status(q)] EXCEPT ![r] = v]
           /\ \A v : Produced(r)' = v =>
                [q \in Runs |-> Produced(q)]' = [[q \in Runs |-> Produced(q)] EXCEPT ![r] = v]
           /\ \A v : Settled(r)' = v =>
                [q \in Runs |-> Settled(q)]' = [[q \in Runs |-> Settled(q)] EXCEPT ![r] = v]
           /\ \A v : StoredOutcomes(r)' = v =>
                [q \in Runs |-> StoredOutcomes(q)]' = [[q \in Runs |-> StoredOutcomes(q)] EXCEPT ![r] = v]
<1>1. \A q \in Runs \ {r} : Mtu!Status(q)' = Mtu!Status(q) /\ Produced(q)' = Produced(q)
                            /\ Settled(q)' = Settled(q) /\ StoredOutcomes(q)' = StoredOutcomes(q)
  BY DEF Seen
<1> QED
  BY <1>1

\* Other runs look the same after a step of this one, unless it is Delete.
LEMMA OthersSeen ==
    ASSUME MtuInv, NEW r \in Runs, NEW q \in Runs \ {r},
           \/ Mtu!Start(r) \/ Mtu!Stop(r) \/ Mtu!StopReturn(r) \/ Mtu!Check(r) \/ Mtu!Attempt(r) \/ Mtu!Save(r)
           \/ Mtu!Cancel(r) \/ Mtu!Finish(r) \/ Mtu!Clear(r)
    PROVE  Seen(q)' = Seen(q)
<1>1. run'[q] = run[q]
  BY Others DEF MtuInv, SlotInv
<1>2. StoredOutcomes(q)' = StoredOutcomes(q)
  <2>1. CASE Mtu!Save(r)
    BY <2>1, SaveEffect DEF StoredOutcomes
  <2>2. CASE ~Mtu!Save(r)
    <3>1. UNCHANGED probes
      BY <2>2, QuietStep
    <3> QED
      BY <3>1 DEF StoredOutcomes
  <2> QED
    BY <2>1, <2>2
<1> QED
  BY <1>1, <1>2 DEF Seen, Mtu!Status, Produced, Settled, Mtu!Counted

\* A new row opens a session; a start() that is refused or fails shows nothing.
LEMMA StartLog ==
    ASSUME NoRun \notin Runs, MtuInv, NEW r \in Runs, Mtu!Start(r)
    PROVE  Mtu!Log!Open(r) \/ UNCHANGED Mtu!Log!logVars
<1>0. TypeInv
  BY DEF MtuInv, SlotInv
<1>1. \A q \in Runs \ {r} : Seen(q)' = Seen(q)
  BY OthersSeen
<1>2. /\ run[r].pc = "idle" /\ run[r].id = 0 /\ UNCHANGED probes
      /\ run'[r].shown = run[r].shown /\ run'[r].settled = run[r].settled
      /\ \/ run'[r].pc \in {"refused", "failed"} /\ run'[r].id = 0
         \/ run'[r].pc = "check" /\ run'[r].id = Mtu!NextId
  <2>1. run[r].pc = "idle" /\ run[r].id = 0
    BY DEF Mtu!Start, MtuInv, SlotInv, CountOf
  <2> QED
    BY <1>0, <2>1, StartEffect
<1>3. /\ Mtu!Status(r) = "new" /\ Produced(r)' = Produced(r) /\ Settled(r)' = Settled(r)
      /\ StoredOutcomes(r)' = StoredOutcomes(r)
  BY <1>2 DEF Mtu!Status, Produced, Settled, StoredOutcomes, Mtu!Counted
<1>4. CASE run'[r].pc \in {"refused", "failed"} /\ run'[r].id = 0
  <2>1. Mtu!Status(r)' = "new"
    BY <1>4 DEF Mtu!Status
  <2> QED
    BY <1>1, <1>3, <2>1, Unseen DEF Seen
<1>5. CASE run'[r].pc = "check" /\ run'[r].id = Mtu!NextId
  <2>1. Mtu!Status(r)' = "open"
    BY <1>0, <1>5, NextIdProps DEF Mtu!Status
  <2> QED
    BY <1>1, <1>3, <2>1, SeenIn DEF Mtu!Log!Open, Produced, Settled, StoredOutcomes
<1> QED
  BY <1>2, <1>4, <1>5

\* An outcome that is shown is produced.
LEMMA AttemptLog ==
    ASSUME MtuInv, NEW r \in Runs, Mtu!Attempt(r)
    PROVE  Mtu!Log!Produce(r)
<1>1. \A q \in Runs \ {r} : Seen(q)' = Seen(q)
  BY OthersSeen
<1>2. /\ run[r].pc = "attempt" /\ run'[r].pc = "save" /\ run'[r].shown = run[r].shown + 1
      /\ run'[r].settled = run[r].settled /\ run'[r].id = run[r].id /\ UNCHANGED probes
  BY DEF Mtu!Attempt, MtuInv, SlotInv, TypeInv, RunTypes
<1>3. run[r].id # 0
  BY <1>2 DEF MtuInv, SlotInv, CountOf
<1>4. /\ Mtu!Status(r) = "open" /\ Mtu!Status(r)' = Mtu!Status(r) /\ Produced(r)' = Produced(r) + 1
      /\ Settled(r)' = Settled(r) /\ StoredOutcomes(r)' = StoredOutcomes(r)
  BY <1>2, <1>3 DEF Mtu!Status, Produced, Settled, StoredOutcomes, Mtu!Counted
<1> QED
  BY <1>1, <1>4, SeenIn DEF Mtu!Log!Produce, Produced, Settled, StoredOutcomes

\* add_mtu_probe settles the one outcome that was shown and not yet settled.
LEMMA SaveLog ==
    ASSUME MtuInv, NEW r \in Runs, Mtu!Save(r)
    PROVE  Mtu!Log!Settle(r)
<1>1. \A q \in Runs \ {r} : Seen(q)' = Seen(q)
  BY OthersSeen
<1> DEFINE new == [id |-> run[r].id, owner |-> r, seq |-> run[r].shown]
<1>2. /\ run[r].shown = run[r].settled + 1 /\ run[r].settled \in Nat
      /\ run'[r].settled = run[r].shown /\ run'[r].shown = run[r].shown
      /\ run'[r].pc \in {"check", "done"}
      /\ probes' = probes \cup {new} \/ UNCHANGED probes
  BY SaveEffect
<1>3. run[r].pc = "save" /\ run[r].id # 0 /\ run'[r].id = run[r].id
  BY TaskEffect DEF Mtu!Save, MtuInv, SlotInv, CountOf
<1>4. /\ Mtu!Status(r) = "open" /\ Mtu!Status(r)' = Mtu!Status(r) /\ Produced(r)' = Produced(r)
      /\ Produced(r) = run[r].shown /\ Settled(r) = run[r].settled
      /\ Settled(r)' = run[r].shown
  BY <1>2, <1>3 DEF Mtu!Status, Produced, Settled, Mtu!Counted
<1>5. (Settled(r) + 1)..run[r].shown = {run[r].shown}
  BY <1>2, <1>4
<1>6. \/ StoredOutcomes(r)' = StoredOutcomes(r) \cup (Settled(r) + 1)..run[r].shown
      \/ StoredOutcomes(r)' = StoredOutcomes(r)
  <2>1. CASE UNCHANGED probes
    BY <2>1 DEF StoredOutcomes
  <2>2. CASE probes' = probes \cup {new}
    <3>1. {x \in probes' : x.owner = r} = {x \in probes : x.owner = r} \cup {new}
      BY <2>2
    <3>2. new.seq = run[r].shown
      OBVIOUS
    <3> HIDE DEF new
    <3>3. StoredOutcomes(r)' = StoredOutcomes(r) \cup {run[r].shown}
      BY <3>1, <3>2 DEF StoredOutcomes
    <3> QED
      BY <1>5, <3>3
  <2> QED
    BY <1>2, <2>1, <2>2
<1>7. run[r].shown \in (Settled(r) + 1)..Produced(r)
  BY <1>2, <1>4
<1>8. /\ [q \in Runs |-> Mtu!Status(q)]' = [q \in Runs |-> Mtu!Status(q)]
      /\ [q \in Runs |-> Produced(q)]' = [q \in Runs |-> Produced(q)]
      /\ [q \in Runs |-> Settled(q)]'
           = [[q \in Runs |-> Settled(q)] EXCEPT ![r] = run[r].shown]
  BY <1>1, <1>4, SeenIn
<1>9. \/ [q \in Runs |-> StoredOutcomes(q)]' = [q \in Runs |-> StoredOutcomes(q)]
      \/ [q \in Runs |-> StoredOutcomes(q)]'
           = [[q \in Runs |-> StoredOutcomes(q)] EXCEPT ![r] = @ \cup (Settled(r) + 1)..run[r].shown]
  BY <1>1, <1>6, SeenIn
<1> QED
  BY <1>4, <1>7, <1>8, <1>9 DEF Mtu!Log!Settle, Produced, Settled, StoredOutcomes

\* A row is closed when nothing is unsettled; if it cannot be, the run is lost.
LEMMA CloseLog ==
    ASSUME MtuInv, NEW r \in Runs, Mtu!Cancel(r) \/ Mtu!Finish(r)
    PROVE  Mtu!Log!Close(r) \/ Mtu!Log!Break(r)
<1>1. \A q \in Runs \ {r} : Seen(q)' = Seen(q)
  BY OthersSeen
<1>2. /\ run[r].pc \in {"finish", "done"} /\ run'[r].pc \in {"clear", "broken"}
      /\ run'[r].shown = run[r].shown /\ run'[r].settled = run[r].settled
      /\ UNCHANGED probes
  BY CloseEffect DEF MtuInv, SlotInv
<1>3. run'[r].id = run[r].id /\ run[r].id # 0 /\ run[r].shown = run[r].settled
  BY <1>2, TaskEffect DEF MtuInv, SlotInv, CountOf
<1>4. /\ Mtu!Status(r) = "open" /\ Settled(r) = Produced(r) /\ StoredOutcomes(r)' = StoredOutcomes(r)
  BY <1>2, <1>3 DEF Mtu!Status, Produced, Settled, StoredOutcomes, Mtu!Counted
<1>5. CASE run'[r].pc = "clear"
  <2>1. /\ Mtu!Status(r)' = "closed" /\ Produced(r)' = Produced(r) /\ Settled(r)' = Settled(r)
    BY <1>2, <1>3, <1>5 DEF Mtu!Status, Produced, Settled, Mtu!Counted
  <2> QED
    BY <1>1, <1>4, <2>1, SeenIn DEF Mtu!Log!Close, Produced, Settled, StoredOutcomes
<1>6. CASE run'[r].pc = "broken"
  <2>1. /\ Mtu!Status(r)' = "lost" /\ Produced(r)' = 0 /\ Settled(r)' = 0
    BY <1>2, <1>3, <1>6 DEF Mtu!Status, Produced, Settled, Mtu!Counted
  <2> QED
    BY <1>1, <1>4, <2>1, SeenIn DEF Mtu!Log!Break, Produced, Settled, StoredOutcomes
<1> QED
  BY <1>2, <1>5, <1>6

\* The rest is the run's own business.
LEMMA QuietLog ==
    ASSUME MtuInv, NEW r \in Runs, Mtu!Stop(r) \/ Mtu!StopReturn(r) \/ Mtu!Check(r) \/ Mtu!Clear(r)
    PROVE  UNCHANGED Mtu!Log!logVars
<1>1. \A q \in Runs \ {r} : Seen(q)' = Seen(q)
  BY OthersSeen
<1>2. /\ run'[r].id = run[r].id /\ run'[r].shown = run[r].shown
      /\ run'[r].settled = run[r].settled /\ UNCHANGED probes
      /\ run'[r].pc = "broken" <=> run[r].pc = "broken"
      /\ run'[r].pc \in {"clear", "ended"} <=> run[r].pc \in {"clear", "ended"}
  <2> USE DEF MtuInv, SlotInv, TypeInv, RunTypes
  <2>1. CASE Mtu!Stop(r)
    BY <2>1 DEF Mtu!Stop
  <2>2. CASE Mtu!StopReturn(r)
    BY <2>2 DEF Mtu!StopReturn
  <2>3. CASE Mtu!Check(r)
    BY <2>3 DEF Mtu!Check
  <2>4. CASE Mtu!Clear(r)
    BY <2>4 DEF Mtu!Clear
  <2> QED
    BY <2>1, <2>2, <2>3, <2>4
<1>3. Seen(r)' = Seen(r)
  BY <1>2 DEF Seen, Mtu!Status, Produced, Settled, StoredOutcomes, Mtu!Counted
<1> QED
  BY <1>1, <1>3, Unseen

\* Deleting a row forgets the run it belongs to, and no other.
LEMMA DeleteLog ==
    ASSUME DeleteBusy = FALSE, MtuInv, NEW i \in Mtu!ids, Mtu!Delete(i)
    PROVE  \E r \in Runs : Mtu!Log!Forget(r)
<1>1. /\ UNCHANGED run /\ probes' = {p \in probes : p.id # i}
      /\ \A q \in Runs : Mtu!Busy(q) => run[q].id # i
  BY DEF Mtu!Delete
<1>2. PICK r \in Runs : r = mtuRows[i].owner
  BY OwnerStarted
<1>3. run[r].id = i /\ ~Mtu!Busy(r) /\ run[r].id # 0
  BY <1>1, <1>2, OwnerStarted DEF MtuInv, SlotInv, TypeInv
<1>4. \A p \in probes : p.id = i <=> p.owner = r
  <2>1. \A p \in probes : p.id \in Mtu!ids /\ p.owner = mtuRows[p.id].owner
    BY DEF MtuInv, OwnProbe
  <2>2. \A j \in Mtu!ids : run[mtuRows[j].owner].id = j
    BY OwnerStarted
  <2> QED
    BY <1>2, <1>3, <2>1, <2>2
<1>5. StoredOutcomes(r)' = {} /\ \A q \in Runs \ {r} : StoredOutcomes(q)' = StoredOutcomes(q)
  BY <1>1, <1>4 DEF StoredOutcomes
<1>6. \A q \in Runs : /\ Mtu!Status(q)' = Mtu!Status(q) /\ Produced(q)' = Produced(q)
                      /\ Settled(q)' = Settled(q)
  BY <1>1 DEF Mtu!Status, Produced, Settled, Mtu!Counted
<1>7. Mtu!Status(r) \in {"closed", "lost"}
  <2>1. run[r].pc \in {"broken", "ended"}
    BY <1>3 DEF Mtu!Busy, MtuInv, SlotInv, CountOf, TypeInv, RunTypes, Labels
  <2> QED
    BY <1>3, <2>1 DEF Mtu!Status
<1>8. \A q \in Runs \ {r} : Seen(q)' = Seen(q)
  BY <1>5, <1>6 DEF Seen
<1>9. Mtu!Log!Forget(r)
  BY <1>5, <1>6, <1>7, <1>8, SeenIn DEF Mtu!Log!Forget, Produced, Settled, StoredOutcomes
<1> QED
  BY <1>9

\* MTU runs, with stop(), failing saves and deletions, keep the promises of
\* SessionLog: an outcome is saved once, in order and under its own run, a run
\* is closed only when nothing is unsettled, and a closed run never gains one.
THEOREM MtuImplementsLogHolds ==
    ASSUME NoRun \notin Runs, DeleteBusy = FALSE
    PROVE  Mtu!Init /\ [][Mtu!Next]_(Mtu!vars) => Mtu!ImplementsLog
<1>1. Mtu!Init => Mtu!Log!LogInit
  <2> SUFFICES ASSUME Mtu!Init
               PROVE  Mtu!Log!LogInit
    OBVIOUS
  <2>1. \A q \in Runs : Mtu!Status(q) = "new" /\ Produced(q) = 0 /\ Settled(q) = 0
                        /\ StoredOutcomes(q) = {}
    BY DEF Mtu!Init, Mtu!Idle, Mtu!Status, Produced, Settled, StoredOutcomes, Mtu!Counted
  <2> QED
    BY <2>1 DEF Mtu!Log!LogInit, Produced, Settled, StoredOutcomes
<1>2. MtuInv /\ [Mtu!Next]_(Mtu!vars) => [Mtu!Log!LogNext]_(Mtu!Log!logVars)
  <2> SUFFICES ASSUME MtuInv, [Mtu!Next]_(Mtu!vars)
               PROVE  Mtu!Log!LogNext \/ UNCHANGED Mtu!Log!logVars
    OBVIOUS
  <2>1. CASE UNCHANGED Mtu!vars
    <3>1. \A q \in Runs : Seen(q)' = Seen(q)
      BY <2>1 DEF Mtu!vars, Seen, Mtu!Status, Produced, Settled, StoredOutcomes,
         Mtu!Counted
    <3> QED
      BY <3>1, Unseen
  <2>2. ASSUME NEW r \in Runs,
               \/ Mtu!Start(r) \/ Mtu!Stop(r) \/ Mtu!StopReturn(r) \/ Mtu!Check(r) \/ Mtu!Attempt(r)
               \/ Mtu!Save(r) \/ Mtu!Cancel(r) \/ Mtu!Finish(r) \/ Mtu!Clear(r)
        PROVE  Mtu!Log!LogNext \/ UNCHANGED Mtu!Log!logVars
    BY <2>2, StartLog, AttemptLog, SaveLog, CloseLog, QuietLog DEF Mtu!Log!LogNext
  <2>3. ASSUME NEW i \in Mtu!ids, Mtu!Delete(i)
        PROVE  Mtu!Log!LogNext
    BY <2>3, DeleteLog DEF Mtu!Log!LogNext
  <2> QED
    BY <2>1, <2>2, <2>3, MtuSteps
<1> QED
  BY <1>1, <1>2, MtuInvariance, PTL DEF Mtu!ImplementsLog, Mtu!Log!LogSpec

-----------------------------------------------------------------------------
(* LAN scans.                                                               *)

ScanLabels == {"idle", "refused", "failed", "runner", "consumer", "clear", "broken", "ended"}

ScanTypes == [pc : ScanLabels, id : Nat, stop : BOOLEAN,
              stopper : {"none", "joining", "returned"},
              runner : {"discover", "probing", "sending", "done", "failed"},
              consumer : {"live", "done"}, found : Nat, sent : Nat, shown : Nat,
              settled : Nat, cancelled : BOOLEAN]

ScanRowTypes == [owner : Scans, status : {"running", "cancelled", "completed"}]

ScanRowsBounded == \E n \in Nat : \A i \in Scan!ids : i <= n

ScanTypeInv ==
    /\ scanSlot \in Scans \cup {NoScan}
    /\ scan \in [Scans -> ScanTypes]
    /\ Scan!ids \subseteq Nat \ {0} /\ ScanRowsBounded
    /\ scanRows \in [Scan!ids -> ScanRowTypes]
    /\ \A h \in hosts : h.id \in Scan!ids
    /\ scanDbErrors \in Nat

\* Hosts are found, sent, shown and settled in this order; channel and batch
\* hold what lies in between.
ScanCountOf(s) ==
    /\ scan[s].settled <= scan[s].shown /\ scan[s].shown <= scan[s].settled + Batch
    /\ scan[s].shown <= scan[s].sent /\ scan[s].sent <= scan[s].shown + Capacity
    /\ scan[s].sent <= scan[s].found
    /\ scan[s].runner = "sending" => scan[s].sent < scan[s].found
    /\ scan[s].runner = "discover" => scan[s].found = 0

\* The consumer ends after the runner and with nothing left, and the row is
\* closed after both.
OrderOf(s) ==
    /\ scan[s].id = 0 <=> scan[s].pc \in {"idle", "refused", "failed"}
    /\ scan[s].id = 0 => scan[s].runner = "discover"
    /\ scan[s].pc \in {"consumer", "clear", "broken", "ended"} => Scan!RunnerOver(s)
    /\ scan[s].pc \in {"clear", "broken", "ended"} => scan[s].consumer = "done"
    /\ scan[s].consumer = "done" => Scan!RunnerOver(s) /\ scan[s].settled = scan[s].sent

\* A runner that is done was told to stop or has sent everything, and the flag
\* is read after that.
VerdictOf(s) ==
    /\ scan[s].cancelled => scan[s].stop
    /\ scan[s].runner = "done" => scan[s].stop \/ scan[s].sent = scan[s].found
    /\ scan[s].pc \in {"consumer", "clear", "broken", "ended"} =>
         scan[s].cancelled \/ scan[s].runner = "failed" \/ scan[s].sent = scan[s].found

\* A full slot holds a scan that is going, or one whose row could not be closed.
ScanSlotHeld == scanSlot # NoScan => Scan!Busy(scanSlot) \/ scan[scanSlot].pc = "broken"

ScanSlotInv ==
    /\ ScanTypeInv
    /\ \A s \in Scans : ScanCountOf(s) /\ OrderOf(s) /\ VerdictOf(s)
    /\ ScanSlotHeld

\* A scan that is going has its row.
ScanOwnRow(s) == Scan!Busy(s) => scan[s].id \in Scan!ids /\ scanRows[scan[s].id].owner = s

Verdict(s) == IF scan[s].cancelled THEN "cancelled" ELSE "completed"

\* A row belongs to the scan that has its id, and shows that scan's verdict
\* from the moment the scan has closed it.
ScanOwnedRow(i) ==
    LET s == scanRows[i].owner IN
    /\ scan[s].id = i
    /\ scanRows[i].status = IF scan[s].pc \in {"clear", "ended"} THEN Verdict(s) ELSE "running"

\* A host belongs to its row's scan and has been settled.
OwnHost(h) ==
    /\ h.id \in Scan!ids /\ h.owner = scanRows[h.id].owner
    /\ h.host \in 1..scan[h.owner].settled

\* With a database that works, every settled host of a row is stored.
ScanAllStored(i) == 1..scan[scanRows[i].owner].settled \subseteq {h.host : h \in {x \in hosts : x.id = i}}

ScanInv ==
    /\ ScanSlotInv
    /\ \A s \in Scans : ScanOwnRow(s)
    /\ \A i \in Scan!ids : ScanOwnedRow(i)
    /\ \A h \in hosts : OwnHost(h)
    /\ scanDbErrors = 0 => \A i \in Scan!ids : ScanAllStored(i)
    /\ Scan!Stoppable

-----------------------------------------------------------------------------
(* The next rowid.                                                         *)

\* A bounded set of row ids has a largest one (0 when it is empty).
LEMMA ScanMaxIdExists ==
    ASSUME Scan!ids \subseteq Nat \ {0}, ScanRowsBounded
    PROVE  \E m \in Scan!ids \cup {0} : \A i \in Scan!ids : i <= m
<1> DEFINE bounds == {n \in Nat : \A i \in Scan!ids : i <= n}
<1> HIDE DEF Scan!ids
<1>1. bounds # {} /\ bounds \subseteq Nat
  BY DEF ScanRowsBounded
<1>2. PICK m \in bounds : \A n \in bounds : ~(<<n, m>> \in OpToRel(<, Nat))
  <2> HIDE DEF bounds
  <2>1. IsWellFoundedOn(OpToRel(<, Nat), bounds)
    BY <1>1, NatLessThanWellFounded, IsWellFoundedOnSubset, Zenon
  <2> QED
    BY <1>1, <2>1, WFMin, Zenon
<1>3. \A n \in bounds : ~(n < m)
  BY <1>1, <1>2 DEF OpToRel
<1>4. m \in Scan!ids \cup {0}
  <2> SUFFICES ASSUME m \notin Scan!ids, m # 0
               PROVE  FALSE
    OBVIOUS
  <2>1. m - 1 \in Nat /\ \A i \in Scan!ids : i <= m - 1
    OBVIOUS
  <2> QED
    BY <1>3, <2>1
<1> QED
  BY <1>4

\* The rowid of a new row is positive and above every row.
LEMMA ScanNextIdProps ==
    ASSUME ScanTypeInv
    PROVE  Scan!NextId \in Nat \ {0} /\ \A i \in Scan!ids : i < Scan!NextId
<1> DEFINE m == CHOOSE m \in Scan!ids \cup {0} : \A i \in Scan!ids : i <= m
<1>1. m \in Scan!ids \cup {0} /\ \A i \in Scan!ids : i <= m
  BY ScanMaxIdExists DEF ScanTypeInv
<1>2. Scan!NextId = 1 + m
  BY DEF Scan!NextId
<1> HIDE DEF m
<1> QED
  BY <1>1, <1>2 DEF ScanTypeInv

-----------------------------------------------------------------------------
(* What the steps do.                                                      *)

\* Steps that touch neither table.
Quiet(s) ==
    \/ Scan!Stop(s) \/ Scan!StopReturn(s) \/ Scan!Discover(s) \/ Scan!Probe(s) \/ Scan!Send(s)
    \/ Scan!Receive(s) \/ Scan!RunnerJoined(s) \/ Scan!Clear(s)

\* Steps that empty the batch.
Flushing(s) == Scan!SaveFull(s) \/ Scan!Tick(s) \/ Scan!Drain(s)

\* The actions of the module.
LEMMA ScanSteps ==
    ASSUME [Scan!Next]_(Scan!vars)
    PROVE  \/ UNCHANGED Scan!vars
           \/ \E s \in Scans : Scan!Start(s) \/ Quiet(s) \/ Flushing(s) \/ Scan!Finish(s)
           \/ \E i \in Scan!ids : Scan!Delete(i)
  BY DEF Scan!Next, Scan!TaskStep, Quiet, Flushing

\* A new scan gets the next id and a row; nothing else changes.
LEMMA ScanStartEffect ==
    ASSUME ScanTypeInv, NEW s \in Scans, Scan!Start(s)
    PROVE  /\ scan[s].pc = "idle" /\ scan' = [scan EXCEPT ![s] = scan'[s]]
           /\ scan'[s] \in ScanTypes /\ scan'[s].stop = scan[s].stop
           /\ scan'[s].runner = scan[s].runner /\ scan'[s].consumer = scan[s].consumer
           /\ scan'[s].found = scan[s].found /\ scan'[s].sent = scan[s].sent
           /\ scan'[s].shown = scan[s].shown /\ scan'[s].settled = scan[s].settled
           /\ scan'[s].cancelled = scan[s].cancelled
           /\ UNCHANGED hosts
           /\ \/ /\ scan'[s].pc \in {"refused", "failed"} /\ scan'[s].id = scan[s].id
                 /\ UNCHANGED <<scanSlot, scanRows>> /\ scanDbErrors' \in {scanDbErrors, scanDbErrors + 1}
              \/ /\ scan'[s].pc = "runner" /\ scan'[s].id = Scan!NextId
                 /\ scanSlot = NoScan /\ scanSlot' = s
                 /\ Scan!ids' = Scan!ids \cup {Scan!NextId} /\ Scan!NextId \notin Scan!ids
                 /\ scanRows'[Scan!NextId] = [owner |-> s, status |-> "running"]
                 /\ \A i \in Scan!ids : scanRows'[i] = scanRows[i]
                 /\ scanRows' \in [Scan!ids' -> ScanRowTypes]
                 /\ UNCHANGED scanDbErrors
<1>1. Scan!NextId \in Nat \ {0} /\ Scan!NextId \notin Scan!ids
  BY ScanNextIdProps DEF ScanTypeInv
<1>2. CASE /\ scan' = [scan EXCEPT ![s].pc = "refused"]
           /\ UNCHANGED <<scanSlot, scanRows, scanDbErrors>>
  BY <1>2 DEF Scan!Start, ScanTypeInv, ScanTypes, ScanLabels
<1>3. CASE /\ Scan!DbError
           /\ scan' = [scan EXCEPT ![s].pc = "failed"] /\ UNCHANGED <<scanSlot, scanRows>>
  BY <1>3 DEF Scan!Start, ScanTypeInv, ScanTypes, ScanLabels, Scan!DbError
<1>4. CASE /\ scanSlot = NoScan
           /\ scanRows' = [i \in Scan!ids \cup {Scan!NextId} |->
                         IF i = Scan!NextId THEN [owner |-> s, status |-> "running"]
                                       ELSE scanRows[i]]
           /\ scan' = [scan EXCEPT ![s].pc = "runner", ![s].id = Scan!NextId]
           /\ scanSlot' = s
           /\ UNCHANGED scanDbErrors
  <2> DEFINE t == [scan[s] EXCEPT !.pc = "runner", !.id = Scan!NextId]
  <2>3. scan \in [Scans -> ScanTypes] /\ scan[s] \in ScanTypes
    BY DEF ScanTypeInv
  <2>4. /\ t \in ScanTypes /\ t.stop = scan[s].stop
        /\ t.runner = scan[s].runner /\ t.consumer = scan[s].consumer
        /\ t.found = scan[s].found /\ t.sent = scan[s].sent
        /\ t.shown = scan[s].shown /\ t.settled = scan[s].settled
        /\ t.cancelled = scan[s].cancelled /\ t.pc = "runner" /\ t.id = Scan!NextId
    BY <1>1, <2>3 DEF ScanTypes, ScanLabels
  <2>5. scan' = [scan EXCEPT ![s] = t]
    BY <1>4, <2>3 DEF ScanTypes
  <2> HIDE DEF t
  <2>6. scan'[s] = t
    BY <2>3, <2>5
  <2>1. /\ scan' = [scan EXCEPT ![s] = scan'[s]]
        /\ scan'[s] \in ScanTypes /\ scan'[s].stop = scan[s].stop
        /\ scan'[s].runner = scan[s].runner /\ scan'[s].consumer = scan[s].consumer
        /\ scan'[s].found = scan[s].found /\ scan'[s].sent = scan[s].sent
        /\ scan'[s].shown = scan[s].shown /\ scan'[s].settled = scan[s].settled
        /\ scan'[s].cancelled = scan[s].cancelled
        /\ scan'[s].pc = "runner" /\ scan'[s].id = Scan!NextId
    BY <2>4, <2>5, <2>6
  <2>2. /\ Scan!ids' = Scan!ids \cup {Scan!NextId}
        /\ scanRows'[Scan!NextId] = [owner |-> s, status |-> "running"]
        /\ \A i \in Scan!ids : scanRows'[i] = scanRows[i]
        /\ scanRows' \in [Scan!ids' -> ScanRowTypes]
    <3>1. Scan!ids' = DOMAIN scanRows'
      BY DEF Scan!ids
    <3> QED
      BY <1>1, <1>4, <3>1 DEF ScanTypeInv, ScanRowTypes
  <2> QED
    BY <1>1, <1>4, <2>1, <2>2 DEF Scan!Start
<1> QED
  BY <1>2, <1>3, <1>4 DEF Scan!Start

\* What every quiet step leaves alone.
LEMMA QuietEffect ==
    ASSUME ScanTypeInv, NEW s \in Scans, Quiet(s)
    PROVE  /\ UNCHANGED <<scanRows, hosts, scanDbErrors>> /\ Scan!ids' = Scan!ids
           /\ scan' = [scan EXCEPT ![s] = scan'[s]] /\ scan'[s] \in ScanTypes
           /\ scan'[s].id = scan[s].id /\ scan'[s].settled = scan[s].settled
           /\ scan'[s].consumer = scan[s].consumer
           /\ scan[s].stop => scan'[s].stop
           /\ scan'[s].pc \in {"clear", "ended"} <=> scan[s].pc \in {"clear", "ended"}
           /\ scan'[s].pc \in {"clear", "ended"} => scan'[s].cancelled = scan[s].cancelled
           /\ scan'[s].pc = "broken" <=> scan[s].pc = "broken"
           /\ Scan!Busy(s)' => Scan!Busy(s)
           /\ scan'[s].shown = scan[s].shown \/ Scan!Receive(s)
<1>0. UNCHANGED <<scanRows, hosts, scanDbErrors>> /\ Scan!ids' = Scan!ids
  BY DEF Quiet, Scan!Stop, Scan!StopReturn, Scan!Discover, Scan!Probe, Scan!Send,
     Scan!Receive, Scan!RunnerJoined, Scan!Clear, Scan!ids
<1>1. scan \in [Scans -> ScanTypes] /\ scan[s] \in ScanTypes
  BY DEF ScanTypeInv
<1> DEFINE
      Effect(t) ==
        /\ scan' = [scan EXCEPT ![s] = t] /\ t \in ScanTypes
        /\ t.id = scan[s].id /\ t.settled = scan[s].settled
        /\ t.consumer = scan[s].consumer
        /\ scan[s].stop => t.stop
        /\ t.pc \in {"clear", "ended"} <=> scan[s].pc \in {"clear", "ended"}
        /\ t.pc \in {"clear", "ended"} => t.cancelled = scan[s].cancelled
        /\ t.pc = "broken" <=> scan[s].pc = "broken"
        /\ t.pc \in {"runner", "consumer", "clear"} =>
             scan[s].pc \in {"runner", "consumer", "clear"}
        /\ t.shown = scan[s].shown \/ Scan!Receive(s)
<1>2. ASSUME Scan!Stop(s)
      PROVE  \E t : Effect(t)
  <2>1. Effect([scan[s] EXCEPT !.stop = TRUE, !.stopper = "joining"])
    BY <1>1, <1>2 DEF Scan!Stop, ScanTypes, ScanLabels
  <2> QED
    BY <2>1
<1>3. ASSUME Scan!StopReturn(s)
      PROVE  \E t : Effect(t)
  <2>1. Effect([scan[s] EXCEPT !.stopper = "returned"])
    BY <1>1, <1>3 DEF Scan!StopReturn, ScanTypes, ScanLabels
  <2> QED
    BY <2>1
<1>4. ASSUME Scan!Discover(s)
      PROVE  \E t : Effect(t)
  <2>1. ASSUME scan' = [scan EXCEPT ![s].runner = "failed"]
        PROVE  \E t : Effect(t)
    <3>1. Effect([scan[s] EXCEPT !.runner = "failed"])
      BY <1>1, <1>4, <2>1 DEF ScanTypes, ScanLabels
    <3> QED
      BY <3>1
  <2>2. ASSUME NEW n \in 0..MaxFound,
               scan' = [scan EXCEPT ![s].runner = "probing", ![s].found = n]
        PROVE  \E t : Effect(t)
    <3>1. n \in Nat
      OBVIOUS
    <3> DEFINE t == [scan[s] EXCEPT !.runner = "probing", !.found = n]
    <3>2. t \in ScanTypes
      BY <1>1, <3>1 DEF ScanTypes
    <3>3. scan' = [scan EXCEPT ![s] = t]
      BY <1>1, <2>2
    <3>4. Effect(t)
      BY <1>1, <3>2, <3>3 DEF ScanTypes, ScanLabels
    <3> QED
      BY <3>4
  <2> QED
    BY <1>4, <2>1, <2>2 DEF Scan!Discover
<1>5. ASSUME Scan!Probe(s)
      PROVE  \E t : Effect(t)
  <2>1. Effect([scan[s] EXCEPT !.runner = IF scan[s].sent = scan[s].found \/ scan[s].stop
                                          THEN "done" ELSE "sending"])
    BY <1>1, <1>5 DEF Scan!Probe, ScanTypes, ScanLabels
  <2> QED
    BY <2>1
<1>6. ASSUME Scan!Send(s)
      PROVE  \E t : Effect(t)
  <2> DEFINE t == [scan[s] EXCEPT !.sent = scan[s].sent + 1,
                                  !.runner = IF scan[s].stop THEN "done" ELSE "probing"]
  <2>1. t \in ScanTypes
    <3> DEFINE w == IF scan[s].stop THEN "done" ELSE "probing"
    <3>1. w \in {"done", "probing"}
      OBVIOUS
    <3>2. scan[s].sent + 1 \in Nat
      BY <1>1 DEF ScanTypes
    <3>3. t = [scan[s] EXCEPT !.sent = scan[s].sent + 1, !.runner = w]
      OBVIOUS
    <3> HIDE DEF w
    <3> QED
      BY <1>1, <3>1, <3>2, <3>3 DEF ScanTypes
  <2>2. scan' = [scan EXCEPT ![s] = t]
    BY <1>1, <1>6 DEF Scan!Send
  <2>3. Effect(t)
    BY <1>1, <2>1, <2>2 DEF ScanTypes, ScanLabels
  <2> QED
    BY <2>3
<1>7. ASSUME Scan!Receive(s)
      PROVE  \E t : Effect(t)
  <2>1. Effect([scan[s] EXCEPT !.shown = scan[s].shown + 1])
    BY <1>1, <1>7 DEF Scan!Receive, ScanTypes, ScanLabels
  <2> QED
    BY <2>1
<1>8. ASSUME Scan!RunnerJoined(s)
      PROVE  \E t : Effect(t)
  <2>1. Effect([scan[s] EXCEPT !.pc = "consumer", !.cancelled = scan[s].stop])
    BY <1>1, <1>8 DEF Scan!RunnerJoined, ScanTypes, ScanLabels
  <2> QED
    BY <2>1
<1>9. ASSUME Scan!Clear(s)
      PROVE  \E t : Effect(t)
  <2>1. Effect([scan[s] EXCEPT !.pc = "ended"])
    BY <1>1, <1>9 DEF Scan!Clear, ScanTypes, ScanLabels
  <2> QED
    BY <2>1
<1>10. PICK t : Effect(t)
  <2> HIDE DEF Effect
  <2> QED
    BY <1>2, <1>3, <1>4, <1>5, <1>6, <1>7, <1>8, <1>9 DEF Quiet
<1>11. scan'[s] = t
  BY <1>1, <1>10
<1> QED
  BY <1>0, <1>10, <1>11 DEF Scan!Busy

\* A flush settles what was shown, and stores it unless the row is gone or the
\* database fails.
LEMMA FlushEffect ==
    ASSUME ScanTypeInv, NEW s \in Scans, Flushing(s)
    PROVE  /\ UNCHANGED <<scanSlot, scanRows>> /\ Scan!ids' = Scan!ids
           /\ Scan!Consuming(s)
           /\ \E c \in {"live", "done"} :
                /\ scan' = [scan EXCEPT ![s].settled = scan[s].shown, ![s].consumer = c]
                /\ c = "done" => Scan!RunnerOver(s) /\ scan[s].shown = scan[s].sent
           /\ \/ /\ scan[s].shown > scan[s].settled => scan[s].id \in Scan!ids
                 /\ hosts' = hosts \cup Scan!BatchRows(s)
                 /\ UNCHANGED scanDbErrors
              \/ /\ scan[s].shown > scan[s].settled /\ scan[s].id \notin Scan!ids
                 /\ UNCHANGED <<hosts, scanDbErrors>>
              \/ /\ scan[s].shown > scan[s].settled
                 /\ UNCHANGED hosts /\ scanDbErrors' = scanDbErrors + 1
<1>1. PICK c \in {"live", "done"} :
        /\ Scan!Flush(s, c) /\ UNCHANGED <<scanSlot, scanRows>> /\ Scan!Consuming(s)
        /\ c = "done" => Scan!RunnerOver(s) /\ scan[s].shown = scan[s].sent
  BY DEF Flushing, Scan!SaveFull, Scan!Tick, Scan!Drain
<1> QED
  BY <1>1 DEF Scan!Flush, Scan!DbError, Scan!ids

\* The same, field by field.
LEMMA FlushFields ==
    ASSUME ScanTypeInv, NEW s \in Scans, Flushing(s)
    PROVE  /\ scan' = [scan EXCEPT ![s] = scan'[s]] /\ scan'[s] \in ScanTypes
           /\ scan'[s].settled = scan[s].shown /\ scan'[s].pc = scan[s].pc
           /\ scan'[s].id = scan[s].id /\ scan'[s].stop = scan[s].stop
           /\ scan'[s].runner = scan[s].runner /\ scan'[s].found = scan[s].found
           /\ scan'[s].sent = scan[s].sent /\ scan'[s].shown = scan[s].shown
           /\ scan'[s].cancelled = scan[s].cancelled
           /\ scan'[s].consumer = "done" => Scan!RunnerOver(s) /\ scan[s].shown = scan[s].sent
<1>1. PICK c \in {"live", "done"} :
        /\ scan' = [scan EXCEPT ![s].settled = scan[s].shown, ![s].consumer = c]
        /\ c = "done" => Scan!RunnerOver(s) /\ scan[s].shown = scan[s].sent
  BY FlushEffect
<1>2. scan[s] \in ScanTypes
  BY DEF ScanTypeInv
<1> DEFINE t == [scan[s] EXCEPT !.settled = scan[s].shown, !.consumer = c]
<1>3. /\ t \in ScanTypes /\ t.settled = scan[s].shown /\ t.pc = scan[s].pc
      /\ t.id = scan[s].id /\ t.stop = scan[s].stop
      /\ t.runner = scan[s].runner /\ t.found = scan[s].found
      /\ t.sent = scan[s].sent /\ t.shown = scan[s].shown
      /\ t.cancelled = scan[s].cancelled /\ t.consumer = c
  BY <1>2 DEF ScanTypes
<1>4. scan' = [scan EXCEPT ![s] = t]
  BY <1>1, <1>2 DEF ScanTypes
<1> HIDE DEF t
<1>5. scan'[s] = t
  BY <1>4 DEF ScanTypeInv
<1> QED
  BY <1>1, <1>3, <1>4, <1>5

\* Closing a row writes the verdict, or breaks the scan.
LEMMA FinishEffect ==
    ASSUME ScanTypeInv, NEW s \in Scans, Scan!Finish(s)
    PROVE  /\ scan[s].pc = "consumer" /\ scan[s].consumer = "done"
           /\ scan' = [scan EXCEPT ![s] = scan'[s]] /\ scan'[s] \in ScanTypes
           /\ scan'[s].id = scan[s].id /\ scan'[s].stop = scan[s].stop
           /\ scan'[s].runner = scan[s].runner /\ scan'[s].consumer = scan[s].consumer
           /\ scan'[s].found = scan[s].found /\ scan'[s].sent = scan[s].sent
           /\ scan'[s].shown = scan[s].shown /\ scan'[s].settled = scan[s].settled
           /\ scan'[s].cancelled = scan[s].cancelled
           /\ UNCHANGED <<scanSlot, hosts>> /\ Scan!ids' = Scan!ids /\ scanRows' \in [Scan!ids -> ScanRowTypes]
           /\ \A i \in Scan!ids : scanRows'[i].owner = scanRows[i].owner
           /\ \A i \in Scan!ids : i # scan[s].id => scanRows'[i] = scanRows[i]
           /\ \/ /\ scan'[s].pc = "clear" /\ UNCHANGED scanDbErrors
                 /\ \A i \in Scan!ids : i = scan[s].id => scanRows'[i].status = Verdict(s)
              \/ scan'[s].pc = "broken" /\ scanDbErrors' = scanDbErrors + 1 /\ UNCHANGED scanRows
<1>1. Scan!ids' = DOMAIN scanRows'
  BY DEF Scan!ids
<1>2. CASE /\ scanRows' = [i \in Scan!ids |-> IF i = scan[s].id
                                     THEN [scanRows[i] EXCEPT !.status =
                                             IF scan[s].cancelled THEN "cancelled" ELSE "completed"]
                                     ELSE scanRows[i]]
           /\ scan' = [scan EXCEPT ![s].pc = "clear"]
           /\ UNCHANGED scanDbErrors
  <2>1. Scan!ids' = Scan!ids
    BY <1>1, <1>2
  <2>2. \A i \in Scan!ids : /\ scanRows[i] \in ScanRowTypes /\ scanRows'[i] \in ScanRowTypes
                            /\ scanRows'[i].owner = scanRows[i].owner
                            /\ i # scan[s].id => scanRows'[i] = scanRows[i]
                            /\ i = scan[s].id => scanRows'[i].status = Verdict(s)
    BY <1>2 DEF ScanTypeInv, ScanRowTypes, Verdict
  <2>3. scanRows' \in [Scan!ids -> ScanRowTypes]
    BY <1>2, <2>2
  <2>4. /\ scan' = [scan EXCEPT ![s] = scan'[s]] /\ scan'[s] \in ScanTypes
        /\ scan'[s].id = scan[s].id /\ scan'[s].stop = scan[s].stop
        /\ scan'[s].runner = scan[s].runner /\ scan'[s].consumer = scan[s].consumer
        /\ scan'[s].found = scan[s].found /\ scan'[s].sent = scan[s].sent
        /\ scan'[s].shown = scan[s].shown /\ scan'[s].settled = scan[s].settled
        /\ scan'[s].cancelled = scan[s].cancelled /\ scan'[s].pc = "clear"
    BY <1>2 DEF ScanTypeInv, ScanTypes, ScanLabels
  <2> QED
    BY <1>2, <2>1, <2>2, <2>3, <2>4 DEF Scan!Finish
<1>3. CASE Scan!DbError /\ scan' = [scan EXCEPT ![s].pc = "broken"] /\ UNCHANGED scanRows
  BY <1>1, <1>3 DEF Scan!Finish, ScanTypeInv, ScanTypes, ScanLabels, Scan!DbError,
     Scan!ids
<1> QED
  BY <1>2, <1>3 DEF Scan!Finish

\* Deleting takes the row and its hosts.
LEMMA DeleteEffect ==
    ASSUME NEW i \in Scan!ids, Scan!Delete(i)
    PROVE  /\ Scan!ids' = Scan!ids \ {i} /\ scanRows' = [j \in Scan!ids \ {i} |-> scanRows[j]]
           /\ hosts' = {h \in hosts : h.id # i}
           /\ UNCHANGED <<scanSlot, scan, scanDbErrors>>
           /\ DeleteBusy = FALSE => \A s \in Scans : Scan!Busy(s) => scan[s].id # i
  BY DEF Scan!Delete, Scan!ids

\* What a step leaves of the other scans.
LEMMA ScanOthers ==
    ASSUME ScanTypeInv, NEW s \in Scans, Scan!Start(s) \/ Quiet(s) \/ Flushing(s) \/ Scan!Finish(s)
    PROVE  /\ scan' = [scan EXCEPT ![s] = scan'[s]] /\ scan'[s] \in ScanTypes
           /\ scan' \in [Scans -> ScanTypes]
           /\ \A q \in Scans \ {s} : scan'[q] = scan[q]
<1>1. scan' = [scan EXCEPT ![s] = scan'[s]] /\ scan'[s] \in ScanTypes
  BY ScanStartEffect, QuietEffect, FlushFields, FinishEffect
<1> QED
  BY <1>1 DEF ScanTypeInv

-----------------------------------------------------------------------------
(* The types, the counts and the slot.                                     *)

LEMMA ScanTypeNext == ScanTypeInv /\ [Scan!Next]_(Scan!vars) => ScanTypeInv'
<1> SUFFICES ASSUME ScanTypeInv, [Scan!Next]_(Scan!vars)
             PROVE  ScanTypeInv'
  OBVIOUS
<1>1. CASE UNCHANGED Scan!vars
  BY <1>1 DEF Scan!vars, ScanTypeInv, ScanRowsBounded, Scan!ids
<1>2. ASSUME NEW s \in Scans, Scan!Start(s)
      PROVE  ScanTypeInv'
  <2>1. ScanRowsBounded'
    <3>1. CASE UNCHANGED scanRows
      BY <3>1 DEF ScanTypeInv, ScanRowsBounded, Scan!ids
    <3>2. CASE Scan!ids' = Scan!ids \cup {Scan!NextId}
      <4>1. Scan!NextId \in Nat /\ \A i \in Scan!ids : i < Scan!NextId
        BY ScanNextIdProps
      <4>2. \A i \in Scan!ids' : i <= Scan!NextId
        BY <3>2, <4>1 DEF ScanTypeInv
      <4> QED
        BY <4>1, <4>2 DEF ScanRowsBounded
    <3> QED
      BY <1>2, <3>1, <3>2, ScanStartEffect
  <2>2. \/ UNCHANGED scanRows
        \/ Scan!ids' = Scan!ids \cup {Scan!NextId} /\ scanRows' \in [Scan!ids' -> ScanRowTypes]
    BY <1>2, ScanStartEffect
  <2>3. Scan!ids \subseteq Scan!ids' /\ Scan!ids' \subseteq Nat \ {0} /\ scanRows' \in [Scan!ids' -> ScanRowTypes]
    BY <2>2, ScanNextIdProps DEF ScanTypeInv, Scan!ids
  <2>4. /\ scanSlot' \in {scanSlot, s} /\ UNCHANGED hosts /\ scanDbErrors' \in {scanDbErrors, scanDbErrors + 1}
    BY <1>2, ScanStartEffect
  <2>5. scan' \in [Scans -> ScanTypes]
    BY <1>2, ScanOthers
  <2>6. \A h \in hosts' : h.id \in Scan!ids'
    BY <2>3, <2>4 DEF ScanTypeInv
  <2>7. scanSlot' \in Scans \cup {NoScan} /\ scanDbErrors' \in Nat
    BY <2>4 DEF ScanTypeInv
  <2> QED
    BY <2>1, <2>3, <2>5, <2>6, <2>7 DEF ScanTypeInv
<1>3. ASSUME NEW s \in Scans, Quiet(s)
      PROVE  ScanTypeInv'
  <2>1. UNCHANGED <<scanRows, hosts, scanDbErrors>> /\ scan' \in [Scans -> ScanTypes]
    BY <1>3, QuietEffect, ScanOthers
  <2>2. scanSlot' \in {scanSlot, NoScan}
    BY <1>3 DEF Quiet, Scan!Stop, Scan!StopReturn, Scan!Discover, Scan!Probe, Scan!Send,
       Scan!Receive, Scan!RunnerJoined, Scan!Clear
  <2> QED
    BY <2>1, <2>2 DEF ScanTypeInv, ScanRowsBounded, Scan!ids
<1>4. ASSUME NEW s \in Scans, Flushing(s)
      PROVE  ScanTypeInv'
  <2>1. scan' \in [Scans -> ScanTypes]
    BY <1>4, ScanOthers
  <2>2. UNCHANGED <<scanSlot, scanRows>> /\ scanDbErrors' \in {scanDbErrors, scanDbErrors + 1}
    BY <1>4, FlushEffect
  <2>3. \A h \in Scan!BatchRows(s) : h.id = scan[s].id /\ scan[s].shown > scan[s].settled
    <3>1. scan[s].shown \in Nat /\ scan[s].settled \in Nat
      BY DEF ScanTypeInv, ScanTypes
    <3> QED
      BY <3>1 DEF Scan!BatchRows
  <2>4. \A h \in hosts' : h.id \in Scan!ids
    BY <1>4, <2>3, FlushEffect DEF ScanTypeInv
  <2> QED
    BY <2>1, <2>2, <2>4 DEF ScanTypeInv, ScanRowsBounded, Scan!ids
<1>5. ASSUME NEW s \in Scans, Scan!Finish(s)
      PROVE  ScanTypeInv'
  <2>1. scan' \in [Scans -> ScanTypes]
    BY <1>5, ScanOthers
  <2>2. /\ UNCHANGED <<scanSlot, hosts>> /\ Scan!ids' = Scan!ids /\ scanRows' \in [Scan!ids -> ScanRowTypes]
        /\ scanDbErrors' \in {scanDbErrors, scanDbErrors + 1}
    BY <1>5, FinishEffect
  <2>3. Scan!ids' \subseteq Nat \ {0} /\ ScanRowsBounded'
    BY <2>2 DEF ScanTypeInv, ScanRowsBounded
  <2>4. \A h \in hosts' : h.id \in Scan!ids'
    BY <2>2 DEF ScanTypeInv
  <2> QED
    BY <2>1, <2>2, <2>3, <2>4 DEF ScanTypeInv
<1>6. ASSUME NEW i \in Scan!ids, Scan!Delete(i)
      PROVE  ScanTypeInv'
  BY <1>6, DeleteEffect DEF ScanTypeInv, ScanRowsBounded
<1> QED
  BY <1>1, <1>2, <1>3, <1>4, <1>5, <1>6, ScanSteps

\* The parts of SlotInv that are about one scan.
Course(s) == ScanCountOf(s) /\ OrderOf(s) /\ VerdictOf(s)

\* A quiet step, as a change of one record.
LEMMA QuietRecord ==
    ASSUME ScanTypeInv, NEW s \in Scans
    PROVE  /\ Scan!Stop(s) => scan'[s] = [scan[s] EXCEPT !.stop = TRUE, !.stopper = "joining"]
           /\ Scan!StopReturn(s) => scan'[s] = [scan[s] EXCEPT !.stopper = "returned"]
           /\ Scan!Discover(s) =>
                \/ scan'[s] = [scan[s] EXCEPT !.runner = "failed"]
                \/ \E n \in 0..MaxFound :
                     scan'[s] = [scan[s] EXCEPT !.runner = "probing", !.found = n]
           /\ Scan!Probe(s) =>
                scan'[s] = [scan[s] EXCEPT !.runner =
                              IF scan[s].sent = scan[s].found \/ scan[s].stop
                              THEN "done" ELSE "sending"]
           /\ Scan!Send(s) =>
                scan'[s] = [scan[s] EXCEPT !.sent = scan[s].sent + 1,
                                           !.runner = IF scan[s].stop THEN "done" ELSE "probing"]
           /\ Scan!Receive(s) => scan'[s] = [scan[s] EXCEPT !.shown = scan[s].shown + 1]
           /\ Scan!RunnerJoined(s) =>
                scan'[s] = [scan[s] EXCEPT !.pc = "consumer", !.cancelled = scan[s].stop]
           /\ Scan!Clear(s) => scan'[s] = [scan[s] EXCEPT !.pc = "ended"]
<1>1. scan \in [Scans -> ScanTypes] /\ scan[s] \in ScanTypes
  BY DEF ScanTypeInv
<1>2. Scan!Stop(s) => scan'[s] = [scan[s] EXCEPT !.stop = TRUE, !.stopper = "joining"]
  BY <1>1 DEF Scan!Stop
<1>3. Scan!StopReturn(s) => scan'[s] = [scan[s] EXCEPT !.stopper = "returned"]
  BY <1>1 DEF Scan!StopReturn
<1>4. ASSUME Scan!Discover(s)
      PROVE  \/ scan'[s] = [scan[s] EXCEPT !.runner = "failed"]
             \/ \E n \in 0..MaxFound :
                  scan'[s] = [scan[s] EXCEPT !.runner = "probing", !.found = n]
  <2>1. CASE scan' = [scan EXCEPT ![s].runner = "failed"]
    BY <1>1, <2>1
  <2>2. CASE \E n \in 0..MaxFound :
               scan' = [scan EXCEPT ![s].runner = "probing", ![s].found = n]
    BY <1>1, <2>2
  <2> QED
    BY <1>4, <2>1, <2>2 DEF Scan!Discover
<1>5. Scan!Probe(s) => scan'[s] = [scan[s] EXCEPT !.runner =
                                IF scan[s].sent = scan[s].found \/ scan[s].stop
                                THEN "done" ELSE "sending"]
  BY <1>1 DEF Scan!Probe
<1>6. Scan!Send(s) => scan'[s] = [scan[s] EXCEPT !.sent = scan[s].sent + 1,
                               !.runner = IF scan[s].stop THEN "done" ELSE "probing"]
  BY <1>1 DEF Scan!Send
<1>7. Scan!Receive(s) => scan'[s] = [scan[s] EXCEPT !.shown = scan[s].shown + 1]
  BY <1>1 DEF Scan!Receive
<1>8. Scan!RunnerJoined(s) =>
        scan'[s] = [scan[s] EXCEPT !.pc = "consumer", !.cancelled = scan[s].stop]
  BY <1>1 DEF Scan!RunnerJoined
<1>9. Scan!Clear(s) => scan'[s] = [scan[s] EXCEPT !.pc = "ended"]
  BY <1>1 DEF Scan!Clear
<1> QED
  BY <1>2, <1>3, <1>4, <1>5, <1>6, <1>7, <1>8, <1>9

\* The runner's steps keep the order of the counts: a host is sent only while
\* the channel has room, and the runner ends told to stop or with all sent.
LEMMA RunnerCourse ==
    ASSUME Batch \in Nat, Capacity \in Nat, ScanTypeInv, NEW s \in Scans, Course(s),
           Scan!Discover(s) \/ Scan!Probe(s) \/ Scan!Send(s)
    PROVE  Course(s)'
<1> USE DEF Course, ScanCountOf, OrderOf, VerdictOf, Scan!RunnerOver
<1>1. scan[s] \in ScanTypes
  BY SMTT(30) DEF ScanTypeInv
<1>2. CASE Scan!Discover(s)
  <2>1. scan[s].runner = "discover" /\ scan[s].pc = "runner"
    BY <1>2 DEF Scan!Discover, Scan!Running
  <2>2. CASE scan'[s] = [scan[s] EXCEPT !.runner = "failed"]
    BY <1>1, <2>1, <2>2 DEF ScanTypes
  <2>3. CASE \E n \in 0..MaxFound :
               scan'[s] = [scan[s] EXCEPT !.runner = "probing", !.found = n]
    <3>1. PICK n \in 0..MaxFound :
               scan'[s] = [scan[s] EXCEPT !.runner = "probing", !.found = n]
      BY <2>3
    <3>2. scan[s].found = 0 /\ n >= 0 /\ n \in Int
      BY <2>1
    <3> QED
      BY <1>1, <2>1, <3>1, <3>2 DEF ScanTypes
  <2> QED
    BY <1>2, <2>2, <2>3, QuietRecord
<1>3. CASE Scan!Probe(s)
  <2>1. scan[s].runner = "probing" /\ scan[s].pc = "runner"
    BY <1>3, SMTT(30) DEF Scan!Probe, Scan!Running
  <2>2. scan'[s] = [scan[s] EXCEPT !.runner =
                      IF scan[s].sent = scan[s].found \/ scan[s].stop THEN "done" ELSE "sending"]
    BY <1>3, QuietRecord
  <2>3. CASE scan[s].sent = scan[s].found \/ scan[s].stop
    <3>1. scan'[s] = [scan[s] EXCEPT !.runner = "done"]
      BY <2>2, <2>3
    <3> QED
      BY <1>1, <2>1, <2>3, <3>1 DEF ScanTypes
  <2>4. CASE ~(scan[s].sent = scan[s].found \/ scan[s].stop)
    <3>1. scan'[s] = [scan[s] EXCEPT !.runner = "sending"]
      BY <2>2, <2>4
    <3> QED
      BY <1>1, <2>1, <2>4, <3>1 DEF ScanTypes
  <2> QED
    BY <2>3, <2>4
<1>4. CASE Scan!Send(s)
  <2>1. /\ scan[s].runner = "sending" /\ scan[s].pc = "runner"
        /\ scan[s].sent - scan[s].shown < Capacity
    BY <1>4, SMTT(30) DEF Scan!Send, Scan!Running
  <2>2. scan'[s] = [scan[s] EXCEPT !.sent = scan[s].sent + 1,
                      !.runner = IF scan[s].stop THEN "done" ELSE "probing"]
    BY <1>4, QuietRecord
  <2>3. CASE scan[s].stop
    <3>1. scan'[s] = [scan[s] EXCEPT !.sent = scan[s].sent + 1, !.runner = "done"]
      BY <2>2, <2>3
    <3> QED
      BY <1>1, <2>1, <2>3, <3>1 DEF ScanTypes
  <2>4. CASE ~scan[s].stop
    <3>1. scan'[s] = [scan[s] EXCEPT !.sent = scan[s].sent + 1, !.runner = "probing"]
      BY <2>2, <2>4
    <3> QED
      BY <1>1, <2>1, <2>4, <3>1 DEF ScanTypes
  <2> QED
    BY <2>3, <2>4
<1> QED
  BY <1>2, <1>3, <1>4

LEMMA CourseNext ==
    ASSUME Batch \in Nat, Capacity \in Nat
    PROVE  ScanTypeInv /\ (\A s \in Scans : Course(s)) /\ [Scan!Next]_(Scan!vars)
             => (\A s \in Scans : Course(s))'
<1> SUFFICES ASSUME ScanTypeInv, \A s \in Scans : Course(s), [Scan!Next]_(Scan!vars),
                    NEW q \in Scans
             PROVE  Course(q)'
  OBVIOUS
<1> USE DEF Course, ScanCountOf, OrderOf, VerdictOf, Scan!RunnerOver
<1>0. scan[q] \in ScanTypes
  BY DEF ScanTypeInv
<1>1. CASE scan'[q] = scan[q]
  BY <1>1
<1>2. CASE Scan!Start(q)
  <2>1. /\ scan[q].pc = "idle" /\ scan'[q].stop = scan[q].stop
        /\ scan'[q].runner = scan[q].runner /\ scan'[q].consumer = scan[q].consumer
        /\ scan'[q].found = scan[q].found /\ scan'[q].sent = scan[q].sent
        /\ scan'[q].shown = scan[q].shown /\ scan'[q].settled = scan[q].settled
        /\ scan'[q].cancelled = scan[q].cancelled
        /\ \/ scan'[q].pc \in {"refused", "failed"} /\ scan'[q].id = scan[q].id
           \/ scan'[q].pc = "runner" /\ scan'[q].id = Scan!NextId
    BY <1>2, ScanStartEffect
  <2>2. Scan!NextId # 0
    BY ScanNextIdProps
  <2> QED
    BY <2>1, <2>2
<1>3. CASE Scan!Stop(q) \/ Scan!StopReturn(q)
  <2>1. \/ scan'[q] = [scan[q] EXCEPT !.stop = TRUE, !.stopper = "joining"]
        \/ scan'[q] = [scan[q] EXCEPT !.stopper = "returned"]
    BY <1>3, QuietRecord
  <2>2. CASE scan'[q] = [scan[q] EXCEPT !.stop = TRUE, !.stopper = "joining"]
    BY <1>0, <2>2 DEF ScanTypes
  <2>3. CASE scan'[q] = [scan[q] EXCEPT !.stopper = "returned"]
    BY <1>0, <2>3 DEF ScanTypes
  <2> QED
    BY <2>1, <2>2, <2>3
<1>4. CASE Scan!Discover(q) \/ Scan!Probe(q) \/ Scan!Send(q)
  BY <1>4, RunnerCourse
<1>5. CASE Scan!Receive(q)
  <2>1. /\ scan[q].consumer = "live" /\ scan[q].shown < scan[q].sent
        /\ scan[q].shown - scan[q].settled < Batch
        /\ scan[q].pc \in {"runner", "consumer"}
        /\ scan'[q] = [scan[q] EXCEPT !.shown = scan[q].shown + 1]
    BY <1>5, QuietRecord DEF Scan!Receive, Scan!Consuming
  <2> QED
    BY <1>0, <2>1 DEF ScanTypes
<1>6. CASE Scan!RunnerJoined(q)
  <2>1. /\ scan[q].pc = "runner" /\ scan[q].runner \in {"done", "failed"}
        /\ scan'[q] = [scan[q] EXCEPT !.pc = "consumer", !.cancelled = scan[q].stop]
    BY <1>6, QuietRecord DEF Scan!RunnerJoined
  <2> QED
    BY <1>0, <2>1 DEF ScanTypes
<1>7. CASE Scan!Clear(q)
  <2>1. scan[q].pc = "clear" /\ scan'[q] = [scan[q] EXCEPT !.pc = "ended"]
    BY <1>7, QuietRecord DEF Scan!Clear
  <2> QED
    BY <1>0, <2>1 DEF ScanTypes
<1>8. CASE Flushing(q)
  <2>1. scan[q].pc \in {"runner", "consumer"}
    BY <1>8, FlushEffect DEF Scan!Consuming
  <2> QED
    BY <1>0, <1>8, <2>1, FlushFields DEF ScanTypes
<1>9. CASE Scan!Finish(q)
  BY <1>0, <1>9, FinishEffect DEF ScanTypes
<1>10. \/ scan'[q] = scan[q]
       \/ Scan!Start(q) \/ Quiet(q) \/ Flushing(q) \/ Scan!Finish(q)
  <2>1. ASSUME NEW s \in Scans \ {q}, Scan!Start(s) \/ Quiet(s) \/ Flushing(s) \/ Scan!Finish(s)
        PROVE  scan'[q] = scan[q]
    BY <2>1, ScanOthers
  <2>2. ASSUME NEW i \in Scan!ids, Scan!Delete(i)
        PROVE  scan'[q] = scan[q]
    BY <2>2, DeleteEffect
  <2> QED
    BY <2>1, <2>2, ScanSteps DEF Scan!vars
<1> QED
  BY <1>1, <1>2, <1>3, <1>4, <1>5, <1>6, <1>7, <1>8, <1>9, <1>10 DEF Quiet

\* A scan leaves "going" only by clear_active, which empties the slot if it
\* holds this scan, or by a row that cannot be closed.
LEMMA ScanSlotNext ==
    ASSUME NoScan \notin Scans
    PROVE  ScanSlotInv /\ [Scan!Next]_(Scan!vars) => ScanSlotHeld'
<1> SUFFICES ASSUME ScanSlotInv, [Scan!Next]_(Scan!vars), scanSlot' # NoScan
             PROVE  Scan!Busy(scanSlot)' \/ (scan[scanSlot].pc = "broken")'
  BY DEF ScanSlotHeld
<1>0. ScanTypeInv /\ (scanSlot # NoScan => Scan!Busy(scanSlot) \/ scan[scanSlot].pc = "broken")
  BY DEF ScanSlotInv, ScanSlotHeld
<1>1. CASE UNCHANGED <<scanSlot, scan>>
  BY <1>0, <1>1 DEF Scan!Busy
<1>2. ASSUME NEW s \in Scans, Scan!Start(s)
      PROVE  Scan!Busy(scanSlot)' \/ (scan[scanSlot].pc = "broken")'
  <2>1. CASE scanSlot' = s /\ scan'[s].pc = "runner"
    BY <2>1 DEF Scan!Busy
  <2>2. CASE UNCHANGED scanSlot
    <3>1. scan[s].pc = "idle" /\ scanSlot # NoScan
      BY <1>2, <2>2, ScanStartEffect, <1>0
    <3>2. scanSlot \in Scans /\ scanSlot # s
      BY <1>0, <3>1 DEF Scan!Busy, ScanTypeInv
    <3>3. scan'[scanSlot] = scan[scanSlot]
      BY <1>0, <1>2, <3>2, ScanOthers
    <3> QED
      BY <1>0, <2>2, <3>2, <3>3 DEF Scan!Busy
  <2> QED
    BY <1>0, <1>2, <2>1, <2>2, ScanStartEffect
<1>3. ASSUME NEW s \in Scans, UNCHANGED scanSlot, Quiet(s) \/ Flushing(s) \/ Scan!Finish(s),
             scanSlot # s
      PROVE  Scan!Busy(scanSlot)' \/ (scan[scanSlot].pc = "broken")'
  <2>1. scanSlot \in Scans
    BY <1>0, <1>3 DEF ScanTypeInv
  <2>2. scan'[scanSlot] = scan[scanSlot]
    BY <1>0, <1>3, <2>1, ScanOthers
  <2> QED
    BY <1>0, <1>3, <2>2 DEF Scan!Busy
<1>4. ASSUME NEW s \in Scans, UNCHANGED scanSlot, scanSlot = s,
             \/ Scan!StopReturn(s) \/ Scan!Discover(s) \/ Scan!Probe(s) \/ Scan!Send(s) \/ Scan!Receive(s)
             \/ Scan!RunnerJoined(s) \/ Flushing(s) \/ Scan!Finish(s)
      PROVE  Scan!Busy(scanSlot)' \/ (scan[scanSlot].pc = "broken")'
  <2>1. scan'[s].pc = scan[s].pc \/ scan'[s].pc \in {"consumer", "clear", "broken"}
    <3>1. scan[s] \in ScanTypes
      BY <1>0 DEF ScanTypeInv
    <3>2. CASE Scan!StopReturn(s)
      <4>1. scan'[s] = [scan[s] EXCEPT !.stopper = "returned"]
        BY <1>0, <3>2, QuietRecord
      <4> QED
        BY <3>1, <4>1, SMTT(30) DEF ScanTypes
    <3>3. CASE Scan!Discover(s)
      <4>1. \/ scan'[s] = [scan[s] EXCEPT !.runner = "failed"]
            \/ \E n \in 0..MaxFound :
                 scan'[s] = [scan[s] EXCEPT !.runner = "probing", !.found = n]
        BY <1>0, <3>3, QuietRecord
      <4> QED
        BY <3>1, <4>1, ZenonT(40) DEF ScanTypes
    <3>5. CASE Scan!Probe(s)
      <4>1. scan'[s].pc = scan[s].pc
        BY <1>0, <3>1, <3>5 DEF Scan!Probe, ScanTypeInv, ScanTypes
      <4> QED
        BY <4>1
    <3>6. CASE Scan!Send(s)
      <4>1. scan'[s].pc = scan[s].pc
        BY <1>0, <3>1, <3>6 DEF Scan!Send, ScanTypeInv, ScanTypes
      <4> QED
        BY <4>1
    <3>7. CASE Scan!Receive(s)
      <4>1. scan'[s] = [scan[s] EXCEPT !.shown = scan[s].shown + 1]
        BY <1>0, <3>7, QuietRecord
      <4> QED
        BY <3>1, <4>1, SMTT(30) DEF ScanTypes
    <3>8. CASE Scan!RunnerJoined(s)
      <4>1. scan'[s] = [scan[s] EXCEPT !.pc = "consumer", !.cancelled = scan[s].stop]
        BY <1>0, <3>8, QuietRecord
      <4> QED
        BY <3>1, <4>1, SMTT(30) DEF ScanTypes
    <3>4. CASE Flushing(s) \/ Scan!Finish(s)
      BY <1>0, <3>4, FlushFields, FinishEffect
    <3> QED
      BY <1>4, <3>2, <3>3, <3>4, <3>5, <3>6, <3>7, <3>8
  <2> QED
    BY <1>0, <1>4, <2>1 DEF Scan!Busy
<1>5. ASSUME NEW s \in Scans, Scan!Clear(s)
      PROVE  Scan!Busy(scanSlot)' \/ (scan[scanSlot].pc = "broken")'
  <2>1. scanSlot' = scanSlot /\ scanSlot \in Scans /\ scan[scanSlot].id # scan[s].id
    BY <1>0, <1>5 DEF Scan!Clear, ScanTypeInv
  <2>2. scan'[scanSlot] = scan[scanSlot]
    BY <1>0, <1>5, <2>1, ScanOthers DEF Quiet
  <2> QED
    BY <1>0, <2>1, <2>2 DEF Scan!Busy
<1> QED
  <2>1. ASSUME NEW i \in Scan!ids, Scan!Delete(i)
        PROVE  UNCHANGED <<scanSlot, scan>>
    BY <2>1, DeleteEffect
  <2>2. ASSUME NEW s \in Scans, Quiet(s), ~Scan!Stop(s), ~Scan!Clear(s)
        PROVE  UNCHANGED scanSlot
    BY <2>2 DEF Quiet, Scan!StopReturn, Scan!Discover, Scan!Probe, Scan!Send,
       Scan!Receive, Scan!RunnerJoined
  <2>3. ASSUME NEW s \in Scans, Quiet(s) \/ Flushing(s) \/ Scan!Finish(s)
        PROVE  Scan!Stop(s) \/ Scan!Clear(s) \/ UNCHANGED scanSlot
    BY <1>0, <2>2, <2>3, FlushEffect, FinishEffect
  <2>4. ASSUME NEW s \in Scans, Quiet(s) \/ Flushing(s) \/ Scan!Finish(s)
        PROVE  Scan!Busy(scanSlot)' \/ (scan[scanSlot].pc = "broken")'
    <3>1. CASE Scan!Stop(s)
      BY <3>1 DEF Scan!Stop
    <3> QED
      BY <1>3, <1>4, <1>5, <2>3, <2>4, <3>1 DEF Quiet
  <2> QED
    BY <1>1, <1>2, <2>1, <2>4, ScanSteps DEF Scan!vars

LEMMA ScanSlotInit ==
    ASSUME Batch \in Nat, Capacity \in Nat
    PROVE  Scan!Init => ScanSlotInv
<1> SUFFICES ASSUME Scan!Init
             PROVE  ScanSlotInv
  OBVIOUS
<1>1. Scan!ids = {}
  BY DEF Scan!Init, Scan!ids
<1>2. scanRows \in [Scan!ids -> ScanRowTypes] /\ ScanRowsBounded
  BY <1>1 DEF Scan!Init, ScanRowsBounded
<1>3. ScanTypeInv
  BY <1>1, <1>2 DEF Scan!Init, Scan!Idle, ScanTypeInv, ScanTypes, ScanLabels
<1>4. \A s \in Scans : Course(s)
  <2>1. ASSUME NEW s \in Scans
        PROVE  /\ scan[s].pc = "idle" /\ scan[s].id = 0 /\ scan[s].runner = "discover"
               /\ scan[s].consumer = "live" /\ scan[s].cancelled = FALSE
               /\ scan[s].found = 0 /\ scan[s].sent = 0 /\ scan[s].shown = 0
               /\ scan[s].settled = 0
    BY DEF Scan!Init, Scan!Idle
  <2>2. 0 <= 0 /\ 0 <= 0 + Batch /\ 0 <= 0 + Capacity
    OBVIOUS
  <2>3. ASSUME NEW s \in Scans
        PROVE  ScanCountOf(s) /\ OrderOf(s) /\ VerdictOf(s)
    <3>1. ScanCountOf(s)
      <4>1. scan[s].runner # "sending"
        BY <2>1
      <4> QED
        BY <2>1, <2>2, <4>1, Zenon DEF ScanCountOf
    <3>2. OrderOf(s) /\ VerdictOf(s)
      BY <2>1 DEF OrderOf, VerdictOf
    <3> QED
      BY <3>1, <3>2
  <2> QED
    BY <2>3 DEF Course
<1> QED
  BY <1>3, <1>4 DEF Scan!Init, ScanSlotInv, ScanSlotHeld, Course

LEMMA ScanSlotInvariance ==
    ASSUME NoScan \notin Scans, Batch \in Nat, Capacity \in Nat
    PROVE  Scan!Init /\ [][Scan!Next]_(Scan!vars) => []ScanSlotInv
<1>1. ScanSlotInv /\ [Scan!Next]_(Scan!vars) => ScanSlotInv'
  BY ScanTypeNext, CourseNext, ScanSlotNext DEF ScanSlotInv, Course
<1> QED
  BY <1>1, ScanSlotInit, PTL

\* Types; the channel never holds more than its capacity and the batch never
\* grows past its size; no host is stored under a row that does not exist.
THEOREM ScanTypeOKHolds ==
    ASSUME NoScan \notin Scans, Batch \in Nat, Capacity \in Nat
    PROVE  Scan!Init /\ [][Scan!Next]_(Scan!vars) => []Scan!TypeOK
<1>1. ScanSlotInv => Scan!TypeOK
  <2> SUFFICES ASSUME ScanSlotInv
               PROVE  Scan!TypeOK
    OBVIOUS
  <2>1. ASSUME NEW s \in Scans
        PROVE  /\ scan[s].pc \in ScanLabels
               /\ scan[s].sent - scan[s].shown \in 0..Capacity
               /\ scan[s].shown - scan[s].settled \in 0..Batch
               /\ scan[s].sent <= scan[s].found
    <3>1. /\ scan[s].pc \in ScanLabels /\ scan[s].sent \in Nat /\ scan[s].shown \in Nat
          /\ scan[s].settled \in Nat
      BY DEF ScanSlotInv, ScanTypeInv, ScanTypes
    <3> QED
      BY <3>1 DEF ScanSlotInv, ScanCountOf
  <2> QED
    BY <2>1 DEF ScanSlotInv, ScanTypeInv, Scan!TypeOK, ScanLabels
<1> QED
  BY <1>1, ScanSlotInvariance, PTL

\* The slot holds a live scan, or one whose row could not be closed, and never
\* one that ended - for any number of scans that overlap because stop() waits
\* without the lock, and whatever is deleted meanwhile.
THEOREM ScanSlotNotEndedHolds ==
    ASSUME NoScan \notin Scans, Batch \in Nat, Capacity \in Nat
    PROVE  Scan!Init /\ [][Scan!Next]_(Scan!vars) => []Scan!SlotNotEnded
<1>1. ScanSlotInv => Scan!SlotNotEnded
  BY DEF ScanSlotInv, ScanSlotHeld, Scan!SlotNotEnded, Scan!Busy
<1> QED
  BY <1>1, ScanSlotInvariance, PTL

-----------------------------------------------------------------------------
(* Who owns which row, and what its hosts are.                             *)

\* Two scans that are going have different ids.
LEMMA ScanDistinctIds ==
    ASSUME ScanInv, NEW s \in Scans, NEW q \in Scans, Scan!Busy(s), Scan!Busy(q), scan[s].id = scan[q].id
    PROVE  s = q
  BY DEF ScanInv, ScanOwnRow

\* The owner of a row has an id, so it is not waiting to start.
LEMMA ScanOwnerStarted ==
    ASSUME ScanInv, NEW i \in Scan!ids
    PROVE  /\ scanRows[i].owner \in Scans /\ scan[scanRows[i].owner].id = i
           /\ scan[scanRows[i].owner].pc # "idle"
<1>1. i # 0 /\ scanRows[i] \in ScanRowTypes
  BY DEF ScanInv, ScanSlotInv, ScanTypeInv
<1>2. scanRows[i].owner \in Scans /\ scan[scanRows[i].owner].id = i
  BY <1>1 DEF ScanInv, ScanOwnedRow, ScanRowTypes
<1> QED
  BY <1>1, <1>2 DEF ScanInv, ScanSlotInv, OrderOf

\* A scan that has no id yet has found and settled nothing.
LEMMA FreshScan ==
    ASSUME ScanInv, NEW s \in Scans, Scan!Start(s)
    PROVE  /\ scan[s].pc = "idle" /\ scan[s].id = 0 /\ scan[s].settled = 0
           /\ scan[s].shown = 0
<1>1. scan[s].pc = "idle"
  BY DEF Scan!Start
<1>2. scan[s].id = 0 /\ scan[s].found = 0
  BY <1>1 DEF ScanInv, ScanSlotInv, OrderOf, ScanCountOf
<1>3. /\ scan[s].settled \in Nat /\ scan[s].shown \in Nat /\ scan[s].sent \in Nat
  BY DEF ScanInv, ScanSlotInv, ScanTypeInv, ScanTypes
<1>4. /\ scan[s].settled <= scan[s].shown /\ scan[s].shown <= scan[s].sent
      /\ scan[s].sent <= scan[s].found
  BY DEF ScanInv, ScanSlotInv, ScanCountOf
<1> QED
  BY <1>1, <1>2, <1>3, <1>4

\* Rows keep their owners and scans their rows.
LEMMA ScanRowNext ==
    ASSUME NoScan \notin Scans, DeleteBusy = FALSE
    PROVE  ScanInv /\ [Scan!Next]_(Scan!vars) =>
             /\ \A s \in Scans : ScanOwnRow(s)'
             /\ (\A i \in Scan!ids : ScanOwnedRow(i))'
<1> SUFFICES ASSUME ScanInv, [Scan!Next]_(Scan!vars)
             PROVE  /\ \A s \in Scans : ScanOwnRow(s)'
                    /\ \A i \in Scan!ids' : ScanOwnedRow(i)'
  OBVIOUS
<1>0. /\ ScanTypeInv
      /\ \A s \in Scans : ScanOwnRow(s)
      /\ \A i \in Scan!ids : ScanOwnedRow(i)
  BY DEF ScanInv, ScanSlotInv
<1> USE DEF ScanOwnRow, ScanOwnedRow, Verdict
<1>1. CASE UNCHANGED Scan!vars
  BY <1>0, <1>1 DEF Scan!vars, Scan!ids, Scan!Busy
<1>2. ASSUME NEW s \in Scans, Scan!Start(s)
      PROVE  /\ \A q \in Scans : ScanOwnRow(q)'
             /\ \A i \in Scan!ids' : ScanOwnedRow(i)'
  <2>1. \A q \in Scans \ {s} : scan'[q] = scan[q]
    BY <1>0, <1>2, ScanOthers
  <2>2. \A i \in Scan!ids : scanRows[i].owner # s /\ scanRows[i].owner \in Scans
    <3>1. scan[s].pc = "idle"
      BY <1>2 DEF Scan!Start
    <3> QED
      BY <3>1, ScanOwnerStarted
  <2>3. CASE scan'[s].pc \in {"refused", "failed"} /\ UNCHANGED scanRows
    <3>1. Scan!ids' = Scan!ids /\ ~Scan!Busy(s)'
      BY <2>3 DEF Scan!ids, Scan!Busy
    <3> QED
      BY <1>0, <2>1, <2>2, <2>3, <3>1 DEF Scan!Busy
  <2>4. CASE /\ scan'[s].pc = "runner" /\ scan'[s].id = Scan!NextId
             /\ Scan!ids' = Scan!ids \cup {Scan!NextId} /\ Scan!NextId \notin Scan!ids
             /\ scanRows'[Scan!NextId] = [owner |-> s, status |-> "running"]
             /\ \A i \in Scan!ids : scanRows'[i] = scanRows[i]
    <3>1. \A q \in Scans : ScanOwnRow(q)'
      BY <1>0, <2>1, <2>4 DEF Scan!Busy
    <3>2. \A i \in Scan!ids : ScanOwnedRow(i)'
      BY <1>0, <2>1, <2>2, <2>4
    <3>3. ASSUME NEW j, j = Scan!NextId
          PROVE  ScanOwnedRow(j)'
      <4>1. scanRows'[j].owner = s /\ scanRows'[j].status = "running"
        BY <2>4, <3>3
      <4> QED
        BY <2>4, <3>3, <4>1
    <3> QED
      BY <2>4, <3>1, <3>2, <3>3
  <2> QED
    BY <1>0, <1>2, <2>3, <2>4, ScanStartEffect
<1>3. ASSUME NEW s \in Scans, Quiet(s) \/ Flushing(s)
      PROVE  /\ \A q \in Scans : ScanOwnRow(q)'
             /\ \A i \in Scan!ids' : ScanOwnedRow(i)'
  <2>1. \A q \in Scans \ {s} : scan'[q] = scan[q]
    BY <1>0, <1>3, ScanOthers
  <2>2. /\ UNCHANGED scanRows /\ Scan!ids' = Scan!ids /\ scan'[s].id = scan[s].id
        /\ scan'[s].pc \in {"clear", "ended"} <=> scan[s].pc \in {"clear", "ended"}
        /\ scan'[s].pc \in {"clear", "ended"} => scan'[s].cancelled = scan[s].cancelled
        /\ Scan!Busy(s)' => Scan!Busy(s)
    <3>1. CASE Quiet(s)
      BY <1>0, <3>1, QuietEffect
    <3>2. CASE Flushing(s)
      BY <1>0, <3>2, FlushEffect, FlushFields DEF Scan!Busy
    <3> QED
      BY <1>3, <3>1, <3>2
  <2>3. \A q \in Scans : ScanOwnRow(q)'
    BY <1>0, <2>1, <2>2 DEF Scan!Busy
  <2>4. ASSUME NEW i \in Scan!ids
        PROVE  ScanOwnedRow(i)'
    <3>1. scanRows[i].owner \in Scans
      BY ScanOwnerStarted
    <3>2. CASE scanRows[i].owner = s
      BY <1>0, <2>2, <3>2
    <3>3. CASE scanRows[i].owner # s
      BY <1>0, <2>1, <2>2, <3>1, <3>3
    <3> QED
      BY <3>2, <3>3
  <2> QED
    BY <2>2, <2>3, <2>4
<1>4. ASSUME NEW s \in Scans, Scan!Finish(s)
      PROVE  /\ \A q \in Scans : ScanOwnRow(q)'
             /\ \A i \in Scan!ids' : ScanOwnedRow(i)'
  <2>1. \A q \in Scans \ {s} : scan'[q] = scan[q]
    BY <1>0, <1>4, ScanOthers
  <2>2. /\ Scan!Busy(s) /\ scan'[s].id = scan[s].id /\ Scan!ids' = Scan!ids
        /\ scan'[s].cancelled = scan[s].cancelled
        /\ scan[s].pc \notin {"clear", "ended"}
        /\ scan'[s].pc \in {"clear", "broken"}
    BY <1>0, <1>4, FinishEffect DEF Scan!Busy
  <2>3. \A i \in Scan!ids : scanRows'[i].owner = scanRows[i].owner
    BY <1>0, <1>4, FinishEffect
  <2>4. \A i \in Scan!ids : i # scan[s].id => scanRows'[i] = scanRows[i]
    BY <1>0, <1>4, FinishEffect
  <2>5. \/ scan'[s].pc = "clear" /\ scanRows'[scan[s].id].status = Verdict(s)
        \/ scan'[s].pc = "broken" /\ UNCHANGED scanRows
    BY <1>0, <1>4, <2>2, FinishEffect
  <2>6. \A q \in Scans : ScanOwnRow(q)'
    BY <1>0, <2>1, <2>2, <2>3 DEF Scan!Busy
  <2>7. ASSUME NEW i \in Scan!ids
        PROVE  ScanOwnedRow(i)'
    <3>1. scanRows[i].owner \in Scans /\ (scanRows[i].owner = s <=> i = scan[s].id)
      BY <1>0, <2>2, ScanOwnerStarted
    <3>2. CASE i = scan[s].id
      BY <1>0, <2>2, <2>3, <2>5, <3>1, <3>2
    <3>3. CASE i # scan[s].id
      BY <1>0, <2>1, <2>4, <3>1, <3>3
    <3> QED
      BY <3>2, <3>3
  <2> QED
    BY <2>2, <2>6, <2>7
<1>5. ASSUME NEW i \in Scan!ids, Scan!Delete(i)
      PROVE  /\ \A q \in Scans : ScanOwnRow(q)'
             /\ \A j \in Scan!ids' : ScanOwnedRow(j)'
  <2>1. /\ Scan!ids' = Scan!ids \ {i} /\ scanRows' = [j \in Scan!ids \ {i} |-> scanRows[j]] /\ UNCHANGED scan
        /\ \A q \in Scans : Scan!Busy(q) => scan[q].id # i
    BY <1>5, DeleteEffect
  <2> QED
    BY <1>0, <2>1 DEF Scan!Busy
<1> QED
  BY <1>1, <1>2, <1>3, <1>4, <1>5, ScanSteps

\* Steps other than flushes and Delete leave the hosts, and what every scan has
\* settled, as they are.
LEMMA StillHosts ==
    ASSUME ScanInv, NEW s \in Scans, Scan!Start(s) \/ Quiet(s) \/ Scan!Finish(s)
    PROVE  /\ UNCHANGED hosts
           /\ \A q \in Scans : scan'[q].settled = scan[q].settled
           /\ \A i \in Scan!ids : i \in Scan!ids' /\ scanRows'[i].owner = scanRows[i].owner
           /\ \A i \in Scan!ids' \ Scan!ids : scanRows'[i].owner = s /\ scan[s].settled = 0
           /\ scanDbErrors' \in {scanDbErrors, scanDbErrors + 1}
<1>0. ScanTypeInv
  BY DEF ScanInv, ScanSlotInv
<1>1. \A q \in Scans \ {s} : scan'[q] = scan[q]
  BY <1>0, ScanOthers
<1>2. CASE Scan!Start(s)
  <2>1. scan[s].settled = 0
    BY <1>2, FreshScan
  <2>2. /\ UNCHANGED hosts /\ scan'[s].settled = scan[s].settled
        /\ scanDbErrors' \in {scanDbErrors, scanDbErrors + 1}
        /\ \/ UNCHANGED scanRows
           \/ /\ Scan!ids' = Scan!ids \cup {Scan!NextId}
              /\ scanRows'[Scan!NextId] = [owner |-> s, status |-> "running"]
              /\ \A i \in Scan!ids : scanRows'[i] = scanRows[i]
    BY <1>0, <1>2, ScanStartEffect
  <2>3. CASE UNCHANGED scanRows
    BY <1>1, <2>1, <2>2, <2>3 DEF Scan!ids
  <2> QED
    BY <1>1, <2>1, <2>2, <2>3
<1>3. CASE Quiet(s)
  <2>1. /\ UNCHANGED <<scanRows, hosts, scanDbErrors>> /\ Scan!ids' = Scan!ids
        /\ scan'[s].settled = scan[s].settled
    BY <1>0, <1>3, QuietEffect
  <2> QED
    BY <1>1, <2>1
<1>4. CASE Scan!Finish(s)
  <2>1. /\ UNCHANGED hosts /\ scan'[s].settled = scan[s].settled /\ Scan!ids' = Scan!ids
        /\ \A i \in Scan!ids : scanRows'[i].owner = scanRows[i].owner
        /\ scanDbErrors' \in {scanDbErrors, scanDbErrors + 1}
    BY <1>0, <1>4, FinishEffect
  <2> QED
    BY <1>1, <2>1
<1> QED
  BY <1>2, <1>3, <1>4

\* A flush of a scan that is going finds its row, and what it stores are the
\* hosts that were shown and not yet settled.
LEMMA FlushStores ==
    ASSUME ScanInv, NEW s \in Scans, Flushing(s)
    PROVE  /\ scan[s].id \in Scan!ids /\ scanRows[scan[s].id].owner = s /\ Scan!Busy(s)
           /\ scan[s].settled \in Nat /\ scan[s].shown \in Nat
           /\ scan[s].settled <= scan[s].shown
           /\ 1..scan[s].shown = 1..scan[s].settled \cup (scan[s].settled + 1)..scan[s].shown
           /\ UNCHANGED scanRows /\ Scan!ids' = Scan!ids
           /\ scan'[s].settled = scan[s].shown
           /\ \/ hosts' = hosts \cup Scan!BatchRows(s) /\ UNCHANGED scanDbErrors
              \/ /\ scan[s].shown > scan[s].settled
                 /\ UNCHANGED hosts /\ scanDbErrors' = scanDbErrors + 1
<1>0. ScanTypeInv
  BY DEF ScanInv, ScanSlotInv
<1>1. Scan!Busy(s)
  BY <1>0, FlushEffect DEF Scan!Consuming, Scan!Busy
<1>2. scan[s].id \in Scan!ids /\ scanRows[scan[s].id].owner = s
  BY <1>1 DEF ScanInv, ScanOwnRow
<1>3. /\ scan[s].settled \in Nat /\ scan[s].shown \in Nat /\ scan[s].settled <= scan[s].shown
  BY DEF ScanInv, ScanSlotInv, ScanTypeInv, ScanTypes, ScanCountOf
<1>4. 1..scan[s].shown = 1..scan[s].settled \cup (scan[s].settled + 1)..scan[s].shown
  BY <1>3
<1>5. \/ hosts' = hosts \cup Scan!BatchRows(s) /\ UNCHANGED scanDbErrors
      \/ /\ scan[s].shown > scan[s].settled
         /\ UNCHANGED hosts /\ scanDbErrors' = scanDbErrors + 1
  BY <1>0, <1>2, FlushEffect
<1>6. UNCHANGED scanRows /\ Scan!ids' = Scan!ids /\ scan'[s].settled = scan[s].shown
  BY <1>0, FlushEffect, FlushFields
<1> QED
  BY <1>1, <1>2, <1>3, <1>4, <1>5, <1>6

\* No host is filed under another scan's row, none before it is settled, and
\* with a database that works none is missing.
LEMMA HostNext ==
    ASSUME NoScan \notin Scans, DeleteBusy = FALSE
    PROVE  ScanInv /\ [Scan!Next]_(Scan!vars) =>
             /\ (\A h \in hosts : OwnHost(h))'
             /\ (scanDbErrors = 0 => \A i \in Scan!ids : ScanAllStored(i))'
<1> SUFFICES ASSUME ScanInv, [Scan!Next]_(Scan!vars)
             PROVE  /\ \A h \in hosts' : OwnHost(h)'
                    /\ scanDbErrors' = 0 => \A i \in Scan!ids' : ScanAllStored(i)'
  OBVIOUS
<1>0. /\ \A h \in hosts : OwnHost(h)
      /\ scanDbErrors = 0 => \A i \in Scan!ids : ScanAllStored(i)
      /\ \A i \in Scan!ids : scanRows[i].owner \in Scans
      /\ \A q \in Scans : scan[q].settled \in Nat
      /\ scanDbErrors \in Nat
  BY ScanOwnerStarted DEF ScanInv, ScanSlotInv, ScanTypeInv, ScanTypes
<1>1. CASE UNCHANGED Scan!vars
  BY <1>0, <1>1 DEF Scan!vars, Scan!ids, OwnHost, ScanAllStored
<1>2. ASSUME NEW s \in Scans, Scan!Start(s) \/ Quiet(s) \/ Scan!Finish(s)
      PROVE  /\ \A h \in hosts' : OwnHost(h)'
             /\ scanDbErrors' = 0 => \A i \in Scan!ids' : ScanAllStored(i)'
  <2>1. /\ UNCHANGED hosts
        /\ \A q \in Scans : scan'[q].settled = scan[q].settled
        /\ \A i \in Scan!ids : i \in Scan!ids' /\ scanRows'[i].owner = scanRows[i].owner
        /\ \A i \in Scan!ids' \ Scan!ids : scanRows'[i].owner = s /\ scan[s].settled = 0
        /\ scanDbErrors' \in {scanDbErrors, scanDbErrors + 1}
    BY <1>2, StillHosts
  <2>2. \A h \in hosts : OwnHost(h)'
    BY <1>0, <2>1 DEF OwnHost
  <2>3. ASSUME scanDbErrors' = 0, NEW i \in Scan!ids'
        PROVE  ScanAllStored(i)'
    <3>1. scanDbErrors = 0
      BY <1>0, <2>1, <2>3
    <3>2. CASE i \in Scan!ids
      BY <1>0, <2>1, <3>1, <3>2 DEF ScanAllStored
    <3>3. CASE i \notin Scan!ids
      <4>1. (1..scan[scanRows[i].owner].settled)' = {}
        BY <2>1, <3>3
      <4> QED
        BY <4>1 DEF ScanAllStored
    <3> QED
      BY <3>2, <3>3
  <2> QED
    BY <2>1, <2>2, <2>3
<1>3. ASSUME NEW s \in Scans, Flushing(s)
      PROVE  /\ \A h \in hosts' : OwnHost(h)'
             /\ scanDbErrors' = 0 => \A i \in Scan!ids' : ScanAllStored(i)'
  <2>1. /\ scan[s].id \in Scan!ids /\ scanRows[scan[s].id].owner = s
        /\ scan[s].settled \in Nat /\ scan[s].shown \in Nat
        /\ scan[s].settled <= scan[s].shown
        /\ 1..scan[s].shown = 1..scan[s].settled \cup (scan[s].settled + 1)..scan[s].shown
        /\ UNCHANGED scanRows /\ Scan!ids' = Scan!ids
        /\ scan'[s].settled = scan[s].shown
        /\ \/ hosts' = hosts \cup Scan!BatchRows(s) /\ UNCHANGED scanDbErrors
           \/ UNCHANGED hosts /\ scanDbErrors' = scanDbErrors + 1
    BY <1>3, FlushStores
  <2>2. \A q \in Scans \ {s} : scan'[q] = scan[q]
    BY <1>3, ScanOthers DEF ScanInv, ScanSlotInv
  <2>3. \A h \in hosts : OwnHost(h)'
    BY <1>0, <2>1, <2>2 DEF OwnHost
  <2>4. ASSUME NEW h \in Scan!BatchRows(s)
        PROVE  OwnHost(h)'
    <3>1. /\ h.id = scan[s].id /\ h.owner = s
          /\ h.host \in (scan[s].settled + 1)..scan[s].shown
      BY DEF Scan!BatchRows
    <3>2. h.host \in 1..scan[s].shown
      BY <2>1, <3>1
    <3> QED
      BY <2>1, <3>1, <3>2 DEF OwnHost
  <2>5. ASSUME scanDbErrors' = 0, NEW i \in Scan!ids
        PROVE  ScanAllStored(i)'
    <3>1. hosts' = hosts \cup Scan!BatchRows(s) /\ scanDbErrors = 0
      BY <1>0, <2>1, <2>5
    <3>2. ScanAllStored(i) /\ scanRows[i].owner \in Scans
      BY <1>0, <3>1
    <3>3. CASE scanRows[i].owner # s
      BY <2>1, <2>2, <3>1, <3>2, <3>3 DEF ScanAllStored
    <3>4. CASE scanRows[i].owner = s
      <4>1. scan[s].id = i
        BY <3>4 DEF ScanInv, ScanOwnedRow
      <4>2. ASSUME NEW k \in (scan[s].settled + 1)..scan[s].shown
            PROVE  k \in {h.host : h \in {x \in hosts' : x.id = i}}
        <5> DEFINE new == [id |-> scan[s].id, owner |-> s, host |-> k]
        <5>1. new \in Scan!BatchRows(s)
          BY DEF Scan!BatchRows
        <5>2. new \in {x \in hosts' : x.id = i} /\ new.host = k
          BY <3>1, <4>1, <5>1
        <5> QED
          BY <5>2
      <4>3. \A k \in 1..scan[s].settled : k \in {h.host : h \in {x \in hosts' : x.id = i}}
        BY <3>1, <3>2, <3>4 DEF ScanAllStored
      <4>4. \A k \in 1..scan[s].shown : k \in {h.host : h \in {x \in hosts' : x.id = i}}
        BY <2>1, <4>2, <4>3
      <4> QED
        BY <2>1, <3>4, <4>4 DEF ScanAllStored
    <3> QED
      BY <3>3, <3>4
  <2> QED
    BY <2>1, <2>3, <2>4, <2>5
<1>4. ASSUME NEW i \in Scan!ids, Scan!Delete(i)
      PROVE  /\ \A h \in hosts' : OwnHost(h)'
             /\ scanDbErrors' = 0 => \A j \in Scan!ids' : ScanAllStored(j)'
  <2>1. /\ scanRows' = [j \in Scan!ids \ {i} |-> scanRows[j]] /\ Scan!ids' = Scan!ids \ {i}
        /\ hosts' = {h \in hosts : h.id # i} /\ UNCHANGED <<scan, scanDbErrors>>
    BY <1>4, DeleteEffect
  <2>2. \A h \in hosts' : OwnHost(h)'
    BY <1>0, <2>1 DEF OwnHost
  <2>3. ASSUME scanDbErrors' = 0, NEW j \in Scan!ids'
        PROVE  ScanAllStored(j)'
    <3>1. {x \in hosts' : x.id = j} = {x \in hosts : x.id = j}
      BY <2>1
    <3> QED
      BY <1>0, <2>1, <2>3, <3>1 DEF ScanAllStored
  <2> QED
    BY <2>2, <2>3
<1> QED
  BY <1>1, <1>2, <1>3, <1>4, ScanSteps

\* A start() fills the slot only when it is empty, and clear_active empties it
\* only if it holds the scan that ends: its id is nobody else's.
LEMMA ScanStoppableNext ==
    ASSUME NoScan \notin Scans
    PROVE  ScanInv /\ [Scan!Next]_(Scan!vars) => Scan!Stoppable'
<1> SUFFICES ASSUME ScanInv, [Scan!Next]_(Scan!vars), NEW q \in Scans, Scan!Busy(q)'
             PROVE  scanSlot' = q \/ scan'[q].stop
  BY DEF Scan!Stoppable
<1>0. /\ ScanTypeInv
      /\ \A s \in Scans : Scan!Busy(s) => scanSlot = s \/ scan[s].stop
  BY DEF ScanInv, ScanSlotInv, Scan!Stoppable
<1>1. CASE UNCHANGED Scan!vars
  BY <1>0, <1>1 DEF Scan!vars, Scan!Busy
<1>2. ASSUME NEW s \in Scans, Scan!Start(s)
      PROVE  scanSlot' = q \/ scan'[q].stop
  <2>1. CASE q = s
    BY <1>0, <1>2, <2>1, ScanStartEffect DEF Scan!Busy
  <2>2. CASE q # s
    <3>1. scan'[q] = scan[q]
      BY <1>0, <1>2, <2>2, ScanOthers
    <3>2. scanSlot = NoScan \/ UNCHANGED scanSlot
      BY <1>0, <1>2, ScanStartEffect
    <3> QED
      BY <1>0, <3>1, <3>2 DEF Scan!Busy
  <2> QED
    BY <2>1, <2>2
<1>3. ASSUME NEW s \in Scans, Quiet(s) \/ Flushing(s) \/ Scan!Finish(s)
      PROVE  scanSlot' = q \/ scan'[q].stop
  <2>1. Scan!Busy(q) /\ (scan[q].stop => scan'[q].stop)
    <3>1. CASE q # s
      <4>1. scan'[q] = scan[q]
        BY <1>0, <1>3, <3>1, ScanOthers
      <4> QED
        BY <4>1 DEF Scan!Busy
    <3>2. CASE q = s /\ Scan!Finish(s)
      BY <1>0, <3>2, FinishEffect DEF Scan!Busy
    <3>3. CASE q = s /\ Flushing(s)
      BY <1>0, <3>3, FlushFields DEF Scan!Busy
    <3>4. CASE q = s /\ Quiet(s)
      BY <1>0, <3>4, QuietEffect
    <3> QED
      BY <1>3, <3>1, <3>2, <3>3, <3>4
  <2>2. CASE Scan!Stop(s)
    <3>1. scanSlot = s /\ (q = s => scan'[q].stop)
      BY <1>0, <2>2 DEF Scan!Stop, ScanTypeInv, ScanTypes
    <3> QED
      BY <1>0, <2>1, <3>1
  <2>3. CASE Scan!Clear(s)
    <3>1. CASE q = s
      <4>1. scan'[s].pc = "ended"
        BY <1>0, <2>3 DEF Scan!Clear, ScanTypeInv, ScanTypes
      <4> QED
        BY <3>1, <4>1 DEF Scan!Busy
    <3>2. CASE q # s
      <4>1. Scan!Busy(s)
        BY <2>3 DEF Scan!Clear, Scan!Busy
      <4>2. scan[q].id # scan[s].id
        BY <2>1, <3>2, <4>1, ScanDistinctIds
      <4>3. scanSlot = q => scanSlot' = scanSlot
        BY <2>3, <4>2 DEF Scan!Clear
      <4> QED
        BY <1>0, <2>1, <4>3
    <3> QED
      BY <3>1, <3>2
  <2>4. CASE UNCHANGED scanSlot
    BY <1>0, <2>1, <2>4
  <2>5. Scan!Stop(s) \/ Scan!Clear(s) \/ UNCHANGED scanSlot
    <3>1. Quiet(s) => Scan!Stop(s) \/ Scan!Clear(s) \/ UNCHANGED scanSlot
      BY DEF Quiet, Scan!StopReturn, Scan!Discover, Scan!Probe, Scan!Send, Scan!Receive,
         Scan!RunnerJoined
    <3> QED
      BY <1>0, <1>3, <3>1, FlushEffect, FinishEffect
  <2> QED
    BY <2>2, <2>3, <2>4, <2>5
<1>4. ASSUME NEW i \in Scan!ids, Scan!Delete(i)
      PROVE  scanSlot' = q \/ scan'[q].stop
  BY <1>0, <1>4, DeleteEffect DEF Scan!Busy
<1> QED
  BY <1>1, <1>2, <1>3, <1>4, ScanSteps

LEMMA ScanInvariance ==
    ASSUME NoScan \notin Scans, Batch \in Nat, Capacity \in Nat, DeleteBusy = FALSE
    PROVE  Scan!Init /\ [][Scan!Next]_(Scan!vars) => []ScanInv
<1>1. Scan!Init => ScanInv
  <2> SUFFICES ASSUME Scan!Init
               PROVE  ScanInv
    OBVIOUS
  <2>1. Scan!ids = {} /\ hosts = {} /\ \A s \in Scans : scan[s].pc = "idle"
    BY DEF Scan!Init, Scan!Idle, Scan!ids
  <2> QED
    BY <2>1, ScanSlotInit DEF ScanInv, ScanOwnRow, Scan!Stoppable, Scan!Busy
<1>2. ScanInv /\ [Scan!Next]_(Scan!vars) => ScanInv'
  <2> SUFFICES ASSUME ScanInv, [Scan!Next]_(Scan!vars)
               PROVE  ScanInv'
    OBVIOUS
  <2>1. ScanSlotInv'
    BY ScanTypeNext, CourseNext, ScanSlotNext DEF ScanInv, ScanSlotInv, Course
  <2> QED
    BY <2>1, ScanRowNext, HostNext, ScanStoppableNext DEF ScanInv
<1> QED
  BY <1>1, <1>2, PTL

\* A scan that is alive can be stopped, or has been told to stop: no second
\* start() and no other scan's clear_active takes its slot away.
THEOREM ScanStoppableHolds ==
    ASSUME NoScan \notin Scans, Batch \in Nat, Capacity \in Nat, DeleteBusy = FALSE
    PROVE  Scan!Init /\ [][Scan!Next]_(Scan!vars) => []Scan!Stoppable
<1>1. ScanInv => Scan!Stoppable
  BY DEF ScanInv
<1> QED
  BY <1>1, ScanInvariance, PTL

\* What the history says of a scan is true: "cancelled" was asked for, and
\* "completed" means that every discovered host was sent, or that discovery
\* failed - although the flag is read after the runner and before the consumer.
THEOREM VerdictTrueHolds ==
    ASSUME NoScan \notin Scans, Batch \in Nat, Capacity \in Nat, DeleteBusy = FALSE
    PROVE  Scan!Init /\ [][Scan!Next]_(Scan!vars) => []Scan!VerdictTrue
<1>1. ScanInv => Scan!VerdictTrue
  <2> SUFFICES ASSUME ScanInv, NEW i \in Scan!ids
               PROVE  LET s == scanRows[i].owner IN
                        /\ scanRows[i].status = "cancelled" => scan[s].stop
                        /\ scanRows[i].status = "completed" =>
                             scan[s].sent = scan[s].found \/ scan[s].runner = "failed"
    BY DEF Scan!VerdictTrue
  <2> DEFINE s == scanRows[i].owner
  <2>1. /\ s \in Scans
        /\ scanRows[i].status = IF scan[s].pc \in {"clear", "ended"} THEN Verdict(s) ELSE "running"
    BY ScanOwnerStarted DEF ScanInv, ScanOwnedRow
  <2>2. VerdictOf(s)
    BY <2>1 DEF ScanInv, ScanSlotInv
  <2> HIDE DEF s
  <2>3. /\ scanRows[i].status = "cancelled" => scan[s].stop
        /\ scanRows[i].status = "completed" =>
             scan[s].sent = scan[s].found \/ scan[s].runner = "failed"
    BY <2>1, <2>2 DEF VerdictOf, Verdict
  <2> QED
    BY <2>3 DEF s
<1> QED
  BY <1>1, ScanInvariance, PTL

\* With a database that works, a closed scan lists exactly the hosts its view
\* was shown: the row is closed only when the consumer has flushed the rest.
THEOREM HostsCompleteHolds ==
    ASSUME NoScan \notin Scans, Batch \in Nat, Capacity \in Nat, DeleteBusy = FALSE
    PROVE  Scan!Init /\ [][Scan!Next]_(Scan!vars) => []Scan!HostsComplete
<1>1. ScanInv => Scan!HostsComplete
  <2> SUFFICES ASSUME ScanInv, NEW i \in Scan!ids, scanRows[i].status # "running", scanDbErrors = 0
               PROVE  {h.host : h \in {x \in hosts : x.id = i}} = 1..scan[scanRows[i].owner].shown
    BY DEF Scan!HostsComplete
  <2> DEFINE s == scanRows[i].owner
  <2>1. s \in Scans /\ scan[s].pc \in {"clear", "ended"}
    BY ScanOwnerStarted DEF ScanInv, ScanOwnedRow
  <2>2. scan[s].settled = scan[s].shown
    <3>1. /\ scan[s].settled = scan[s].sent
          /\ scan[s].settled <= scan[s].shown /\ scan[s].shown <= scan[s].sent
      BY <2>1 DEF ScanInv, ScanSlotInv, OrderOf, ScanCountOf
    <3>2. scan[s].settled \in Nat /\ scan[s].shown \in Nat
      BY <2>1 DEF ScanInv, ScanSlotInv, ScanTypeInv, ScanTypes
    <3> QED
      BY <3>1, <3>2
  <2>3. \A h \in hosts : h.id = i => h.host \in 1..scan[s].settled
    BY DEF ScanInv, OwnHost
  <2>4. 1..scan[s].settled \subseteq {h.host : h \in {x \in hosts : x.id = i}}
    BY DEF ScanInv, ScanAllStored
  <2> QED
    BY <2>2, <2>3, <2>4
<1> QED
  BY <1>1, ScanInvariance, PTL

-----------------------------------------------------------------------------
(* A scan is a session of SessionLog.                                      *)

\* The log's variables, scan by scan (the substitution of Log).
ScanProduced(s) == Scan!Counted(s, scan[s].shown)
ScanSettled(s) == Scan!Counted(s, scan[s].settled)
ScanStored(s) == {h.host : h \in {x \in hosts : x.owner = s}}

\* What the log sees of a scan.
ScanSeen(s) == <<Scan!LogStatus(s), ScanProduced(s), ScanSettled(s), ScanStored(s)>>

\* If the log sees nothing change in any scan, its variables stay.
LEMMA ScanUnseen ==
    ASSUME \A q \in Scans : ScanSeen(q)' = ScanSeen(q)
    PROVE  UNCHANGED Scan!Log!logVars
<1>1. \A q \in Scans : Scan!LogStatus(q)' = Scan!LogStatus(q) /\ ScanProduced(q)' = ScanProduced(q)
                      /\ ScanSettled(q)' = ScanSettled(q) /\ ScanStored(q)' = ScanStored(q)
  BY DEF ScanSeen
<1>2. [q \in Scans |-> Scan!LogStatus(q)]' = [q \in Scans |-> Scan!LogStatus(q)]
  BY <1>1
<1>3. [q \in Scans |-> ScanProduced(q)]' = [q \in Scans |-> ScanProduced(q)]
  BY <1>1
<1>4. [q \in Scans |-> ScanSettled(q)]' = [q \in Scans |-> ScanSettled(q)]
  BY <1>1
<1>5. [q \in Scans |-> ScanStored(q)]' = [q \in Scans |-> ScanStored(q)]
  BY <1>1
<1> QED
  BY <1>2, <1>3, <1>4, <1>5 DEF Scan!Log!logVars, ScanProduced, ScanSettled, ScanStored

\* A step that the log sees in one scan only.
LEMMA ScanSeenIn ==
    ASSUME NEW s \in Scans, \A q \in Scans \ {s} : ScanSeen(q)' = ScanSeen(q)
    PROVE  /\ Scan!LogStatus(s)' = Scan!LogStatus(s) =>
                [q \in Scans |-> Scan!LogStatus(q)]' = [q \in Scans |-> Scan!LogStatus(q)]
           /\ ScanProduced(s)' = ScanProduced(s) =>
                [q \in Scans |-> ScanProduced(q)]' = [q \in Scans |-> ScanProduced(q)]
           /\ ScanSettled(s)' = ScanSettled(s) =>
                [q \in Scans |-> ScanSettled(q)]' = [q \in Scans |-> ScanSettled(q)]
           /\ ScanStored(s)' = ScanStored(s) =>
                [q \in Scans |-> ScanStored(q)]' = [q \in Scans |-> ScanStored(q)]
           /\ \A v : Scan!LogStatus(s)' = v =>
                [q \in Scans |-> Scan!LogStatus(q)]' = [[q \in Scans |-> Scan!LogStatus(q)] EXCEPT ![s] = v]
           /\ \A v : ScanProduced(s)' = v =>
                [q \in Scans |-> ScanProduced(q)]' = [[q \in Scans |-> ScanProduced(q)] EXCEPT ![s] = v]
           /\ \A v : ScanSettled(s)' = v =>
                [q \in Scans |-> ScanSettled(q)]' = [[q \in Scans |-> ScanSettled(q)] EXCEPT ![s] = v]
           /\ \A v : ScanStored(s)' = v =>
                [q \in Scans |-> ScanStored(q)]' = [[q \in Scans |-> ScanStored(q)] EXCEPT ![s] = v]
<1>1. \A q \in Scans \ {s} : Scan!LogStatus(q)' = Scan!LogStatus(q) /\ ScanProduced(q)' = ScanProduced(q)
                            /\ ScanSettled(q)' = ScanSettled(q) /\ ScanStored(q)' = ScanStored(q)
  BY DEF ScanSeen
<1> QED
  BY <1>1

\* Other scans look the same after a step of this one.
LEMMA ScanOthersSeen ==
    ASSUME ScanInv, NEW s \in Scans, NEW q \in Scans \ {s},
           Scan!Start(s) \/ Quiet(s) \/ Flushing(s) \/ Scan!Finish(s)
    PROVE  ScanSeen(q)' = ScanSeen(q)
<1>1. scan'[q] = scan[q]
  BY ScanOthers DEF ScanInv, ScanSlotInv
<1>2. ScanStored(q)' = ScanStored(q)
  <2>1. CASE Flushing(s)
    <3>1. hosts' = hosts \cup Scan!BatchRows(s) \/ UNCHANGED hosts
      BY <2>1, FlushStores
    <3>2. \A h \in Scan!BatchRows(s) : h.owner # q
      BY DEF Scan!BatchRows
    <3> QED
      BY <3>1, <3>2 DEF ScanStored
  <2>2. CASE ~Flushing(s)
    <3>1. UNCHANGED hosts
      BY <2>2, StillHosts
    <3> QED
      BY <3>1 DEF ScanStored
  <2> QED
    BY <2>1, <2>2
<1> QED
  BY <1>1, <1>2 DEF ScanSeen, Scan!LogStatus, ScanProduced, ScanSettled, Scan!Counted

\* The log's view of a scan that is going.
LEMMA OpenScan ==
    ASSUME ScanInv, NEW s \in Scans, scan[s].pc \in {"runner", "consumer"}
    PROVE  /\ Scan!LogStatus(s) = "open" /\ ScanProduced(s) = scan[s].shown
           /\ ScanSettled(s) = scan[s].settled /\ scan[s].id # 0
<1>1. scan[s].id # 0
  BY DEF ScanInv, ScanSlotInv, OrderOf
<1> QED
  BY <1>1 DEF Scan!LogStatus, ScanProduced, ScanSettled, Scan!Counted

\* A new row opens a session; a start() that is refused or fails shows nothing.
LEMMA ScanStartLog ==
    ASSUME ScanInv, NEW s \in Scans, Scan!Start(s)
    PROVE  Scan!Log!Open(s) \/ UNCHANGED Scan!Log!logVars
<1>0. ScanTypeInv
  BY DEF ScanInv, ScanSlotInv
<1>1. \A q \in Scans \ {s} : ScanSeen(q)' = ScanSeen(q)
  BY ScanOthersSeen
<1>2. /\ scan[s].pc = "idle" /\ scan[s].id = 0 /\ UNCHANGED hosts
      /\ scan'[s].shown = scan[s].shown /\ scan'[s].settled = scan[s].settled
      /\ \/ scan'[s].pc \in {"refused", "failed"} /\ scan'[s].id = 0
         \/ scan'[s].pc = "runner" /\ scan'[s].id = Scan!NextId
  BY <1>0, ScanStartEffect, FreshScan, ZenonT(40)
<1>3. /\ Scan!LogStatus(s) = "new" /\ ScanProduced(s)' = ScanProduced(s) /\ ScanSettled(s)' = ScanSettled(s)
      /\ ScanStored(s)' = ScanStored(s)
  BY <1>2 DEF Scan!LogStatus, ScanProduced, ScanSettled, ScanStored, Scan!Counted
<1>4. CASE scan'[s].pc \in {"refused", "failed"} /\ scan'[s].id = 0
  <2>1. Scan!LogStatus(s)' = "new"
    BY <1>4 DEF Scan!LogStatus
  <2> QED
    BY <1>1, <1>3, <2>1, ScanUnseen DEF ScanSeen
<1>5. CASE scan'[s].pc = "runner" /\ scan'[s].id = Scan!NextId
  <2>1. Scan!LogStatus(s)' = "open"
    BY <1>0, <1>5, ScanNextIdProps DEF Scan!LogStatus
  <2> QED
    BY <1>1, <1>3, <2>1, ScanSeenIn DEF Scan!Log!Open, ScanProduced, ScanSettled,
       ScanStored
<1> QED
  BY <1>2, <1>4, <1>5

\* A host that is shown is produced.
LEMMA ReceiveLog ==
    ASSUME ScanInv, NEW s \in Scans, Scan!Receive(s)
    PROVE  Scan!Log!Produce(s)
<1>1. \A q \in Scans \ {s} : ScanSeen(q)' = ScanSeen(q)
  BY ScanOthersSeen DEF Quiet
<1>2. /\ scan[s].pc \in {"runner", "consumer"} /\ UNCHANGED hosts
      /\ scan'[s] = [scan[s] EXCEPT !.shown = scan[s].shown + 1]
  BY QuietRecord DEF Scan!Receive, Scan!Consuming, ScanInv, ScanSlotInv
<1>3. /\ scan'[s].pc = scan[s].pc /\ scan'[s].shown = scan[s].shown + 1
      /\ scan'[s].settled = scan[s].settled /\ scan'[s].id = scan[s].id
  BY <1>2 DEF ScanInv, ScanSlotInv, ScanTypeInv, ScanTypes
<1>4. /\ Scan!LogStatus(s) = "open" /\ Scan!LogStatus(s)' = Scan!LogStatus(s)
      /\ ScanProduced(s)' = ScanProduced(s) + 1
      /\ ScanSettled(s)' = ScanSettled(s) /\ ScanStored(s)' = ScanStored(s)
  BY <1>2, <1>3, OpenScan DEF Scan!LogStatus, ScanProduced, ScanSettled, ScanStored,
     Scan!Counted
<1> QED
  BY <1>1, <1>4, ScanSeenIn DEF Scan!Log!Produce, ScanProduced, ScanSettled, ScanStored

\* A flush settles the hosts that were shown and not yet settled, as a whole.
LEMMA FlushLog ==
    ASSUME ScanInv, NEW s \in Scans, Flushing(s)
    PROVE  Scan!Log!Settle(s) \/ UNCHANGED Scan!Log!logVars
<1>0. ScanTypeInv
  BY DEF ScanInv, ScanSlotInv
<1>1. \A q \in Scans \ {s} : ScanSeen(q)' = ScanSeen(q)
  BY ScanOthersSeen
<1>2. /\ scan[s].pc \in {"runner", "consumer"}
      /\ scan[s].settled \in Nat /\ scan[s].shown \in Nat /\ scan[s].settled <= scan[s].shown
      /\ scan'[s].settled = scan[s].shown /\ scan'[s].shown = scan[s].shown
      /\ scan'[s].pc = scan[s].pc /\ scan'[s].id = scan[s].id
      /\ hosts' = hosts \cup Scan!BatchRows(s) \/ UNCHANGED hosts
  BY <1>0, FlushStores, FlushFields, FlushEffect DEF Scan!Consuming
<1>3. /\ Scan!LogStatus(s) = "open" /\ ScanProduced(s) = scan[s].shown /\ ScanSettled(s) = scan[s].settled
  BY <1>2, OpenScan
<1>4. /\ Scan!LogStatus(s)' = Scan!LogStatus(s) /\ ScanProduced(s)' = ScanProduced(s)
      /\ ScanSettled(s)' = scan[s].shown
  BY <1>2 DEF Scan!LogStatus, ScanProduced, ScanSettled, Scan!Counted
<1>5. \/ ScanStored(s)' = ScanStored(s) \cup (ScanSettled(s) + 1)..scan[s].shown
      \/ ScanStored(s)' = ScanStored(s)
  <2>1. CASE UNCHANGED hosts
    BY <2>1 DEF ScanStored
  <2>2. CASE hosts' = hosts \cup Scan!BatchRows(s)
    <3>1. {x \in hosts' : x.owner = s} = {x \in hosts : x.owner = s} \cup Scan!BatchRows(s)
      BY <2>2 DEF Scan!BatchRows
    <3>2. {h.host : h \in Scan!BatchRows(s)} = (scan[s].settled + 1)..scan[s].shown
      <4>1. \A h \in Scan!BatchRows(s) : h.host \in (scan[s].settled + 1)..scan[s].shown
        BY DEF Scan!BatchRows
      <4>2. ASSUME NEW k \in (scan[s].settled + 1)..scan[s].shown
            PROVE  \E h \in Scan!BatchRows(s) : h.host = k
        <5> DEFINE new == [id |-> scan[s].id, owner |-> s, host |-> k]
        <5>1. new \in Scan!BatchRows(s) /\ new.host = k
          BY DEF Scan!BatchRows
        <5> QED
          BY <5>1
      <4> QED
        BY <4>1, <4>2
    <3>3. {h.host : h \in {x \in hosts' : x.owner = s}}
            = {h.host : h \in {x \in hosts : x.owner = s}} \cup {h.host : h \in Scan!BatchRows(s)}
      BY <3>1
    <3> QED
      BY <1>3, <3>2, <3>3 DEF ScanStored
  <2> QED
    BY <1>2, <2>1, <2>2
<1>6. CASE scan[s].settled = scan[s].shown
  <2>1. (ScanSettled(s) + 1)..scan[s].shown = {}
    BY <1>2, <1>3, <1>6
  <2>2. ScanStored(s)' = ScanStored(s)
    BY <1>5, <2>1
  <2>3. ScanSettled(s)' = ScanSettled(s)
    BY <1>3, <1>4, <1>6
  <2> QED
    BY <1>1, <1>4, <2>2, <2>3, ScanUnseen DEF ScanSeen
<1>7. CASE scan[s].settled # scan[s].shown
  <2>1. scan[s].shown \in (ScanSettled(s) + 1)..ScanProduced(s)
    BY <1>2, <1>3, <1>7
  <2>2. /\ [q \in Scans |-> Scan!LogStatus(q)]' = [q \in Scans |-> Scan!LogStatus(q)]
        /\ [q \in Scans |-> ScanProduced(q)]' = [q \in Scans |-> ScanProduced(q)]
        /\ [q \in Scans |-> ScanSettled(q)]'
             = [[q \in Scans |-> ScanSettled(q)] EXCEPT ![s] = scan[s].shown]
    BY <1>1, <1>4, ScanSeenIn
  <2>3. \/ [q \in Scans |-> ScanStored(q)]' = [q \in Scans |-> ScanStored(q)]
        \/ [q \in Scans |-> ScanStored(q)]'
             = [[q \in Scans |-> ScanStored(q)] EXCEPT
                  ![s] = @ \cup (ScanSettled(s) + 1)..scan[s].shown]
    BY <1>1, <1>5, ScanSeenIn
  <2> QED
    BY <1>3, <2>1, <2>2, <2>3 DEF Scan!Log!Settle, ScanProduced, ScanSettled, ScanStored
<1> QED
  BY <1>6, <1>7

\* A row is closed when nothing is unsettled; if it cannot be, the scan is lost.
LEMMA FinishLog ==
    ASSUME ScanInv, NEW s \in Scans, Scan!Finish(s)
    PROVE  Scan!Log!Close(s) \/ Scan!Log!Break(s)
<1>0. ScanTypeInv
  BY DEF ScanInv, ScanSlotInv
<1>1. \A q \in Scans \ {s} : ScanSeen(q)' = ScanSeen(q)
  BY ScanOthersSeen
<1>2. /\ scan[s].pc = "consumer" /\ scan[s].consumer = "done"
      /\ scan'[s].pc \in {"clear", "broken"} /\ scan'[s].id = scan[s].id
      /\ scan'[s].shown = scan[s].shown /\ scan'[s].settled = scan[s].settled
      /\ UNCHANGED hosts
  BY <1>0, FinishEffect
<1>3. scan[s].shown = scan[s].settled
  <2>1. /\ scan[s].settled = scan[s].sent
        /\ scan[s].settled <= scan[s].shown /\ scan[s].shown <= scan[s].sent
    BY <1>2 DEF ScanInv, ScanSlotInv, OrderOf, ScanCountOf
  <2>2. scan[s].settled \in Nat /\ scan[s].shown \in Nat
    BY DEF ScanInv, ScanSlotInv, ScanTypeInv, ScanTypes
  <2> QED
    BY <2>1, <2>2
<1>4. /\ Scan!LogStatus(s) = "open" /\ ScanSettled(s) = ScanProduced(s) /\ ScanStored(s)' = ScanStored(s)
      /\ scan[s].id # 0
  BY <1>2, <1>3, OpenScan DEF ScanStored
<1>5. CASE scan'[s].pc = "clear"
  <2>1. /\ Scan!LogStatus(s)' = "closed" /\ ScanProduced(s)' = ScanProduced(s) /\ ScanSettled(s)' = ScanSettled(s)
    BY <1>2, <1>4, <1>5 DEF Scan!LogStatus, ScanProduced, ScanSettled, Scan!Counted
  <2> QED
    BY <1>1, <1>4, <2>1, ScanSeenIn DEF Scan!Log!Close, ScanProduced, ScanSettled,
       ScanStored
<1>6. CASE scan'[s].pc = "broken"
  <2>1. /\ Scan!LogStatus(s)' = "lost" /\ ScanProduced(s)' = 0 /\ ScanSettled(s)' = 0
    BY <1>2, <1>4, <1>6 DEF Scan!LogStatus, ScanProduced, ScanSettled, Scan!Counted
  <2> QED
    BY <1>1, <1>4, <2>1, ScanSeenIn DEF Scan!Log!Break, ScanProduced, ScanSettled,
       ScanStored
<1> QED
  BY <1>2, <1>5, <1>6

\* The rest is the scan's own business.
LEMMA ScanQuietLog ==
    ASSUME ScanInv, NEW s \in Scans, Quiet(s), ~Scan!Receive(s)
    PROVE  UNCHANGED Scan!Log!logVars
<1>1. \A q \in Scans \ {s} : ScanSeen(q)' = ScanSeen(q)
  BY ScanOthersSeen
<1>2. /\ scan'[s].id = scan[s].id /\ scan'[s].shown = scan[s].shown
      /\ scan'[s].settled = scan[s].settled /\ UNCHANGED hosts
      /\ scan'[s].pc = "broken" <=> scan[s].pc = "broken"
      /\ scan'[s].pc \in {"clear", "ended"} <=> scan[s].pc \in {"clear", "ended"}
  BY QuietEffect DEF ScanInv, ScanSlotInv
<1>3. ScanSeen(s)' = ScanSeen(s)
  BY <1>2 DEF ScanSeen, Scan!LogStatus, ScanProduced, ScanSettled, ScanStored,
     Scan!Counted
<1> QED
  BY <1>1, <1>3, ScanUnseen

\* Deleting a row forgets the scan it belongs to, and no other.
LEMMA ScanDeleteLog ==
    ASSUME DeleteBusy = FALSE, ScanInv, NEW i \in Scan!ids, Scan!Delete(i)
    PROVE  \E s \in Scans : Scan!Log!Forget(s)
<1>1. /\ UNCHANGED scan /\ hosts' = {h \in hosts : h.id # i}
      /\ \A q \in Scans : Scan!Busy(q) => scan[q].id # i
  BY DeleteEffect
<1>2. PICK s \in Scans : s = scanRows[i].owner
  BY ScanOwnerStarted
<1>3. scan[s].id = i /\ ~Scan!Busy(s) /\ scan[s].id # 0
  BY <1>1, <1>2, ScanOwnerStarted DEF ScanInv, ScanSlotInv, ScanTypeInv
<1>4. \A h \in hosts : h.id = i <=> h.owner = s
  <2>1. \A h \in hosts : h.id \in Scan!ids /\ h.owner = scanRows[h.id].owner
    BY DEF ScanInv, OwnHost
  <2>2. \A j \in Scan!ids : scan[scanRows[j].owner].id = j
    BY ScanOwnerStarted
  <2> QED
    BY <1>2, <1>3, <2>1, <2>2
<1>5. ScanStored(s)' = {} /\ \A q \in Scans \ {s} : ScanStored(q)' = ScanStored(q)
  BY <1>1, <1>4 DEF ScanStored
<1>6. \A q \in Scans : /\ Scan!LogStatus(q)' = Scan!LogStatus(q) /\ ScanProduced(q)' = ScanProduced(q)
                       /\ ScanSettled(q)' = ScanSettled(q)
  BY <1>1 DEF Scan!LogStatus, ScanProduced, ScanSettled, Scan!Counted
<1>7. Scan!LogStatus(s) \in {"closed", "lost"}
  <2>1. scan[s].pc \in {"broken", "ended"}
    BY <1>3 DEF Scan!Busy, ScanInv, ScanSlotInv, OrderOf, ScanTypeInv, ScanTypes,
       ScanLabels
  <2> QED
    BY <1>3, <2>1 DEF Scan!LogStatus
<1>8. \A q \in Scans \ {s} : ScanSeen(q)' = ScanSeen(q)
  BY <1>5, <1>6 DEF ScanSeen
<1>9. Scan!Log!Forget(s)
  BY <1>5, <1>6, <1>7, <1>8, ScanSeenIn DEF Scan!Log!Forget, ScanProduced, ScanSettled,
     ScanStored
<1> QED
  BY <1>9

\* Scans, with stop(), failing saves and deletions, keep the promises of
\* SessionLog for any sizes of batch and channel: batches are saved whole and in
\* order, a scan is closed only when no host is unsettled, and a closed scan
\* never gains a host.
THEOREM ScanImplementsLogHolds ==
    ASSUME NoScan \notin Scans, Batch \in Nat, Capacity \in Nat, DeleteBusy = FALSE
    PROVE  Scan!Init /\ [][Scan!Next]_(Scan!vars) => Scan!ImplementsLog
<1>1. Scan!Init => Scan!Log!LogInit
  <2> SUFFICES ASSUME Scan!Init
               PROVE  Scan!Log!LogInit
    OBVIOUS
  <2>1. \A q \in Scans : Scan!LogStatus(q) = "new" /\ ScanProduced(q) = 0 /\ ScanSettled(q) = 0
                         /\ ScanStored(q) = {}
    BY DEF Scan!Init, Scan!Idle, Scan!LogStatus, ScanProduced, ScanSettled, ScanStored,
       Scan!Counted
  <2> QED
    BY <2>1 DEF Scan!Log!LogInit, ScanProduced, ScanSettled, ScanStored
<1>2. ScanInv /\ [Scan!Next]_(Scan!vars) => [Scan!Log!LogNext]_(Scan!Log!logVars)
  <2> SUFFICES ASSUME ScanInv, [Scan!Next]_(Scan!vars)
               PROVE  Scan!Log!LogNext \/ UNCHANGED Scan!Log!logVars
    OBVIOUS
  <2>1. CASE UNCHANGED Scan!vars
    <3>1. \A q \in Scans : ScanSeen(q)' = ScanSeen(q)
      BY <2>1 DEF Scan!vars, ScanSeen, Scan!LogStatus, ScanProduced, ScanSettled,
         ScanStored, Scan!Counted
    <3> QED
      BY <3>1, ScanUnseen
  <2>2. ASSUME NEW s \in Scans, Scan!Start(s) \/ Quiet(s) \/ Flushing(s) \/ Scan!Finish(s)
        PROVE  Scan!Log!LogNext \/ UNCHANGED Scan!Log!logVars
    BY <2>2, ScanStartLog, ReceiveLog, FlushLog, FinishLog, ScanQuietLog
       DEF Scan!Log!LogNext
  <2>3. ASSUME NEW i \in Scan!ids, Scan!Delete(i)
        PROVE  Scan!Log!LogNext
    BY <2>3, ScanDeleteLog DEF Scan!Log!LogNext
  <2> QED
    BY <2>1, <2>2, <2>3, ScanSteps
<1> QED
  BY <1>1, <1>2, ScanInvariance, PTL DEF Scan!ImplementsLog, Scan!Log!LogSpec
=============================================================================
