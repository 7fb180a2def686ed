----------------------------- MODULE MtuSearch -----------------------------
(***************************************************************************)
(* The path-MTU search of src-tauri/src/mtu/search.rs: a pure controller   *)
(* that turns the outcome of one Don't-Fragment probe into the next probe  *)
(* or the final result.  It confirms reachability with a small baseline    *)
(* probe, doubles the probed MTU until a size is rejected (Bracket), then  *)
(* closes the interval between a payload believed to pass and one known    *)
(* to be rejected (Refine).                                                *)
(*                                                                         *)
(* The environment is one path with a fixed MTU: a probe that fits is      *)
(* answered, one that does not is rejected, and either can be lost or end  *)
(* in an engine error (the outcomes of mtu/engine.rs).  A second           *)
(* environment answers anything at any time: a path whose MTU moves while  *)
(* it is being measured.                                                   *)
(***************************************************************************)
EXTENDS Integers

CONSTANTS
    FloorMtu,        \* config.floor_mtu
    CeilingMtu,      \* config.ceiling_mtu, already clamped by the manager
    FirstMtu,        \* the 1500 the bracket starts at
    Overhead,        \* IPV4_ICMP_OVERHEAD
    BaselinePayload, \* config.baseline_payload
    ConfirmProbes,   \* config.confirm_probes
    Links,           \* path MTUs to consider
    Hints,           \* next-hop MTUs a rejection may carry
    Faults           \* which of "timeout", "error" the engine may return

ASSUME ConfigAssumption ==
    /\ Overhead \in Nat /\ FloorMtu \in Nat /\ FirstMtu \in Nat
    /\ CeilingMtu \in Nat /\ BaselinePayload \in Nat /\ ConfirmProbes \in Nat
    /\ Overhead < FloorMtu
    /\ FloorMtu + 1 < FirstMtu
    /\ FirstMtu <= CeilingMtu

ASSUME EnvironmentAssumption ==
    /\ Links \subseteq Nat
    /\ Hints \subseteq Nat
    /\ Faults \subseteq {"timeout", "error"}

VARIABLES
    phase,      \* "baseline", "bracket", "refine" or "done"
    attempts,   \* attempts_sent of the size being probed
    curMtu,     \* BracketState.current_mtu
    okMtu,      \* BracketState.largest_ok_mtu
    low,        \* RefineState.low_payload
    high,       \* RefineState.high_payload
    payload,    \* payload of the probe on the wire (RefineState.current_payload)
    probesSent, \* probes_sent; next_seq is always probesSent + 1
    result,     \* SearchResult.kind once phase = "done"
    link,       \* environment: the MTU of the path
    passed,     \* history: payloads that were answered
    rejected    \* history: payloads that were rejected as too big

vars == <<phase, attempts, curMtu, okMtu, low, high, payload, probesSent,
          result, link, passed, rejected>>

-----------------------------------------------------------------------------
(* Conversions between MTUs and payload sizes.                             *)

\* Mutant: the upper bound is forgotten.
ClampBelow(n, least, most) == IF n < least THEN least ELSE n

Clamp(n, least, most) == IF n < least THEN least ELSE IF n > most THEN most ELSE n

\* saturating_sub of two unsigned numbers
SubSat(a, b) == IF a < b THEN 0 ELSE a - b

FloorPayload == SubSat(FloorMtu, Overhead)
CeilingPayload == SubSat(CeilingMtu, Overhead)

MtuToPayload(mtu) ==
    Clamp(SubSat(Clamp(mtu, FloorMtu, CeilingMtu), Overhead),
          FloorPayload, CeilingPayload)

PayloadToMtu(size) == size + Overhead

\* The hint of a rejection, or no hint.
NoHint == -1
HintToPayload(hint) == MtuToPayload(Clamp(hint, FloorMtu + 1, CeilingMtu))

\* ConfirmAttempts probes of one size must be lost before Timeout is believed.
ConfirmAttempts == IF ConfirmProbes = 0 THEN 1 ELSE ConfirmProbes

\* Mutant: a hint equal to the known-bad size is accepted.
NextRefinePayloadInclusive(lo, hi, hint) ==
    IF hint # NoHint /\ lo < HintToPayload(hint) /\ HintToPayload(hint) <= hi
      THEN HintToPayload(hint)
      ELSE lo + ((hi - lo) \div 2)

\* The next payload to try between lo and hi: the hinted one if it lies
\* strictly inside, else the midpoint.
NextRefinePayload(lo, hi, hint) ==
    IF hint # NoHint /\ lo < HintToPayload(hint) /\ HintToPayload(hint) < hi
      THEN HintToPayload(hint)
      ELSE lo + ((hi - lo) \div 2)

-----------------------------------------------------------------------------
(* Outcomes (mtu/types.rs ProbeOutcome) and results (ResultKind).          *)

Ok == [type |-> "ok", hint |-> NoHint]
TooBig(hint) == [type |-> "too-big", hint |-> hint]
Fault(f) == [type |-> f, hint |-> NoHint]

Outcome == {Ok} \cup {TooBig(h) : h \in Hints \cup {NoHint}}
                \cup {Fault(f) : f \in Faults}

\* What a path of MTU link can answer to a probe of this payload.
PathOutcome(size) ==
    {Fault(f) : f \in Faults} \cup
    (IF PayloadToMtu(size) <= link
       THEN {Ok}
       ELSE {TooBig(h) : h \in Hints \cup {NoHint}})

\* tried is the size that timed out (TimeoutAbove), 0 in every other result.
NoResult == [kind |-> "none", mtu |-> 0, tried |-> 0]
Exact(mtu) == [kind |-> "exact", mtu |-> mtu, tried |-> 0]
TimeoutAbove(mtu, tried) == [kind |-> "lower-bound", mtu |-> mtu, tried |-> tried]
CeilingReached == [kind |-> "lower-bound", mtu |-> CeilingMtu, tried |-> 0]
Unreachable == [kind |-> "unreachable", mtu |-> 0, tried |-> 0]
Failed == [kind |-> "failed", mtu |-> 0, tried |-> 0]

-----------------------------------------------------------------------------
(* The controller.                                                         *)

\* SearchController::new together with initial_action: the first baseline
\* probe is on the wire.
Init ==
    /\ phase = "baseline"
    /\ attempts = 1
    /\ curMtu = 0 /\ okMtu = 0 /\ low = 0 /\ high = 0
    /\ payload = BaselinePayload
    /\ probesSent = 1
    /\ result = NoResult
    /\ link \in Links
    /\ passed = {} /\ rejected = {}

EmitProbe(size, ph, att) ==
    /\ payload' = size
    /\ probesSent' = probesSent + 1
    /\ phase' = ph
    /\ attempts' = att
    /\ UNCHANGED result

\* Mutant: the controller does not remember that it is done.
FinishForgotten(kind) ==
    /\ result' = kind
    /\ UNCHANGED <<phase, attempts, curMtu, okMtu, low, high, payload, probesSent>>

Finish(kind) ==
    /\ result' = kind
    /\ phase' = "done"
    /\ UNCHANGED <<attempts, curMtu, okMtu, low, high, payload, probesSent>>

\* Mutant: the size about to be probed is already taken as passed.
EmitBracketProbeOptimistic(mtu, largestOk) ==
    /\ curMtu' = mtu
    /\ okMtu' = mtu
    /\ EmitProbe(MtuToPayload(mtu), "bracket", 1)
    /\ UNCHANGED <<low, high>>

EmitBracketProbe(mtu, largestOk) ==
    /\ curMtu' = mtu
    /\ okMtu' = largestOk
    /\ EmitProbe(MtuToPayload(mtu), "bracket", 1)
    /\ UNCHANGED <<low, high>>

EmitRefineProbe(lo, hi, hint) ==
    /\ low' = lo
    /\ high' = hi
    /\ EmitProbe(NextRefinePayload(lo, hi, hint), "refine", 1)
    /\ UNCHANGED <<curMtu, okMtu>>

\* Mutant: the search stops one size early.
ContinueRefineEarly(lo, hi, hint) ==
    \/ hi <= lo + 2 /\ Finish(Exact(PayloadToMtu(lo)))
    \/ hi > lo + 2 /\ EmitRefineProbe(lo, hi, hint)

ContinueRefine(lo, hi, hint) ==
    \/ hi = lo + 1 /\ Finish(Exact(PayloadToMtu(lo)))
    \/ hi # lo + 1 /\ EmitRefineProbe(lo, hi, hint)

\* The same size again, until ConfirmAttempts probes of it were lost.
Retry(size) ==
    /\ attempts < ConfirmAttempts
    /\ EmitProbe(size, phase, attempts + 1)
    /\ UNCHANGED <<curMtu, okMtu, low, high>>

StepBaseline(o) ==
    /\ phase = "baseline"
    /\ \/ /\ o.type = "ok"
          /\ EmitBracketProbe(Clamp(FirstMtu, FloorMtu, CeilingMtu), FloorMtu)
       \/ o.type \in {"too-big", "error"} /\ Finish(Failed)
       \/ o.type = "timeout" /\ Retry(BaselinePayload)
       \/ o.type = "timeout" /\ attempts >= ConfirmAttempts /\ Finish(Unreachable)

StepBracket(o) ==
    /\ phase = "bracket"
    /\ \/ o.type = "ok" /\ curMtu = CeilingMtu /\ Finish(CeilingReached)
       \/ /\ o.type = "ok" /\ curMtu # CeilingMtu
          /\ EmitBracketProbe(Clamp(2 * curMtu, 0, CeilingMtu), curMtu)
       \/ /\ o.type = "too-big"
          /\ EmitRefineProbe(MtuToPayload(okMtu), MtuToPayload(curMtu), o.hint)
       \/ o.type = "timeout" /\ Retry(MtuToPayload(curMtu))
       \/ /\ o.type = "timeout" /\ attempts >= ConfirmAttempts
          /\ Finish(TimeoutAbove(okMtu, curMtu))
       \/ o.type = "error" /\ Finish(Failed)

StepRefine(o) ==
    /\ phase = "refine"
    /\ \/ o.type = "ok" /\ ContinueRefine(payload, high, NoHint)
       \/ /\ o.type = "too-big"
          /\ ContinueRefine(low, IF payload < high THEN payload ELSE high, o.hint)
       \/ o.type = "timeout" /\ Retry(payload)
       \/ /\ o.type = "timeout" /\ attempts >= ConfirmAttempts
          /\ Finish(TimeoutAbove(PayloadToMtu(low), PayloadToMtu(payload)))
       \/ o.type = "error" /\ Finish(Failed)

\* A finished controller answers every further outcome with the same result.
StepDone == phase = "done" /\ UNCHANGED vars

\* step(outcome): history records what the path said about this payload.
Step(o) ==
    /\ StepBaseline(o) \/ StepBracket(o) \/ StepRefine(o)
    /\ passed' = IF o.type = "ok" THEN passed \cup {payload} ELSE passed
    /\ rejected' = IF o.type = "too-big" THEN rejected \cup {payload} ELSE rejected
    /\ UNCHANGED link

\* A path whose MTU does not change during the run.
Next == (\E o \in PathOutcome(payload) : Step(o)) \/ StepDone

\* Every probe is answered, rejected or times out: the engine bounds each
\* probe with its own watchdog, and the runtime feeds every outcome back.
Spec == Init /\ [][Next]_vars /\ WF_vars(Next)

\* A path that may answer anything at any time.
MovingNext == (\E o \in Outcome : Step(o)) \/ StepDone

MovingSpec == Init /\ [][MovingNext]_vars

-----------------------------------------------------------------------------
(* Properties.                                                             *)

Mtus == FloorMtu..CeilingMtu
Payloads == FloorPayload..CeilingPayload

\* Type invariant.  Every probe is the baseline or lies within the configured
\* floor and ceiling, whatever the path answers.
TypeOK ==
    /\ phase \in {"baseline", "bracket", "refine", "done"}
    /\ attempts \in 1..ConfirmAttempts
    /\ curMtu \in {0} \cup Mtus
    /\ okMtu \in {0} \cup Mtus
    /\ low \in {0} \cup Payloads
    /\ high \in {0} \cup Payloads
    /\ payload \in {BaselinePayload} \cup Payloads
    /\ probesSent \in Nat
    /\ result \in [kind : {"none", "exact", "lower-bound", "unreachable", "failed"},
                   mtu : {0} \cup Mtus, tried : {0} \cup Mtus]
    /\ link \in Links
    /\ passed \subseteq {BaselinePayload} \cup Payloads
    /\ rejected \subseteq {BaselinePayload} \cup Payloads

\* While refining, the probe lies between a payload that was answered (or the
\* floor, which is assumed) and a strictly larger one that was rejected:
\* RefineState never mixes up which side an outcome belongs to.
RefineInterval ==
    phase = "refine" =>
        /\ low <= payload /\ payload < high
        /\ low \in passed \cup {FloorPayload}
        /\ high \in rejected

\* An exact result is the MTU of the path, whatever was lost and however
\* wrong the hints of the routers were (ResultKind::Exact).
ExactIsLinkMtu ==
    result.kind = "exact" /\ FloorMtu <= link => result.mtu = link

\* A lower bound is one: the path carries packets of the reported MTU, and no
\* size above it is claimed (ResultKind::LowerBound).
LowerBoundSound ==
    result.kind = "lower-bound" /\ FloorMtu <= link => result.mtu <= link

\* On a path that may change between probes the interval may become empty,
\* but never inverted: high_payload - low_payload does not underflow, and the
\* probe never leaves the interval.
IntervalOrdered ==
    phase = "refine" => low <= payload /\ payload <= high

\* On a fixed path every new size tried while refining leaves a strictly
\* smaller interval than the one before: no outcome and no hint makes the
\* search try the same interval twice (the variant of the bisection).
RefineShrinks ==
    [][phase = "refine" /\ phase' = "refine" /\ attempts' = 1
        => high' - low' < high - low]_vars

\* Every search on a fixed path ends: each probe is answered, rejected or
\* times out, and every outcome but a retried timeout shrinks the interval.
SearchTerminates == <>(phase = "done")

=============================================================================
