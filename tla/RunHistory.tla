----------------------------- MODULE RunHistory -----------------------------
(***************************************************************************)
(* What a recorded run (a trace, and likewise an MTU run or a scan)        *)
(* promises about its history: items are shown while the run is open, only *)
(* shown items are kept, the run is closed once with one verdict, and a    *)
(* closed run never changes until the user deletes it.  A run whose        *)
(* closing failed stays open in the history for ever.                      *)
(***************************************************************************)
EXTENDS Integers

CONSTANTS Runs, Verdicts

VARIABLES
    state, \* per run: "new", "open", one of Verdicts, "abandoned" or "deleted"
    shown, \* per run: items 1..shown were shown
    kept   \* per run: the items in the history

historyVars == <<state, shown, kept>>

HistoryInit ==
    /\ state = [r \in Runs |-> "new"]
    /\ shown = [r \in Runs |-> 0]
    /\ kept = [r \in Runs |-> {}]

Open(r) ==
    /\ state[r] = "new"
    /\ state' = [state EXCEPT ![r] = "open"]
    /\ UNCHANGED <<shown, kept>>

Show(r) ==
    /\ state[r] \in {"open", "deleted"}
    /\ shown' = [shown EXCEPT ![r] = @ + 1]
    /\ UNCHANGED <<state, kept>>

\* The verdict and the items that were still missing appear together.
Close(r) ==
    /\ state[r] = "open"
    /\ \E v \in Verdicts : state' = [state EXCEPT ![r] = v]
    /\ kept' = [kept EXCEPT ![r] = 1..shown[r]]
    /\ UNCHANGED shown

Abandon(r) ==
    /\ state[r] = "open"
    /\ state' = [state EXCEPT ![r] = "abandoned"]
    /\ UNCHANGED <<shown, kept>>

Delete(r) ==
    /\ state[r] # "new"
    /\ state' = [state EXCEPT ![r] = "deleted"]
    /\ kept' = [kept EXCEPT ![r] = {}]
    /\ UNCHANGED shown

HistoryNext ==
    \E r \in Runs : Open(r) \/ Show(r) \/ Close(r) \/ Abandon(r) \/ Delete(r)

HistorySpec == HistoryInit /\ [][HistoryNext]_historyVars
=============================================================================
