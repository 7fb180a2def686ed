----------------------------- MODULE SessionLog -----------------------------
(***************************************************************************)
(* What the ping session layer, and likewise MTU runs and LAN scans,       *)
(* promise about their history: a log per session.  Probes are produced in *)
(* order and settled in order, some number at a time: such a group is      *)
(* saved as a whole or given up as a whole.  A session is closed only when *)
(* nothing is unsettled, and a closed or lost session never gains a probe. *)
(***************************************************************************)
EXTENDS Integers

CONSTANT Runs

VARIABLES
    status,   \* per session: "new", "open", "closed" or "lost"
    produced, \* per open session: probes produced
    settled,  \* per open session: probes 1..settled are saved or given up
    saved     \* per session: the probes in the history

logVars == <<status, produced, settled, saved>>

LogInit ==
    /\ status = [r \in Runs |-> "new"]
    /\ produced = [r \in Runs |-> 0]
    /\ settled = [r \in Runs |-> 0]
    /\ saved = [r \in Runs |-> {}]

Open(r) ==
    /\ status[r] = "new"
    /\ status' = [status EXCEPT ![r] = "open"]
    /\ UNCHANGED <<produced, settled, saved>>

Produce(r) ==
    /\ status[r] = "open"
    /\ produced' = [produced EXCEPT ![r] = @ + 1]
    /\ UNCHANGED <<status, settled, saved>>

\* The next group of probes reaches the history, or none of it does.
Settle(r) ==
    /\ status[r] = "open"
    /\ \E n \in (settled[r] + 1)..produced[r] :
         /\ settled' = [settled EXCEPT ![r] = n]
         /\ \/ saved' = [saved EXCEPT ![r] = @ \cup (settled[r] + 1)..n]
            \/ UNCHANGED saved
    /\ UNCHANGED <<status, produced>>

Close(r) ==
    /\ status[r] = "open"
    /\ settled[r] = produced[r]
    /\ status' = [status EXCEPT ![r] = "closed"]
    /\ UNCHANGED <<produced, settled, saved>>

\* The process ends: open sessions keep what was saved, and nothing more.
Lose ==
    LET open == {r \in Runs : status[r] = "open"} IN
    /\ status' = [r \in Runs |-> IF r \in open THEN "lost" ELSE status[r]]
    /\ produced' = [r \in Runs |-> IF r \in open THEN 0 ELSE produced[r]]
    /\ settled' = [r \in Runs |-> IF r \in open THEN 0 ELSE settled[r]]
    /\ UNCHANGED saved

\* The row of one session could not be closed.
Break(r) ==
    /\ status[r] = "open"
    /\ status' = [status EXCEPT ![r] = "lost"]
    /\ produced' = [produced EXCEPT ![r] = 0]
    /\ settled' = [settled EXCEPT ![r] = 0]
    /\ UNCHANGED saved

\* The user deletes a session that is over.
Forget(r) ==
    /\ status[r] \in {"closed", "lost"}
    /\ saved' = [saved EXCEPT ![r] = {}]
    /\ UNCHANGED <<status, produced, settled>>

LogNext ==
    \/ \E r \in Runs :
         Open(r) \/ Produce(r) \/ Settle(r) \/ Close(r) \/ Break(r)
         \/ Forget(r)
    \/ Lose

LogSpec == LogInit /\ [][LogNext]_logVars
=============================================================================
