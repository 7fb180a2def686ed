------------------------------ MODULE TcpProber ------------------------------
(* The TCP prober of an MTU run (src-tauri/src/mtu/tcp_probe.rs): a padded    *)
(* request is written on a connection that must not fragment, and one byte is *)
(* read.  The peer answers a request with some bytes at any time, also after  *)
(* the probe that wrote it has timed out; the bytes not read stay.            *)
EXTENDS Integers

CONSTANTS
    MaxProbes,  \* bound on the probes of a run
    AnswerSize  \* bytes of an answer, at most

VARIABLES
    probe, \* pc, probes so far, attempts of this one (tries), its result
    conn   \* requests owed an answer, unread bytes, end; history: bytes sent
           \* by the peer, probes that succeeded

vars == <<probe, conn>>

None == "none"
Fresh == [owed |-> 0, unread |-> 0, eof |-> FALSE, sent |-> 0, good |-> 0]

\* connect
Init ==
    /\ probe = [pc |-> "idle", probes |-> 0, tries |-> 0, result |-> None]
    /\ conn = Fresh

Probe ==
    /\ probe.pc = "idle" /\ probe.probes < MaxProbes
    /\ probe' = [pc |-> "write", probes |-> probe.probes + 1, tries |-> 1, result |-> None]
    /\ UNCHANGED conn

Ends(result) == probe' = [probe EXCEPT !.pc = "idle", !.result = result]

\* An error of the first attempt asks for a fresh connection (reconnect); one
\* that cannot be had, or an error of the second attempt, is the result.
ErrorOnce ==
    \/ /\ probe.tries = 1
       /\ probe' = [probe EXCEPT !.pc = "write", !.tries = 2]
       /\ conn' = Fresh
    \/ Ends("error") /\ UNCHANGED conn

\* classify_write_error, classify_io_error; a request that is too big is not
\* sent.
Fails ==
    \/ \E result \in {"too big", "timeout"} : Ends(result) /\ UNCHANGED conn
    \/ ErrorOnce

\* write_all; also to a peer that has closed.
Write ==
    /\ probe.pc = "write"
    /\ \/ /\ probe' = [probe EXCEPT !.pc = "read"]
          /\ conn' = [conn EXCEPT !.owed = @ + 1]
       \/ Fails

\* read of one byte; that there is none any more is a success as well.
Read ==
    /\ probe.pc = "read"
    /\ \/ /\ conn.unread > 0
          /\ Ends("ok") /\ conn' = [conn EXCEPT !.unread = @ - 1, !.good = @ + 1]
       \/ /\ conn.unread = 0 /\ conn.eof
          /\ Ends("ok") /\ conn' = [conn EXCEPT !.good = @ + 1]
       \/ conn.unread = 0 /\ Fails

\* The peer, external: answers in order, or closes.
PeerAnswers ==
    /\ conn.owed > 0 /\ ~conn.eof
    /\ \E n \in 1..AnswerSize :
         conn' = [conn EXCEPT !.owed = @ - 1, !.unread = @ + n, !.sent = @ + n]
    /\ UNCHANGED probe

PeerCloses == ~conn.eof /\ conn' = [conn EXCEPT !.eof = TRUE] /\ UNCHANGED probe

Next == Probe \/ Write \/ Read \/ PeerAnswers \/ PeerCloses

Spec == Init /\ [][Next]_vars

-----------------------------------------------------------------------------
(* Properties *)

\* Type invariant.
TypeOK ==
    /\ probe.pc \in {"idle", "write", "read"} /\ probe.tries \in 0..2
    /\ probe.result \in {None, "ok", "too big", "timeout", "error"}
    /\ conn.unread \in Nat /\ conn.owed \in 0..MaxProbes

\* Every success has a byte of its own that the peer sent on the connection of
\* the probe, or the end of that connection: never a write alone.
ConfirmedByPeer == conn.good + conn.unread > conn.sent => conn.eof
=============================================================================
