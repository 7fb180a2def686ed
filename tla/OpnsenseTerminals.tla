-------------------------- MODULE OpnsenseTerminals --------------------------
(***************************************************************************)
(* SSH terminals on an OPNsense firewall: OpnsenseTerminalManager of       *)
(* src-tauri/src/opnsense/terminal.rs with the host key it pins, the       *)
(* activity marks it leaves and the profile edits of opnsense/manager.rs   *)
(* that clear the pin.  One profile; its address may be edited, and a      *)
(* server may change its key.                                              *)
(***************************************************************************)
EXTENDS Integers, FiniteSets

CONSTANTS
    Terms,        \* open() calls
    Hosts,        \* addresses the profile may have
    Keys,         \* host keys
    NoKey,        \* no pin, no confirmation
    MaxTerminals, \* MAX_TERMINALS
    MaxRekeys,    \* bound on servers that change their key, and on edits
    EditBusy      \* may the profile be edited while an open is under way: the
                  \* manager takes it

VARIABLES
    active,    \* TerminalInner.active: terminals that have a slot
    starting,  \* TerminalInner.starting
    marks,     \* terminals of this profile in the OpnsenseActivity registry
    term,      \* per open() call: itself and its reader
    profile,   \* opnsense_profiles row: host and ssh_host_key
    edit,      \* update_profile: "none", or "clear" before it clears the pin
    serverKey, \* the key each server shows
    offered,   \* fingerprint of the last UnknownHostKey error the user saw
    trusted,   \* history: <<host, key>> the user confirmed
    changes    \* edits and changed keys so far

vars == <<active, starting, marks, term, profile, edit, serverKey, offered, trusted, changes>>
slots == <<active, starting, marks>>
world == <<profile, edit, serverKey, offered, trusted, changes>>

\* pc: the open() call; host, pinned: of the profile it read; confirmed: the
\* fingerprint the user confirmed; key: what the server showed; sent: a password
\* went out; up: the SSH channel lives; reader: the reader task.
Idle == [pc |-> "idle", host |-> NoKey, pinned |-> NoKey, confirmed |-> NoKey,
         key |-> NoKey, sent |-> FALSE, up |-> FALSE, reader |-> "none"]

Init ==
    /\ active = {} /\ starting = 0 /\ marks = 0
    /\ term = [t \in Terms |-> Idle]
    /\ profile = [host |-> CHOOSE h \in Hosts : TRUE, pin |-> NoKey]
    /\ edit = "none"
    /\ serverKey = CHOOSE k \in [Hosts -> Keys] : \A g, h \in Hosts : k[g] = k[h] => g = h
    /\ offered = NoKey
    /\ trusted = {}
    /\ changes = 0

Opening(t) == term[t].pc \notin {"idle", "refused", "open", "failed"}

-----------------------------------------------------------------------------
(* open()                                                                  *)

\* The reservation; the user may confirm the fingerprint last offered.
Open(t) ==
    /\ term[t].pc = "idle"
    /\ IF Cardinality(active) + starting >= MaxTerminals
       THEN term' = [term EXCEPT ![t].pc = "refused"] /\ UNCHANGED <<starting, trusted>>
       ELSE \E k \in {NoKey, offered} :
              /\ term' = [term EXCEPT ![t].pc = "connect", ![t].confirmed = k]
              /\ starting' = starting + 1
              /\ trusted' = IF k = NoKey THEN trusted
                            ELSE trusted \cup {<<profile.host, k>>}
    /\ UNCHANGED <<active, marks, profile, edit, serverKey, offered, changes>>

\* require_profile: from here on the open works with what it read.
ReadProfile(t) ==
    /\ term[t].pc = "connect"
    /\ term' = [term EXCEPT ![t].pc = "shake", ![t].host = profile.host,
                            ![t].pinned = profile.pin]
    /\ UNCHANGED <<slots, world>>

\* check_server_key: the pin decides, without one the confirmation.
Accepts(t, key) ==
    IF term[t].pinned # NoKey THEN key = term[t].pinned ELSE key = term[t].confirmed

\* The key exchange: an accepted key lets the password out.  UnknownHostKey shows
\* the fingerprint to the user, HostKeyMismatch and a dead host do not.
Shake(t) ==
    LET key == serverKey[term[t].host] IN
    /\ term[t].pc = "shake"
    /\ \/ /\ Accepts(t, key)
          /\ term' = [term EXCEPT ![t].pc = "login", ![t].key = key,
                                  ![t].sent = TRUE]
          /\ UNCHANGED offered
       \/ /\ ~Accepts(t, key)
          /\ term' = [term EXCEPT ![t].pc = "give up", ![t].key = key]
          /\ offered' = IF term[t].pinned = NoKey THEN key ELSE offered
       \/ term' = [term EXCEPT ![t].pc = "give up"] /\ UNCHANGED offered
    /\ UNCHANGED <<slots, profile, edit, serverKey, trusted, changes>>

\* authenticate_password; a first login pins the accepted key, whatever the
\* profile's address has become.
Login(t) ==
    /\ term[t].pc = "login"
    /\ \/ /\ term' = [term EXCEPT ![t].pc = "shell"]
          /\ profile' = IF term[t].pinned = NoKey THEN [profile EXCEPT !.pin = term[t].key]
                        ELSE profile
       \/ term' = [term EXCEPT ![t].pc = "give up"] /\ UNCHANGED profile
    /\ UNCHANGED <<slots, edit, serverKey, offered, trusted, changes>>

\* channel, pty and shell, then the slot.
Insert(t) ==
    /\ term[t].pc = "shell"
    /\ \/ /\ term' = [term EXCEPT ![t].pc = "mark", ![t].up = TRUE,
                                  ![t].reader = "gated"]
          /\ active' = active \cup {t}
       \/ term' = [term EXCEPT ![t].pc = "give up"] /\ UNCHANGED active
    /\ UNCHANGED <<starting, marks, world>>

\* terminal_enter, then the gate is opened.
Mark(t) ==
    /\ term[t].pc = "mark"
    /\ marks' = marks + 1
    /\ term' = [term EXCEPT ![t].pc = "release", ![t].reader = "reads"]
    /\ UNCHANGED <<active, starting, world>>

Release(t) ==
    /\ term[t].pc \in {"release", "give up"}
    /\ starting' = starting - 1
    /\ term' = [term EXCEPT ![t].pc = IF term[t].pc = "release" THEN "open" ELSE "failed"]
    /\ UNCHANGED <<active, marks, world>>

-----------------------------------------------------------------------------
(* The end of a terminal                                                   *)

\* The server ends the session.
Drop(t) ==
    /\ term[t].up
    /\ term' = [term EXCEPT ![t].up = FALSE]
    /\ UNCHANGED <<slots, world>>

\* remove(): slot and mark go together.
RemoveSlot(t) ==
    /\ active' = active \ {t}
    /\ marks' = IF t \in active /\ marks > 0 THEN marks - 1 ELSE marks

ReaderEnds(t) ==
    /\ term[t].reader = "reads" /\ ~term[t].up
    /\ term' = [term EXCEPT ![t].reader = "exited"]
    /\ RemoveSlot(t)
    /\ UNCHANGED <<starting, world>>

\* write() or resize() to a dead channel.
Write(t) ==
    /\ term[t].pc = "open" /\ t \in active /\ ~term[t].up
    /\ RemoveSlot(t)
    /\ UNCHANGED <<starting, term, world>>

Close(t) ==
    /\ term[t].pc = "open" /\ t \in active
    /\ RemoveSlot(t)
    /\ term' = [term EXCEPT ![t].up = FALSE, ![t].reader = "exited"]
    /\ UNCHANGED <<starting, world>>

-----------------------------------------------------------------------------
(* The profile and the server                                              *)

\* update_profile writes the row; if the address changed ...
EditAddress ==
    /\ edit = "none" /\ changes < MaxRekeys
    /\ EditBusy \/ \A t \in Terms : ~Opening(t)
    /\ \E h \in Hosts \ {profile.host} : profile' = [profile EXCEPT !.host = h]
    /\ edit' = "clear"
    /\ changes' = changes + 1
    /\ UNCHANGED <<slots, term, serverKey, offered, trusted>>

\* Mutant: the pin survives the edit.
ClearPinNever ==
    /\ edit = "clear"
    /\ edit' = "none"
    /\ UNCHANGED <<slots, term, profile, serverKey, offered, trusted, changes>>

\* ... the pin is cleared in a write of its own.
ClearPin ==
    /\ edit = "clear"
    /\ edit' = "none"
    /\ profile' = [profile EXCEPT !.pin = NoKey]
    /\ UNCHANGED <<slots, term, serverKey, offered, trusted, changes>>

\* forget_ssh_host_key
Forget ==
    /\ profile.pin # NoKey
    /\ EditBusy \/ \A t \in Terms : ~Opening(t)
    /\ profile' = [profile EXCEPT !.pin = NoKey]
    /\ UNCHANGED <<slots, term, edit, serverKey, offered, trusted, changes>>

\* A server is reinstalled, or is no longer the one it was.
Rekey ==
    /\ changes < MaxRekeys
    /\ changes' = changes + 1
    /\ \E h \in Hosts, k \in Keys :
         (\A g \in Hosts : serverKey[g] # k) /\ serverKey' = [serverKey EXCEPT ![h] = k]
    /\ UNCHANGED <<slots, term, profile, edit, offered, trusted>>

Step(t) ==
    \/ ReadProfile(t) \/ Shake(t) \/ Login(t) \/ Insert(t) \/ Mark(t) \/ Release(t)
    \/ ReaderEnds(t)

Next ==
    \/ \E t \in Terms : Open(t) \/ Step(t) \/ Drop(t) \/ Write(t) \/ Close(t)
    \/ EditAddress \/ ClearPin \/ Forget \/ Rekey

Spec == Init /\ [][Next]_vars

-----------------------------------------------------------------------------
(* Properties                                                              *)

TypeOK ==
    /\ active \subseteq Terms
    /\ starting = Cardinality({t \in Terms : Opening(t)})
    /\ Cardinality(active) <= MaxTerminals
    /\ profile.host \in Hosts /\ profile.pin \in Keys \cup {NoKey}

\* "a rejected/unconfirmed key never lets a password leave the app"
\* (terminal.rs:286): a password went out only to a server whose key was pinned
\* when the open began or, without a pin, was confirmed for it.
PasswordOnlyToTrusted ==
    \A t \in Terms : term[t].sent =>
        /\ term[t].pinned # NoKey => term[t].key = term[t].pinned
        /\ \E h \in Hosts : <<h, term[t].key>> \in trusted

\* The registry that refuses to delete a profile in use counts the terminals that
\* have a slot, whichever of the reader, a write and close() ends them.
MarksExact ==
    marks = Cardinality({t \in active : term[t].pc \in {"release", "open"}})

\* "A changed host/SSH port already cleared the pin in profile editing, so
\* reaching here with no pin means a verified first connect" (terminal.rs:301):
\* a pin is a key the user confirmed for this address.
PinIsOfAddress ==
    profile.pin # NoKey /\ edit = "none" => <<profile.host, profile.pin>> \in trusted
=============================================================================
