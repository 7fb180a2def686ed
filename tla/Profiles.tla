------------------------------- MODULE Profiles -------------------------------
(* The profiles of routers and firewalls, their secrets in the keyring of the  *)
(* operating system and the rows that refer to them                            *)
(* (src-tauri/src/mikrotik/manager.rs, opnsense/manager.rs, secrets.rs and the *)
(* profile, session and backup tables of db.rs).  A profile is a row, its      *)
(* secret an entry under a random key that the row carries; commands read the  *)
(* row first and go to the keyring afterwards, and several may be under way.   *)
(*                                                                             *)
(* Abstractions: the secret key of the n-th profile ever made is n, where the  *)
(* program draws 16 random bytes; a secret is the number of the profile it was *)
(* entered for; of the other columns one (host) that an update changes.        *)
(* Session tables and the registry of activity are those of MikrotikSessions   *)
(* and OpnsenseSessions: here a profile is busy or not (active).               *)
EXTENDS Naturals, FiniteSets

CONSTANTS
    Calls,        \* commands that may be under way together
    MaxProfiles,  \* bound on the profiles made in a behaviour
    MaxRows,      \* bound on the sessions and backups made
    MaxFaults,    \* bound on the keyring calls that fail
    EditBusy      \* may a profile be deleted while another command has read it?

VARIABLES
    profiles,  \* id -> [tag, key, host]
    keyring,   \* key -> tag of the profile the secret was entered for
    sessions,  \* rows of mikrotik_sessions: [no, profile, tag]
    backups,   \* rows of mikrotik_backups: [no, profile or 0, tag]
    active,    \* ids of profiles that a live session uses
    call,      \* [pc, op, id, profile, answer, secret]
    made, rowsMade, faults

vars == <<profiles, keyring, sessions, backups, active, call, made, rowsMade, faults>>

Empty == [x \in {} |-> x]
NoProfile == [tag |-> 0, key |-> 0, host |-> 0]
Idle == [pc |-> "idle", op |-> "none", id |-> 0, profile |-> NoProfile, answer |-> "none",
         secret |-> 0]
Ids == 1..MaxProfiles

\* The table with an entry, new or changed, and without one.
With(table, k, entry) ==
    [j \in DOMAIN table \cup {k} |-> IF j = k THEN entry ELSE table[j]]
Without(table, k) == [j \in DOMAIN table \ {k} |-> table[j]]

Init ==
    /\ profiles = Empty /\ keyring = Empty /\ sessions = {} /\ backups = {} /\ active = {}
    /\ call = [c \in Calls |-> Idle]
    /\ made = 0 /\ rowsMade = 0 /\ faults = 0

Reply(c, answer) == call' = [call EXCEPT ![c] = [Idle EXCEPT !.answer = answer]]
GoOn(c, pc) == call' = [call EXCEPT ![c].pc = pc]

\* The keyring call of c succeeds, or fails for one of its reasons.
Keyring(c, done, failed) ==
    \/ done /\ UNCHANGED faults
    \/ failed /\ faults < MaxFaults /\ faults' = faults + 1 /\ UNCHANGED keyring

-----------------------------------------------------------------------------
(* Profiles *)

NextId == 1 + (CHOOSE m \in DOMAIN profiles \cup {0} : \A i \in DOMAIN profiles : i <= m)

\* Mutant: the secret is found by the id of the row.
NewKeyById(id) == id

\* new_mikrotik_secret_key and new_opnsense_secret_key: never an id.
NewKey(id) == made + 1

\* The row that is inserted, and one that is updated: its key stays.
NewRow == [tag |-> made + 1, key |-> NewKey(NextId), host |-> 1]
Edited(profile) == [profile EXCEPT !.host = 3 - @]

CreateProfile(c) ==
    /\ call[c].pc = "idle" /\ made < MaxProfiles
    /\ made' = made + 1
    /\ profiles' = With(profiles, NextId, NewRow)
    /\ Reply(c, "ok")
    /\ UNCHANGED <<keyring, sessions, backups, active, rowsMade, faults>>

Present(i) == i \in DOMAIN profiles

\* Every other command begins with the row.
Require(c, op, i, next) ==
    /\ call[c].pc = "idle"
    /\ \A d \in Calls : call[d].id = i => EditBusy \/ "delete" \notin {op, call[d].op}
    /\ IF Present(i)
       THEN call' = [call EXCEPT ![c] = [Idle EXCEPT !.pc = next, !.op = op, !.id = i,
                                                     !.profile = profiles[i]]]
       ELSE Reply(c, "not_found")
    /\ UNCHANGED <<profiles, keyring, sessions, backups, active, made, rowsMade, faults>>

\* update_profile.
UpdateProfile(c, i) == Require(c, "update", i, "write")

WriteProfile(c) ==
    /\ call[c].pc = "write"
    /\ profiles' = IF Present(call[c].id)
                   THEN [profiles EXCEPT ![call[c].id] = Edited(@)] ELSE profiles
    /\ GoOn(c, "read_back")
    /\ UNCHANGED <<keyring, sessions, backups, active, made, rowsMade, faults>>

ReadBack(c) ==
    /\ call[c].pc = "read_back"
    /\ Reply(c, IF Present(call[c].id) THEN "ok" ELSE "not_found")
    /\ UNCHANGED <<profiles, keyring, sessions, backups, active, made, rowsMade, faults>>

\* set_profile_password and set_credentials.
SetSecret(c, i) == Require(c, "set_secret", i, "store")

StoreSecret(c) ==
    /\ call[c].pc = "store"
    /\ \/ /\ Keyring(c, keyring' = With(keyring, call[c].profile.key, call[c].profile.tag), FALSE)
          /\ Reply(c, "ok")
       \/ Keyring(c, FALSE, TRUE) /\ Reply(c, "error")
    /\ UNCHANGED <<profiles, sessions, backups, active, made, rowsMade>>

\* delete_profile: refused while in use; the row goes first, and a keyring
\* that fails is a warning.
DeleteProfile(c, i) == i \notin active /\ Require(c, "delete", i, "delete_row")

\* Sessions go with their profile, backups stay and forget it.
DeleteRow(c) ==
    LET i == call[c].id IN
    /\ call[c].pc = "delete_row"
    /\ profiles' = Without(profiles, i)
    /\ sessions' = {s \in sessions : s.profile # i}
    /\ backups' = {IF b.profile = i THEN [b EXCEPT !.profile = 0] ELSE b : b \in backups}
    /\ GoOn(c, "delete_secret")
    /\ UNCHANGED <<keyring, active, made, rowsMade, faults>>

DeleteSecret(c) ==
    LET key == call[c].profile.key IN
    /\ call[c].pc = "delete_secret"
    /\ \/ /\ Keyring(c, keyring' = Without(keyring, key), FALSE)
          /\ Reply(c, IF key \in DOMAIN keyring THEN "deleted" ELSE "warned")
       \/ Keyring(c, FALSE, TRUE) /\ Reply(c, "warned")
    /\ UNCHANGED <<profiles, sessions, backups, active, made, rowsMade>>

\* connection_for of a start, a test or a backup: the secret that is sent to
\* the host of the row that was read.
Connect(c, i) == Require(c, "connect", i, "fetch")

FetchSecret(c) ==
    LET p == call[c].profile IN
    /\ call[c].pc = "fetch"
    /\ \/ /\ Keyring(c, UNCHANGED keyring, FALSE)
          /\ IF p.key \in DOMAIN keyring
             THEN call' = [call EXCEPT ![c] = [@ EXCEPT !.pc = "connected",
                                                       !.secret = keyring[p.key]]]
             ELSE Reply(c, "not_stored")
       \/ Keyring(c, FALSE, TRUE) /\ Reply(c, "error")
    /\ UNCHANGED <<profiles, sessions, backups, active, made, rowsMade>>

\* What a connection is for: a session row, with the profile busy until it
\* ends, a backup record, or a test.  An INSERT that names a profile that is
\* gone fails.
Use(c, what) ==
    LET i == call[c].id  there == i \in DOMAIN profiles IN
    /\ call[c].pc = "connected" /\ rowsMade < MaxRows
    /\ sessions' = IF what = "session" /\ there
                   THEN sessions \cup {[no |-> rowsMade + 1, profile |-> i, tag |-> call[c].profile.tag]}
                   ELSE sessions
    /\ backups' = IF what = "backup" /\ there
                  THEN backups \cup {[no |-> rowsMade + 1, profile |-> i, tag |-> call[c].profile.tag]}
                  ELSE backups
    /\ active' = IF what = "session" /\ there THEN active \cup {i} ELSE active
    /\ rowsMade' = rowsMade + 1
    /\ Reply(c, IF there \/ what = "test" THEN "ok" ELSE "error")
    /\ UNCHANGED <<profiles, keyring, made, faults>>

EndSession(i) ==
    /\ i \in active /\ active' = active \ {i}
    /\ UNCHANGED <<profiles, keyring, sessions, backups, call, made, rowsMade, faults>>

Next ==
    \/ \E c \in Calls :
          \/ CreateProfile(c) \/ WriteProfile(c) \/ ReadBack(c) \/ StoreSecret(c)
          \/ DeleteRow(c) \/ DeleteSecret(c) \/ FetchSecret(c)
          \/ \E i \in Ids : UpdateProfile(c, i) \/ SetSecret(c, i) \/ DeleteProfile(c, i) \/ Connect(c, i)
          \/ \E what \in {"session", "backup", "test"} : Use(c, what)
    \/ \E i \in Ids : EndSession(i)

Spec == Init /\ [][Next]_vars

-----------------------------------------------------------------------------
(* Properties *)

TypeOK ==
    /\ DOMAIN profiles \subseteq Ids /\ DOMAIN keyring \subseteq Ids
    /\ \A i \in DOMAIN profiles : profiles[i].tag \in 1..made
    /\ \A s \in sessions \cup backups : s.profile \in Ids \cup {0} /\ s.tag \in 1..made
    /\ \A c \in Calls : call[c].profile.tag \in 0..made
    /\ faults \in 0..MaxFaults /\ rowsMade \in 0..MaxRows

\* "never by the SQLite rowid, which SQLite reuses after deleting the max id and
\* could attach a stale secret to a new profile" (secrets.rs:6): a connection
\* carries the secret that was entered for its own profile, whatever was
\* deleted before, with whatever failing keyring.
OwnSecret ==
    \A c \in Calls : call[c].pc = "connected" => call[c].secret = call[c].profile.tag

\* A session or a backup is never attributed to a profile that only has the id
\* of the one it was made with.  It needs ~EditBusy: a start that is still
\* connecting files its session under whoever has the id by then.
OwnRows ==
    \A row \in sessions \cup backups :
        row.profile # 0 /\ row.profile \in DOMAIN profiles =>
            profiles[row.profile].tag = row.tag

\* Backups outlive their profile; sessions do not.
BackupsStay == [][\A b \in backups : \E new \in backups' : new.no = b.no]_vars
SessionsOwned == \A s \in sessions : s.profile \in DOMAIN profiles

\* A secret without a profile is one whose deletion failed, with a warning.
NoSecretLeft ==
    Cardinality(DOMAIN keyring \ {profiles[i].key : i \in DOMAIN profiles})
        <= faults + Cardinality({c \in Calls : call[c].pc = "delete_secret"})
=============================================================================
