------------------------------- MODULE Backups -------------------------------
(***************************************************************************)
(* Backups of router configurations to a local directory, and their        *)
(* library: run_backup, mikrotik_backup and delete_backup_record of        *)
(* src-tauri/src/mikrotik/backup.rs, OpnsenseBackupManager::backup of      *)
(* src-tauri/src/opnsense/backup.rs.                                       *)
(*                                                                         *)
(* A MikroTik backup makes files on the router, fetches them and removes   *)
(* them again; each call is an await at which other commands run.  An      *)
(* OPNsense backup only reads the firewall and encrypts what it read.  All *)
(* go to one directory.                                                    *)
(***************************************************************************)
EXTENDS Integers, FiniteSets

CONSTANTS
    Backups,  \* mikrotik_backup calls
    Exports,  \* opnsense_backup calls
    Deletes,  \* mikrotik_delete_backup calls
    Names,    \* backup names that pass validate_backup_name
    Badly,    \* a name that does not
    MaxFaults,\* bound on deletes that fail on the router or on the disk
    Overlap,  \* may a call meet another on the same files: no code prevents it
    Late      \* may the router write a file when nobody waits for it any more, or
              \* leave an old one of that name in its place for a while

VARIABLES
    remote,  \* files on the router: file -> the backup that made it
    disk,    \* files in the directory: file -> whose bytes
    library, \* mikrotik_backups table: id -> owner and paths
    backup,  \* per mikrotik_backup call
    export,  \* per opnsense_backup call
    delete,  \* per mikrotik_delete_backup call
    faults

vars == <<remote, disk, library, backup, export, delete, faults>>

Nothing == [file \in {} |-> Badly]

\* written: files the router may still write; tried: cleanup was attempted;
\* warned: cleanup_warnings; good: outcome.
Init ==
    /\ remote = Nothing /\ disk = Nothing /\ library = Nothing
    /\ backup = [b \in Backups |->
           [pc |-> "idle", name |-> Badly, rsc |-> FALSE, overwrite |-> FALSE,
            late |-> {}, tried |-> FALSE, warned |-> FALSE, good |-> FALSE]]
    /\ export = [e \in Exports |-> [pc |-> "idle", name |-> Badly]]
    /\ delete = [d \in Deletes |-> [pc |-> "idle", id |-> 0, paths |-> {}]]
    /\ faults = 0

files == DOMAIN disk
ids == DOMAIN library
NextId == 1 + (CHOOSE m \in ids \cup {0} : \A i \in ids : i <= m)

Main(n) == <<n, "backup">>
Rsc(n) == <<n, "rsc">>
Age(n) == <<n, "xml.age">>
\* created_files, and the local paths
Made(b) == {Main(backup[b].name)} \cup IF backup[b].rsc THEN {Rsc(backup[b].name)} ELSE {}

Put(f, file, owner) == [x \in DOMAIN f \cup {file} |-> IF x = file THEN owner ELSE f[x]]
Drop(f, gone) == [x \in DOMAIN f \ gone |-> f[x]]

\* The call goes on to pc.
Go(b, pc) == backup' = [backup EXCEPT ![b].pc = pc]
GoE(e, pc) == export' = [export EXCEPT ![e].pc = pc]
GoD(d, pc) == delete' = [delete EXCEPT ![d].pc = pc]

Over == {"idle", "refused", "failed", "unrecorded", "done"}
Fault == faults < MaxFaults /\ faults' = faults + 1

\* No other call is on files of this name.
Alone(n) ==
    \/ Overlap
    \/ /\ \A b \in Backups : backup[b].name = n => backup[b].pc \in Over
       /\ \A d \in Deletes : delete[d].pc = "row" => Main(n) \notin delete[d].paths

-----------------------------------------------------------------------------
(* mikrotik_backup                                                         *)

\* check_output
OutputExists(n, rsc) == Main(n) \in files \/ (rsc /\ Rsc(n) \in files)

\* The profile and its password are there, the name is good, the directory
\* exists, the output does not: nothing has been asked of the router so far.
Begin(b, n, rsc, overwrite) ==
    /\ backup[b].pc = "idle" /\ Alone(n)
    /\ \/ Go(b, "refused")
       \/ /\ n # Badly
          /\ overwrite \/ ~OutputExists(n, rsc)
          /\ backup' = [backup EXCEPT ![b].pc = "save", ![b].name = n, ![b].rsc = rsc,
                                      ![b].overwrite = overwrite]
    /\ UNCHANGED <<remote, disk, library, export, delete, faults>>

\* The router makes a file: now, or some time after its answer.
Makes(b, file, pc) ==
    \/ remote' = Put(remote, file, b) /\ Go(b, pc)
    \/ /\ Late \/ file \notin DOMAIN remote
       /\ backup' = [backup EXCEPT ![b].pc = pc, ![b].late = @ \cup {file}]
       /\ UNCHANGED remote

\* backup_save; its error leaves run_backup at once, file or no file.
Save(b) ==
    /\ backup[b].pc = "save"
    /\ \/ Makes(b, Main(backup[b].name), "wait")
       \/ Go(b, "failed") /\ UNCHANGED remote
       \/ Makes(b, Main(backup[b].name), "failed")
    /\ UNCHANGED <<disk, library, export, delete, faults>>

RouterWrites(b) ==
    \E file \in backup[b].late :
        /\ Late \/ backup[b].pc \in {"wait", "wait rsc"}
        /\ remote' = Put(remote, file, b)
        /\ backup' = [backup EXCEPT ![b].late = @ \ {file}]
        /\ UNCHANGED <<disk, library, export, delete, faults>>

Fails(b) == Go(b, "clean")

\* wait_for_file: the name is listed, or the deadline or an error ends it.
Wait(b) ==
    /\ backup[b].pc \in {"wait", "wait rsc"}
    /\ \/ /\ backup[b].pc = "wait" /\ Main(backup[b].name) \in DOMAIN remote
          /\ Go(b, IF backup[b].rsc THEN "export" ELSE "fetch")
       \/ /\ backup[b].pc = "wait rsc" /\ Rsc(backup[b].name) \in DOMAIN remote
          /\ Go(b, "fetch")
       \/ Fails(b)
    /\ UNCHANGED <<remote, disk, library, export, delete, faults>>

\* export_rsc
Export(b) ==
    /\ backup[b].pc = "export"
    /\ \/ Makes(b, Rsc(backup[b].name), "wait rsc")
       \/ Fails(b) /\ UNCHANGED remote
    /\ UNCHANGED <<disk, library, export, delete, faults>>

\* The SFTP transfer and write_output, which overwrites, of one file; a
\* failing write may leave a torn file.
Transfer(b, file, pc) ==
    \/ /\ file \in DOMAIN remote
       /\ disk' = Put(disk, file, remote[file])
       /\ backup' = [backup EXCEPT ![b].pc = pc, ![b].good = pc = "clean"]
    \/ Fails(b) /\ UNCHANGED disk
    \/ file \in DOMAIN remote /\ disk' = Put(disk, file, Badly) /\ Fails(b)

FetchRsc(b) ==
    /\ backup[b].pc = "fetch rsc"
    /\ Transfer(b, Rsc(backup[b].name), "clean")
    /\ UNCHANGED <<remote, library, export, delete, faults>>

FetchMain(b) ==
    /\ backup[b].pc = "fetch"
    /\ Transfer(b, Main(backup[b].name), IF backup[b].rsc THEN "fetch rsc" ELSE "clean")
    /\ UNCHANGED <<remote, library, export, delete, faults>>

\* Mutant: an error leaves the files where they are.
CleanIfGood(b) ==
    /\ backup[b].pc = "clean"
    /\ \/ /\ remote' = IF backup[b].good THEN Drop(remote, Made(b)) ELSE remote
          /\ backup' = [backup EXCEPT ![b].pc = "record", ![b].tried = TRUE]
          /\ UNCHANGED faults
       \/ /\ Fault
          /\ \E gone \in SUBSET Made(b) : remote' = Drop(remote, gone)
          /\ backup' = [backup EXCEPT ![b].pc = "record", ![b].tried = TRUE,
                                      ![b].warned = TRUE]
    /\ UNCHANGED <<disk, library, export, delete>>

\* delete_file of every file of this run, whoever made it; a failure is a
\* warning, and is lost when the backup failed.
Clean(b) ==
    /\ backup[b].pc = "clean"
    /\ \/ /\ remote' = Drop(remote, Made(b))
          /\ backup' = [backup EXCEPT ![b].pc = "record", ![b].tried = TRUE]
          /\ UNCHANGED faults
       \/ /\ Fault
          /\ \E gone \in SUBSET Made(b) : remote' = Drop(remote, gone)
          /\ backup' = [backup EXCEPT ![b].pc = "record", ![b].tried = TRUE,
                                      ![b].warned = TRUE]
    /\ UNCHANGED <<disk, library, export, delete>>

\* The error, or the library record; a failing insert leaves the files.
Record(b) ==
    /\ backup[b].pc = "record"
    /\ \/ /\ backup[b].good
          /\ library' = Put(library, NextId, [owner |-> b, paths |-> Made(b)])
          /\ Go(b, "done")
       \/ backup[b].good /\ Go(b, "unrecorded") /\ UNCHANGED library
       \/ ~backup[b].good /\ Go(b, "failed") /\ UNCHANGED library
    /\ UNCHANGED <<remote, disk, export, delete, faults>>

-----------------------------------------------------------------------------
(* delete_backup_record                                                    *)

Load(d, i) ==
    /\ delete[d].pc = "idle" /\ i \in ids
    /\ Overlap \/ \A c \in Deletes : delete[c].pc \in {"files", "row"} => delete[c].id # i
    /\ delete' = [delete EXCEPT ![d].pc = "files", ![d].id = i, ![d].paths = library[i].paths]
    /\ UNCHANGED <<remote, disk, library, backup, export, faults>>

\* Missing files are fine; any other error keeps the record.  The .backup file
\* goes first.
Unlink(d) ==
    /\ delete[d].pc = "files"
    /\ \E file \in delete[d].paths : Alone(file[1])
    /\ \/ /\ disk' = Drop(disk, delete[d].paths)
          /\ GoD(d, "row")
          /\ UNCHANGED faults
       \/ /\ Fault
          /\ GoD(d, "kept")
          /\ \/ UNCHANGED disk
             \/ /\ Cardinality(delete[d].paths) = 2
                /\ disk' = Drop(disk, {p \in delete[d].paths : p[2] = "backup"})
    /\ UNCHANGED <<remote, library, backup, export>>

\* delete_mikrotik_backup_record goes by id; its error keeps the record too.
DeleteRow(d) ==
    /\ delete[d].pc = "row"
    /\ \/ /\ library' = Drop(library, {delete[d].id})
          /\ GoD(d, "deleted")
          /\ UNCHANGED faults
       \/ Fault /\ GoD(d, "kept") /\ UNCHANGED library
    /\ UNCHANGED <<remote, disk, backup, export>>

-----------------------------------------------------------------------------
(* opnsense_backup                                                         *)

\* Passphrase, name and directory are checked first; then the revision is
\* chosen, downloaded and found to be a configuration.
Read(e, n) ==
    /\ export[e].pc = "idle"
    /\ \/ GoE(e, "failed")
       \/ n # Badly /\ export' = [export EXCEPT ![e].pc = "create", ![e].name = n]
    /\ UNCHANGED <<remote, disk, library, backup, delete, faults>>

\* create_new
Create(e) ==
    /\ export[e].pc = "create"
    /\ IF Age(export[e].name) \in files
       THEN GoE(e, "failed") /\ UNCHANGED disk
       ELSE GoE(e, "encrypt") /\ disk' = Put(disk, Age(export[e].name), Badly)
    /\ UNCHANGED <<remote, library, backup, delete, faults>>

\* The rest of encrypt_to_file: the whole file, or none.
Encrypt(e) ==
    /\ export[e].pc = "encrypt"
    /\ \/ GoE(e, "done") /\ disk' = Put(disk, Age(export[e].name), e)
       \/ GoE(e, "failed") /\ disk' = Drop(disk, {Age(export[e].name)})
    /\ UNCHANGED <<remote, library, backup, delete, faults>>

-----------------------------------------------------------------------------
Next ==
    \/ \E b \in Backups :
         \/ \E n \in Names \cup {Badly}, rsc, overwrite \in BOOLEAN : Begin(b, n, rsc, overwrite)
         \/ Save(b) \/ RouterWrites(b) \/ Wait(b) \/ Export(b) \/ FetchMain(b) \/ FetchRsc(b)
         \/ Clean(b) \/ Record(b)
    \/ \E d \in Deletes : (\E i \in ids : Load(d, i)) \/ Unlink(d) \/ DeleteRow(d)
    \/ \E e \in Exports :
         (\E n \in Names \cup {Badly} : Read(e, n)) \/ Create(e) \/ Encrypt(e)

Spec == Init /\ [][Next]_vars

-----------------------------------------------------------------------------
(* Properties                                                              *)

TypeOK ==
    /\ DOMAIN remote \subseteq UNION {{Main(n), Rsc(n)} : n \in Names}
    /\ \A file \in files : disk[file] \in Backups \cup Exports \cup {Badly}
    /\ \A i \in ids : \A p \in library[i].paths : p[2] # "xml.age"

Ended(b) == backup[b].pc \in {"failed", "unrecorded", "done"}

\* "The cleanup guard ... runs on ALL exits after the REST save" (backup.rs:
\* 403): a backup that got past its save leaves a file on the router only when
\* the router refused to delete it, whatever else went wrong in between.
RouterLeftClean ==
    \A file \in DOMAIN remote :
        LET b == remote[file] IN Ended(b) /\ backup[b].tried => backup[b].warned

\* A record of this name is being deleted, or a delete of it failed.
Doomed(n) ==
    \E d \in Deletes : delete[d].pc \in {"row", "kept"} /\ Main(n) \in delete[d].paths

\* Another run of the same name, and one of the two may overwrite.
Shared(b) ==
    \E c \in Backups \ {b} : backup[c].name = backup[b].name
                                 /\ (backup[b].overwrite \/ backup[c].overwrite)

\* The library never shows a backup that is not there: what a record names is
\* on disk, and is what its own run fetched.  Not so when a run may overwrite:
\* then two records share their files; nor when a delete kept its record and
\* not its file: the next backup takes the name, and the retry takes its file.
RecordsWhole ==
    \A i \in ids : LET b == library[i].owner IN
        \/ Doomed(backup[b].name)
        \/ Shared(b)
        \/ \A file \in library[i].paths : file \in files /\ disk[file] = b

\* "Any other IO error keeps the record so the user can retry" (backup.rs:
\* 654): a record that is gone took its files with it.
NoFileLost ==
    [][\A i \in ids \ DOMAIN library' : library[i].paths \cap DOMAIN disk' = {}]_vars

\* Without overwrite no run replaces a file it did not write itself.
\* A configuration of a firewall is never replaced, by no one.
NotReplaced ==
    [][\A file \in files \cap DOMAIN disk' :
          disk[file] # disk'[file] =>
            IF file[2] = "xml.age" THEN disk[file] = Badly
            ELSE \E b \in Backups : file \in Made(b) /\ backup[b].overwrite
                                    /\ backup[b].pc \in {"fetch", "fetch rsc"}]_vars

\* "Never leave a partial .xml.age behind" (opnsense/backup.rs:264): what is
\* not whole is being written, by one export.
CiphersWhole ==
    \A file \in files : file[2] = "xml.age" /\ disk[file] = Badly =>
        Cardinality({e \in Exports : export[e].pc = "encrypt" /\ Age(export[e].name) = file}) = 1
=============================================================================
