---------------------------- MODULE RouterManagers ----------------------------
(* The managers that work with a router and keep a record of it: sessions    *)
(* (this module extends MikrotikSessions), log streams and backups.  They    *)
(* share nothing but the profiles.                                           *)
EXTENDS MikrotikSessions

\* The constants of log streams and backups; see their modules.  Nobody is one
\* constant: an empty slot.
CONSTANTS
    Streams, Backlog, MaxLogFailures, BufferSize, MaxEntries, Odd, MaxFailures, Hasty,
    Backups, Exports, Deletes, Names, Badly, MaxFaults, Overlap, Late

VARIABLES
    slot, stream, written, failed, remote, disk, library, backup, export, delete,
    faults

logVars == <<slot, stream, written, failed>>
Logs == INSTANCE MikrotikLogs

fileVars == <<remote, disk, library, backup, export, delete, faults>>
Files == INSTANCE Backups
===============================================================================
