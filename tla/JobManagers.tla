----------------------------- MODULE JobManagers -----------------------------
(* The tools that run one job at a time and hold it in a slot: MTU runs, with*)
(* the search each of them makes (this module extends MtuSearch), and LAN    *)
(* scans.  They share the database file, and no table in it.                 *)
EXTENDS MtuSearch

\* The constants of runs and scans; see their modules.
CONSTANTS
    Runs, NoRun, MaxProbes, Scans, NoScan, Batch, Capacity, MaxFound, MaxDbErrors,
    DeleteBusy

VARIABLES
    mtuSlot, run, mtuRows, probes, mtuDbErrors, scanSlot, scan, scanRows, hosts,
    scanDbErrors

mtuVars == <<mtuSlot, run, mtuRows, probes, mtuDbErrors>>
Mtu == INSTANCE MtuRun WITH slot <- mtuSlot, rows <- mtuRows, dbErrors <- mtuDbErrors

scanVars == <<scanSlot, scan, scanRows, hosts, scanDbErrors>>
Scan == INSTANCE ScanRun WITH slot <- scanSlot, rows <- scanRows, dbErrors <- scanDbErrors
==============================================================================
