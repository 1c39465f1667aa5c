--------------------------- MODULE DashboardStore ---------------------------
(***************************************************************************)
(* The store of the dashboard: its collections, in memory and in the copy  *)
(* that outlives the process, a JSON file of one process or a PostgreSQL   *)
(* schema that several share.  Every change is one mutation: a function of *)
(* the whole store, run by one caller at a time, that takes effect in      *)
(* memory when it has been written, and not at all when it throws.         *)
(*                                                                         *)
(* On PostgreSQL a request begins by reading the collections again, and a  *)
(* mutation reads them under an advisory lock: what a process remembers in *)
(* between decides nothing, and one memory stands for that of all.         *)
(*                                                                         *)
(* A mutation can throw and still have been written: the file is renamed   *)
(* into place before its mode is set, and the answer to a COMMIT can be    *)
(* lost.                                                                   *)
(***************************************************************************)
EXTENDS Naturals

CONSTANTS
  Processes,  \* processes of the dashboard
  Alone,      \* the one that runs on a JSON file
  MaxFaults   \* bound: writes that fail, restarts, calls of others that fail

ASSUME StoreAssumption == Alone \in Processes /\ MaxFaults \in Nat

VARIABLES
  mode,   \* storageMode()
  mem,    \* _db
  saved,  \* the file or the schema
  faults  \* faults so far

store == <<mode, mem, saved>>

Modes == {"json-single-process", "postgresql"}

\* The processes there are: a JSON file has one.
Running == IF mode = "postgresql" THEN Processes ELSE {Alone}

StoreTypeOK(Databases) ==
  /\ mode \in Modes
  /\ mem \in Databases /\ saved \in Databases
  /\ faults \in 0 .. MaxFaults

StoreInit(empty) ==
  /\ mode \in Modes
  /\ mem = empty /\ saved = empty
  /\ faults = 0

Fault == faults < MaxFaults /\ faults' = faults + 1

-----------------------------------------------------------------------------

\* What a mutation changes, and what a request that begins with refreshDb
\* reads: the rows read under the advisory lock, or the draft of _db.
Db == IF mode = "postgresql" THEN saved ELSE mem

CommitInMemory(db) ==
  /\ mem' = db
  /\ saved' = IF mode = "postgresql" THEN db ELSE saved
  /\ UNCHANGED <<mode, faults>>

\* The mutation that makes db of Db is written and returns.
Commit(db) ==
  /\ mem' = db /\ saved' = db
  /\ UNCHANGED <<mode, faults>>

\* It throws.  The process goes on with what it had; the copy may be new.
Abort(db) ==
  /\ Fault
  /\ saved' \in {saved, db}
  /\ UNCHANGED <<mode, mem>>

\* A process dies and starts again: loadDb, or the schema's collections.
Restart ==
  /\ Fault
  /\ mem' = saved
  /\ UNCHANGED <<mode, saved>>
=============================================================================
