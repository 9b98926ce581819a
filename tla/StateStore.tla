------------------------------ MODULE StateStore ------------------------------
(***************************************************************************)
(* The SQLite database shared by every migrationkit process                *)
(* (docker/migration-runner/migrationkit/state.py), one operator per       *)
(* transaction.  The migration script, the control API and the validator   *)
(* are separate processes whose only common state is this database, so the *)
(* unit of interleaving is one transaction: a Python function of state.py  *)
(* that opens two connections is two operators here, and the modules that  *)
(* use them run them in two steps.                                         *)
(*                                                                         *)
(* A SELECT that precedes the first write of a connection runs outside any *)
(* transaction (Python's sqlite3 opens one only at the first INSERT,       *)
(* UPDATE or DELETE), so a function that reads, decides and then writes is *)
(* two steps as well.                                                      *)
(*                                                                         *)
(* Abstracted: timestamps (ended_at is the Boolean "is it set"), bytes and *)
(* seconds of a batch, error texts, event payloads.  Of the event kinds    *)
(* only the ones that announce the life of a run or of a table are kept;   *)
(* log, batch_done, bytes_progress and phase_started are not.              *)
(***************************************************************************)
EXTENDS Integers, Sequences, FiniteSets

CONSTANTS
  Runs,      \* run identifiers
  Tables,    \* source table names
  Unknown    \* run_tables.total_rows IS NULL

ASSUME UnknownAssumption == Unknown \notin Nat

VARIABLES
  runs,         \* the row of table runs, per run id
  runTables,    \* the rows of run_tables, per run id and table
  batches,      \* the rows of batches, per run id
  controls,     \* the flag in controls, per run id
  events,       \* the lifecycle events, in id order, per run id
  validations   \* the verdicts in validations, per run id and table

storeVars == <<runs, runTables, batches, controls, events, validations>>

ActiveStatus   == {"running", "paused"}
TerminalStatus == {"done", "failed", "cancelled"}
TableStatus    == {"pending", "running", "done", "failed"}
Phases         == {"none", "unloading", "staged", "loading", "validating"}
Flags          == {"run", "pause", "cancel"}
RunEvents      == {"started", "paused", "resumed", "done", "failed",
                   "cancelled", "validation_done", "step_validated",
                   "benchmark_row", "benchmark_done", "step_benchmarked"}
TableEvents    == {"table_done", "validation_row"}
EventKinds     == [kind : RunEvents] \cup [kind : TableEvents, table : Tables]
Verdicts       == {"match", "mismatch"}

\* "absent" stands for "there is no such row".
RunRow     == [status : ActiveStatus \cup TerminalStatus \cup {"absent"},
               ended  : BOOLEAN]
TableRow   == [status : TableStatus \cup {"absent"},
               total  : Nat \cup {Unknown},
               done   : Nat,
               phase  : Phases]
BatchRow   == [table : Tables, n : Nat, rows : Nat]

NoRun   == [status |-> "absent", ended |-> FALSE]
NoTable == [status |-> "absent", total |-> Unknown, done |-> 0, phase |-> "none"]

StoreTypeOK ==
  /\ runs        \in [Runs -> RunRow]
  /\ runTables   \in [Runs -> [Tables -> TableRow]]
  /\ batches     \in [Runs -> SUBSET BatchRow]
  /\ controls    \in [Runs -> Flags \cup {"absent"}]
  /\ events      \in [Runs -> Seq(EventKinds)]
  /\ validations \in [Runs -> [Tables -> Verdicts \cup {"absent"}]]

StoreInit ==
  /\ runs        = [r \in Runs |-> NoRun]
  /\ runTables   = [r \in Runs |-> [t \in Tables |-> NoTable]]
  /\ batches     = [r \in Runs |-> {}]
  /\ controls    = [r \in Runs |-> "absent"]
  /\ events      = [r \in Runs |-> <<>>]
  /\ validations = [r \in Runs |-> [t \in Tables |-> "absent"]]

-----------------------------------------------------------------------------
(* Reads. *)

RunExists(r) == runs[r].status # "absent"
IsActive(r)  == runs[r].status \in ActiveStatus
IsTerminal(r) == runs[r].status \in TerminalStatus

\* SELECT run_id FROM runs WHERE status IN ('running','paused')
ActiveRuns == {r \in Runs : IsActive(r)}

TableExists(r, t) == runTables[r][t].status # "absent"

\* A missing controls row reads as 'run'.
ControlFlag(r) == IF controls[r] = "absent" THEN "run" ELSE controls[r]

-----------------------------------------------------------------------------
(* Transactions.  Those with a foreign key to runs are guarded by the      *)
(* existence of the run: without it SQLite raises IntegrityError and       *)
(* nothing is written.  An UPDATE of a row that does not exist changes     *)
(* nothing.                                                                *)

\* The second half of create_run: INSERT OR REPLACE deletes the old row
\* first, so the foreign keys cascade to everything a previous run of this
\* name left (its events have no foreign key and survive).
InsertRun(r) ==
  /\ runs'        = [runs EXCEPT ![r] = [status |-> "running", ended |-> FALSE]]
  /\ runTables'   = [runTables EXCEPT ![r] = [t \in Tables |-> NoTable]]
  /\ batches'     = [batches EXCEPT ![r] = {}]
  /\ controls'    = [controls EXCEPT ![r] = "run"]
  /\ validations' = [validations EXCEPT ![r] = [t \in Tables |-> "absent"]]
  /\ UNCHANGED events

\* Mutant: finish_run asks for ended_at IS NULL, as set_run_status does.
EndRunOnce(r, status) ==
  /\ runs' = IF RunExists(r) /\ ~runs[r].ended
             THEN [runs EXCEPT ![r] = [status |-> status, ended |-> TRUE]]
             ELSE runs
  /\ UNCHANGED <<runTables, batches, controls, events, validations>>

\* The transaction of finish_run.
EndRun(r, status) ==
  /\ runs' = IF RunExists(r)
             THEN [runs EXCEPT ![r] = [status |-> status, ended |-> TRUE]]
             ELSE runs
  /\ UNCHANGED <<runTables, batches, controls, events, validations>>

\* set_run_status: WHERE run_id=? AND ended_at IS NULL.
SetRunStatus(r, status) ==
  /\ runs' = IF RunExists(r) /\ ~runs[r].ended
             THEN [runs EXCEPT ![r].status = status]
             ELSE runs
  /\ UNCHANGED <<runTables, batches, controls, events, validations>>

RegisterTable(r, t, total) ==
  /\ RunExists(r)
  /\ runTables' = [runTables EXCEPT ![r][t] =
       [status |-> "pending", total |-> total, done |-> 0, phase |-> "none"]]
  /\ UNCHANGED <<runs, batches, controls, events, validations>>

SetTableStatus(r, t, status) ==
  /\ runTables' = IF TableExists(r, t)
                  THEN [runTables EXCEPT ![r][t].status = status]
                  ELSE runTables
  /\ UNCHANGED <<runs, batches, controls, events, validations>>

SetTablePhase(r, t, phase) ==
  /\ runTables' = IF TableExists(r, t)
                  THEN [runTables EXCEPT ![r][t].phase = phase]
                  ELSE runTables
  /\ UNCHANGED <<runs, batches, controls, events, validations>>

\* INSERT OR REPLACE INTO batches, keyed by run, table and batch number.
ReplaceBatch(bs, b) == {x \in bs : x.table # b.table \/ x.n # b.n} \cup {b}

\* Mutant: SET rows_done = ? for SET rows_done = rows_done + ?.
RecordBatchSet(r, t, n, rows) ==
  /\ RunExists(r)
  /\ batches'   = [batches EXCEPT ![r] =
                     ReplaceBatch(@, [table |-> t, n |-> n, rows |-> rows])]
  /\ runTables' = IF TableExists(r, t)
                  THEN [runTables EXCEPT ![r][t].done = rows]
                  ELSE runTables
  /\ UNCHANGED <<runs, controls, events, validations>>

\* record_batch: the batch row and the increment of rows_done commit together.
RecordBatch(r, t, n, rows) ==
  /\ RunExists(r)
  /\ batches'   = [batches EXCEPT ![r] =
                     ReplaceBatch(@, [table |-> t, n |-> n, rows |-> rows])]
  /\ runTables' = IF TableExists(r, t)
                  THEN [runTables EXCEPT ![r][t].done = @ + rows]
                  ELSE runTables
  /\ UNCHANGED <<runs, controls, events, validations>>

\* record_staged_load: one batch row numbered 0, and rows_done is SET.
RecordStagedLoad(r, t, rows) ==
  /\ RunExists(r)
  /\ batches'   = [batches EXCEPT ![r] =
                     ReplaceBatch(@, [table |-> t, n |-> 0, rows |-> rows])]
  /\ runTables' = IF TableExists(r, t)
                  THEN [runTables EXCEPT ![r][t].done = rows]
                  ELSE runTables
  /\ UNCHANGED <<runs, controls, events, validations>>

\* events has no foreign key: an event can be written for a run that is gone.
WriteEvent(r, e) ==
  /\ events' = [events EXCEPT ![r] = Append(@, e)]
  /\ UNCHANGED <<runs, runTables, batches, controls, validations>>

\* INSERT ... ON CONFLICT DO UPDATE.
SetControlFlag(r, flag) ==
  /\ RunExists(r)
  /\ controls' = [controls EXCEPT ![r] = flag]
  /\ UNCHANGED <<runs, runTables, batches, events, validations>>

\* Mutant: a connection without PRAGMA foreign_keys.
DeleteRunOnly(r) ==
  /\ runs' = [runs EXCEPT ![r] = NoRun]
  /\ UNCHANGED <<runTables, batches, controls, events, validations>>

\* DELETE FROM runs, cascading; the check that precedes it is a step of its
\* own in ControlApi.
DeleteRun(r) ==
  /\ runs'        = [runs EXCEPT ![r] = NoRun]
  /\ runTables'   = [runTables EXCEPT ![r] = [t \in Tables |-> NoTable]]
  /\ batches'     = [batches EXCEPT ![r] = {}]
  /\ controls'    = [controls EXCEPT ![r] = "absent"]
  /\ validations' = [validations EXCEPT ![r] = [t \in Tables |-> "absent"]]
  /\ UNCHANGED events

ClearValidations(r) ==
  /\ validations' = [validations EXCEPT ![r] = [t \in Tables |-> "absent"]]
  /\ UNCHANGED <<runs, runTables, batches, controls, events>>

RecordValidation(r, t, verdict) ==
  /\ RunExists(r)
  /\ validations' = [validations EXCEPT ![r][t] = verdict]
  /\ UNCHANGED <<runs, runTables, batches, controls, events>>

-----------------------------------------------------------------------------
\* The rows of the tables agree, whatever transactions have run: ended_at is
\* set exactly on the runs whose status is terminal (so a late set_run_status,
\* which asks for ended_at IS NULL, can never revive one), exactly the runs
\* that exist have a controls row, and no row of another table outlives its
\* run (the foreign keys of the schema).
RowsAgree ==
  \A r \in Runs :
    /\ runs[r].ended <=> IsTerminal(r)
    /\ controls[r] = "absent" <=> ~RunExists(r)
    /\ ~RunExists(r) =>
         /\ batches[r] = {}
         /\ \A t \in Tables : ~TableExists(r, t) /\ validations[r][t] = "absent"
=============================================================================
