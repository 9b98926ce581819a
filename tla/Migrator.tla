------------------------------- MODULE Migrator -------------------------------
(***************************************************************************)
(* A migration script: a Python process that constructs a Migrator, adds   *)
(* tables and calls run() (migrationkit/migrator.py).  Each script is a    *)
(* process with a control location; one action is one transaction on the   *)
(* state store, or one operation on the source, on the staging bucket or   *)
(* on the ClickHouse target.  The S3 and the GCS path have the same        *)
(* control (migrator.py says so) and are one set of actions, labelled by   *)
(* the strategy of the plan.                                               *)
(*                                                                         *)
(* Data: a table is its number of rows.  The target keeps a row count per  *)
(* target table, and, as history, how many rows each run put there for     *)
(* each source table.                                                      *)
(***************************************************************************)
EXTENDS StateStore

CONSTANTS
  Scripts,         \* migration scripts that may be launched
  RunOf,           \* the run_id each script passes to Migrator(...)
  Plan,            \* the add_table* calls of each script, in order
  CanUnload,       \* the staged strategies each script's source implements
  TargetTables,    \* ClickHouse tables
  BatchSize,
  InitialRows,     \* rows of each source table at the start
  MaxRows,         \* bound: rows a source table may grow to
  Preloaded,       \* rows already in each target table
  SerialDispatch   \* no two scripts are inside Migrator() at the same time

StagedStrategies == {"s3_stage", "gcs_stage"}
PlanItem == [table : Tables, target : TargetTables,
             strategy : StagedStrategies \cup {"direct"}]

ASSUME MigratorAssumptions ==
  /\ RunOf \in [Scripts -> Runs]
  /\ Plan \in [Scripts -> Seq(PlanItem)]
  /\ CanUnload \in [Scripts -> SUBSET StagedStrategies]
  /\ BatchSize \in Nat \ {0}
  /\ MaxRows \in Nat
  /\ InitialRows \in [Tables -> Nat]
  /\ Preloaded \in [TargetTables -> Nat]
  /\ SerialDispatch \in BOOLEAN

VARIABLES
  script,      \* control location and local variables of each script
  sourceRows,  \* rows of each source table
  staged,      \* rows in the objects under <prefix>/<run_id>/<table>/
  target,      \* rows of each target table
  landed       \* history: rows each run inserted for each source table

dataVars     == <<sourceRows, staged, target, landed>>
migratorVars == <<script, dataVars>>

ConstructPcs == {"insert", "started"}
ControlPcs   == {"control", "markPaused", "sayPaused", "paused", "markRunning",
                 "sayResumed", "sayCancelled"}
DirectPcs    == {"open", "fetch", "insertBatch", "recordBatch"}
StagedPcs    == {"unloading", "unload", "staged", "loading", "baseline", "load",
                 "countLoaded", "validating", "compare", "cleanup",
                 "recordLoad", "clearPhase"}
TablePcs     == {"table", "tableDone", "sayTableDone"}
RunPcs       == {"preflight", "register"} \cup TablePcs \cup ControlPcs
                  \cup DirectPcs \cup StagedPcs
EndPcs       == {"finish", "sayFinished", "logFinished"}
LivePcs      == ConstructPcs \cup RunPcs \cup EndPcs
StoppedPcs   == {"new", "refused", "exited", "killed"}

\* Where _check_controls returns to.
ReturnPcs    == {"none", "insertBatch", "unloading", "loading", "validating"}

ScriptState ==
  [pc      : LivePcs \cup StoppedPcs,
   item    : Nat,          \* position in the plan, counted from 1
   ret     : ReturnPcs,
   left    : Nat,          \* rows the open cursor has not delivered
   batch   : Nat,          \* rows of the batch in hand
   n       : Nat,          \* batch_n
   base    : Nat,          \* target rows counted before a staged load
   loaded  : Nat,          \* LoadResult.rows_done
   outcome : TerminalStatus \cup {"none"},
   late    : BOOLEAN]      \* a load it gave up on may still be going on

MigratorTypeOK ==
  /\ script     \in [Scripts -> ScriptState]
  /\ sourceRows \in [Tables -> Nat]
  /\ staged     \in [Runs -> [Tables -> Nat]]
  /\ target     \in [TargetTables -> Nat]
  /\ landed     \in [Runs -> [Tables -> Nat]]

MigratorInit ==
  /\ script = [s \in Scripts |->
       [pc |-> "new", item |-> 1, ret |-> "none", left |-> 0, batch |-> 0,
        n |-> 0, base |-> 0, loaded |-> 0, outcome |-> "none",
        late |-> FALSE]]
  /\ sourceRows = InitialRows
  /\ staged     = [r \in Runs |-> [t \in Tables |-> 0]]
  /\ target     = Preloaded
  /\ landed     = [r \in Runs |-> [t \in Tables |-> 0]]

At(s, l)    == script[s].pc = l
Goto(s, l)  == script' = [script EXCEPT ![s].pc = l]
Item(s)     == Plan[s][script[s].item]
PlanLeft(s) == script[s].item <= Len(Plan[s])
Lesser(a, b) == IF a < b THEN a ELSE b

-----------------------------------------------------------------------------
(* Construction: Migrator.__init__ calls state.create_run. *)

\* Mutant: WHERE status = 'running'.
CheckNoneRunning(s) ==
  /\ At(s, "new")
  /\ SerialDispatch => \A o \in Scripts : ~At(o, "insert")
  /\ \A r \in Runs : r # RunOf[s] => runs[r].status # "running"
  /\ Goto(s, "insert")
  /\ UNCHANGED <<storeVars, dataVars>>

\* SELECT ... fetchone() returns some active row; the script goes on when
\* there is none or when the row is its own.
CheckNoActiveRun(s) ==
  /\ At(s, "new")
  /\ SerialDispatch => \A o \in Scripts : ~At(o, "insert")
  /\ ActiveRuns = {} \/ RunOf[s] \in ActiveRuns
  /\ Goto(s, "insert")
  /\ UNCHANGED <<storeVars, dataVars>>

\* ActiveRunError: the script ends before it has written anything.
RefuseRun(s) ==
  /\ At(s, "new")
  /\ \E r \in ActiveRuns : r # RunOf[s]
  /\ Goto(s, "refused")
  /\ UNCHANGED <<storeVars, dataVars>>

CreateRun(s) ==
  /\ At(s, "insert")
  /\ InsertRun(RunOf[s])
  /\ Goto(s, "started")
  /\ UNCHANGED dataVars

\* A ValueError of a later add_table call ends the script here: Kill.
AnnounceStart(s) ==
  /\ At(s, "started")
  /\ WriteEvent(RunOf[s], [kind |-> "started"])
  /\ Goto(s, "preflight")
  /\ UNCHANGED dataVars

-----------------------------------------------------------------------------
(* run(): preflight, registration, then the tables in order. *)

Preflight(s) ==
  /\ At(s, "preflight")
  /\ Goto(s, "register")
  /\ UNCHANGED <<storeVars, dataVars>>

\* A count that fails is registered as NULL.
RegisterNext(s) ==
  /\ At(s, "register")
  /\ PlanLeft(s)
  /\ \E total \in {sourceRows[Item(s).table], Unknown} :
       RegisterTable(RunOf[s], Item(s).table, total)
  /\ script' = [script EXCEPT ![s].item = @ + 1]
  /\ UNCHANGED dataVars

AllRegistered(s) ==
  /\ At(s, "register")
  /\ ~PlanLeft(s)
  /\ script' = [script EXCEPT ![s].pc = "table", ![s].item = 1]
  /\ UNCHANGED <<storeVars, dataVars>>

BeginDirect(s) ==
  /\ At(s, "table")
  /\ PlanLeft(s)
  /\ Item(s).strategy = "direct"
  /\ SetTableStatus(RunOf[s], Item(s).table, "running")
  /\ script' = [script EXCEPT ![s].pc = "open", ![s].n = 0]
  /\ UNCHANGED dataVars

BeginStaged(s) ==
  /\ At(s, "table")
  /\ PlanLeft(s)
  /\ Item(s).strategy \in CanUnload[s]
  /\ SetTableStatus(RunOf[s], Item(s).table, "running")
  /\ script' = [script EXCEPT ![s].pc = "control", ![s].ret = "unloading"]
  /\ UNCHANGED dataVars

\* NotImplementedError, before the table's status is touched.
RejectStrategy(s) ==
  /\ At(s, "table")
  /\ PlanLeft(s)
  /\ Item(s).strategy \in StagedStrategies \ CanUnload[s]
  /\ script' = [script EXCEPT ![s].pc = "finish", ![s].outcome = "failed"]
  /\ UNCHANGED <<storeVars, dataVars>>

PlanDone(s) ==
  /\ At(s, "table")
  /\ ~PlanLeft(s)
  /\ script' = [script EXCEPT ![s].pc = "finish", ![s].outcome = "done"]
  /\ UNCHANGED <<storeVars, dataVars>>

-----------------------------------------------------------------------------
(* _migrate_table: the direct path. *)

\* The query runs when the generator is first advanced.
OpenCursor(s) ==
  /\ At(s, "open")
  /\ script' = [script EXCEPT ![s].pc = "fetch",
                              ![s].left = sourceRows[Item(s).table]]
  /\ UNCHANGED <<storeVars, dataVars>>

FetchBatch(s) ==
  /\ At(s, "fetch")
  /\ script[s].left > 0
  /\ LET k == Lesser(BatchSize, script[s].left) IN
     script' = [script EXCEPT ![s].pc = "control", ![s].ret = "insertBatch",
                              ![s].batch = k, ![s].left = @ - k]
  /\ UNCHANGED <<storeVars, dataVars>>

CursorEmpty(s) ==
  /\ At(s, "fetch")
  /\ script[s].left = 0
  /\ Goto(s, "tableDone")
  /\ UNCHANGED <<storeVars, dataVars>>

\* rows land in the target and count as inserted by this run
Land(s, rows) ==
  /\ target' = [target EXCEPT ![Item(s).target] = @ + rows]
  /\ landed' = [landed EXCEPT ![RunOf[s]][Item(s).table] = @ + rows]

\* A batch that lands although the client sees an error is this step and
\* then Fail.
InsertBatch(s) ==
  /\ At(s, "insertBatch")
  /\ Land(s, script[s].batch)
  /\ Goto(s, "recordBatch")
  /\ UNCHANGED <<storeVars, sourceRows, staged>>

RecordInserted(s) ==
  /\ At(s, "recordBatch")
  /\ RecordBatch(RunOf[s], Item(s).table, script[s].n, script[s].batch)
  /\ script' = [script EXCEPT ![s].pc = "fetch", ![s].batch = 0, ![s].n = @ + 1]
  /\ UNCHANGED dataVars

\* Both paths end a table in the same two steps.
CompleteTable(s) ==
  /\ At(s, "tableDone")
  /\ SetTableStatus(RunOf[s], Item(s).table, "done")
  /\ Goto(s, "sayTableDone")
  /\ UNCHANGED dataVars

AnnounceTable(s) ==
  /\ At(s, "sayTableDone")
  /\ WriteEvent(RunOf[s], [kind |-> "table_done", table |-> Item(s).table])
  /\ script' = [script EXCEPT ![s].pc = "table", ![s].item = @ + 1]
  /\ UNCHANGED dataVars

-----------------------------------------------------------------------------
(* _migrate_table_via_s3 and _migrate_table_via_gcs: the staged path. *)

\* set_table_phase, at the locations named after the phase.
EnterPhase(s, phase, next) ==
  /\ At(s, phase)
  /\ SetTablePhase(RunOf[s], Item(s).table, phase)
  /\ script' = [script EXCEPT ![s] = next]
  /\ UNCHANGED dataVars

EnterUnloading(s) == EnterPhase(s, "unloading", [script[s] EXCEPT !.pc = "unload"])
EnterStaged(s) ==
  EnterPhase(s, "staged", [script[s] EXCEPT !.pc = "control", !.ret = "loading"])
EnterLoading(s) == EnterPhase(s, "loading", [script[s] EXCEPT !.pc = "baseline"])
EnterValidating(s) ==
  EnterPhase(s, "validating", [script[s] EXCEPT !.pc = "compare"])

Unload(s) ==
  /\ At(s, "unload")
  /\ staged' = [staged EXCEPT ![RunOf[s]][Item(s).table] =
                  sourceRows[Item(s).table]]
  /\ Goto(s, "staged")
  /\ UNCHANGED <<storeVars, sourceRows, target, landed>>

\* A count that fails makes the baseline 0.
CountBaseline(s) ==
  /\ At(s, "baseline")
  /\ \E base \in {target[Item(s).target], 0} :
       script' = [script EXCEPT ![s].pc = "load", ![s].base = base]
  /\ UNCHANGED <<storeVars, dataVars>>

LoadStaged(s) ==
  /\ At(s, "load")
  /\ Land(s, staged[RunOf[s]][Item(s).table])
  /\ Goto(s, "countLoaded")
  /\ UNCHANGED <<storeVars, sourceRows, staged>>

\* max(0, count - baseline)
CountLoaded(s) ==
  /\ At(s, "countLoaded")
  /\ LET rows == target[Item(s).target] - script[s].base IN
     script' = [script EXCEPT ![s].pc = "control", ![s].ret = "validating",
                              ![s].loaded = IF rows < 0 THEN 0 ELSE rows]
  /\ UNCHANGED <<storeVars, dataVars>>

\* The total registered at the start, or a fresh count when that is NULL or 0.
ExpectedRows(s) ==
  LET total == runTables[RunOf[s]][Item(s).table].total IN
  IF total \in {Unknown, 0} THEN sourceRows[Item(s).table] ELSE total

\* Mutant: the counts are not compared.
CountsAssumed(s) ==
  /\ At(s, "compare")
  /\ Goto(s, "cleanup")
  /\ UNCHANGED <<storeVars, dataVars>>

CountsMatch(s) ==
  /\ At(s, "compare")
  /\ script[s].loaded = ExpectedRows(s)
  /\ Goto(s, "cleanup")
  /\ UNCHANGED <<storeVars, dataVars>>

CountsDiffer(s) ==
  /\ At(s, "compare")
  /\ script[s].loaded # ExpectedRows(s)
  /\ SetTableStatus(RunOf[s], Item(s).table, "failed")
  /\ script' = [script EXCEPT ![s].pc = "finish", ![s].outcome = "failed"]
  /\ UNCHANGED dataVars

\* cleanup_staged may be off, and a cleanup that fails is only logged.
CleanUp(s) ==
  /\ At(s, "cleanup")
  /\ \E rows \in {0, staged[RunOf[s]][Item(s).table]} :
       staged' = [staged EXCEPT ![RunOf[s]][Item(s).table] = rows]
  /\ Goto(s, "recordLoad")
  /\ UNCHANGED <<storeVars, sourceRows, target, landed>>

RecordLoaded(s) ==
  /\ At(s, "recordLoad")
  /\ RecordStagedLoad(RunOf[s], Item(s).table, script[s].loaded)
  /\ Goto(s, "clearPhase")
  /\ UNCHANGED dataVars

\* Mutant: the phase of a completed table is left as it was.
StayInPhase(s) ==
  /\ At(s, "clearPhase")
  /\ Goto(s, "tableDone")
  /\ UNCHANGED <<storeVars, dataVars>>

LeavePhases(s) ==
  /\ At(s, "clearPhase")
  /\ SetTablePhase(RunOf[s], Item(s).table, "none")
  /\ Goto(s, "tableDone")
  /\ UNCHANGED dataVars

-----------------------------------------------------------------------------
(* _check_controls *)

ReadFlag(s) ==
  /\ At(s, "control")
  /\ Goto(s, CASE ControlFlag(RunOf[s]) = "cancel" -> "sayCancelled"
               [] ControlFlag(RunOf[s]) = "pause"  -> "markPaused"
               [] OTHER                            -> script[s].ret)
  /\ UNCHANGED <<storeVars, dataVars>>

MarkPaused(s) ==
  /\ At(s, "markPaused")
  /\ SetRunStatus(RunOf[s], "paused")
  /\ Goto(s, "sayPaused")
  /\ UNCHANGED dataVars

AnnouncePause(s) ==
  /\ At(s, "sayPaused")
  /\ WriteEvent(RunOf[s], [kind |-> "paused"])
  /\ Goto(s, "paused")
  /\ UNCHANGED dataVars

\* Mutant: after the pause the script goes on without marking itself running.
PollFlagOnly(s) ==
  /\ At(s, "paused")
  /\ ControlFlag(RunOf[s]) # "pause"
  /\ Goto(s, IF ControlFlag(RunOf[s]) = "cancel" THEN "sayCancelled"
                                                 ELSE script[s].ret)
  /\ UNCHANGED <<storeVars, dataVars>>

\* Mutant: the loop waits for 'run', and a cancel during the pause is not seen.
PollForRun(s) ==
  /\ At(s, "paused")
  /\ ControlFlag(RunOf[s]) = "run"
  /\ Goto(s, "markRunning")
  /\ UNCHANGED <<storeVars, dataVars>>

\* The poll loop: a flag that still says 'pause' is another turn of it.
PollFlag(s) ==
  /\ At(s, "paused")
  /\ ControlFlag(RunOf[s]) # "pause"
  /\ Goto(s, IF ControlFlag(RunOf[s]) = "cancel" THEN "sayCancelled"
                                                 ELSE "markRunning")
  /\ UNCHANGED <<storeVars, dataVars>>

MarkRunning(s) ==
  /\ At(s, "markRunning")
  /\ SetRunStatus(RunOf[s], "running")
  /\ Goto(s, "sayResumed")
  /\ UNCHANGED dataVars

AnnounceResume(s) ==
  /\ At(s, "sayResumed")
  /\ WriteEvent(RunOf[s], [kind |-> "resumed"])
  /\ Goto(s, script[s].ret)
  /\ UNCHANGED dataVars

\* The event comes before the status: finish_run is still to run.
AnnounceCancel(s) ==
  /\ At(s, "sayCancelled")
  /\ WriteEvent(RunOf[s], [kind |-> "cancelled"])
  /\ script' = [script EXCEPT ![s].pc = "finish", ![s].outcome = "cancelled"]
  /\ UNCHANGED dataVars

-----------------------------------------------------------------------------
(* The end of run(): finish_run, normally or in an exception handler. *)

FinishRun(s) ==
  /\ At(s, "finish")
  /\ EndRun(RunOf[s], script[s].outcome)
  /\ Goto(s, "sayFinished")
  /\ UNCHANGED dataVars

AnnounceFinish(s) ==
  /\ At(s, "sayFinished")
  /\ WriteEvent(RunOf[s], [kind |-> script[s].outcome])
  /\ Goto(s, "logFinished")
  /\ UNCHANGED dataVars

Exit(s) ==
  /\ At(s, "logFinished")
  /\ Goto(s, "exited")
  /\ UNCHANGED <<storeVars, dataVars>>

\* Mutant: the handler of run() covers the other handlers too.
FailAnywhere(s) ==
  /\ script[s].pc \in RunPcs \cup EndPcs
  /\ script' = [script EXCEPT ![s].pc = "finish", ![s].outcome = "failed"]
  /\ UNCHANGED <<storeVars, dataVars>>

\* An operation of run() raises: the source, the target, the bucket or the
\* database ("database is locked" after 10 s, a foreign key without its run).
\* finish_run("done") and the log line after it are inside the try block, so
\* they can be what raises.
Fail(s) ==
  /\ \/ script[s].pc \in RunPcs
     \/ script[s].pc \in EndPcs /\ script[s].outcome = "done"
  /\ script' = [script EXCEPT ![s].pc = "finish", ![s].outcome = "failed"]
  /\ UNCHANGED <<storeVars, dataVars>>

\* Mutant: a failed load cleans the staged objects up.
FailTableCleanly(s) ==
  /\ script[s].pc \in {"unload", "load", "countLoaded"}
  /\ SetTableStatus(RunOf[s], Item(s).table, "failed")
  /\ staged' = [staged EXCEPT ![RunOf[s]][Item(s).table] = 0]
  /\ script' = [script EXCEPT ![s].pc = "finish", ![s].outcome = "failed"]
  /\ UNCHANGED <<sourceRows, target, landed>>

\* unload_to_* and load_from_* have a handler of their own.  The INSERT of a
\* load runs in a thread: when it is what raises it may have put some of its
\* rows in the target, and when it is not (the client for the progress polls
\* cannot connect) it is still going on.
FailTable(s) ==
  /\ script[s].pc \in {"unload", "load", "countLoaded"}
  /\ SetTableStatus(RunOf[s], Item(s).table, "failed")
  /\ \E late \in {FALSE, At(s, "load")} :
       script' = [script EXCEPT ![s].pc = "finish", ![s].outcome = "failed",
                                ![s].late = late]
  /\ UNCHANGED dataVars

\* What such a load still inserts; ClickHouse commits it block by block.
LandLate(s) ==
  /\ script[s].late
  /\ \E rows \in 0..staged[RunOf[s]][Item(s).table] : Land(s, rows)
  /\ script' = [script EXCEPT ![s].late = FALSE]
  /\ UNCHANGED <<storeVars, sourceRows, staged>>

\* SIGKILL by the job timeout, a container restart, an exception outside
\* run() or inside its handlers: nothing more is written.
Kill(s) ==
  /\ script[s].pc \in LivePcs
  /\ Goto(s, "killed")
  /\ UNCHANGED <<storeVars, dataVars>>

\* Somebody keeps inserting into the source.
SourceInsert(t) ==
  /\ sourceRows[t] < MaxRows
  /\ sourceRows' = [sourceRows EXCEPT ![t] = @ + 1]
  /\ UNCHANGED <<storeVars, script, staged, target, landed>>

-----------------------------------------------------------------------------
Launch(s) == CheckNoActiveRun(s) \/ RefuseRun(s)

DirectStep(s) ==
  \/ BeginDirect(s) \/ OpenCursor(s) \/ FetchBatch(s) \/ CursorEmpty(s)
  \/ InsertBatch(s) \/ RecordInserted(s)

StagedStep(s) ==
  \/ BeginStaged(s) \/ RejectStrategy(s) \/ EnterUnloading(s) \/ Unload(s)
  \/ EnterStaged(s) \/ EnterLoading(s) \/ CountBaseline(s) \/ LoadStaged(s)
  \/ CountLoaded(s) \/ EnterValidating(s) \/ CountsMatch(s) \/ CountsDiffer(s)
  \/ CleanUp(s) \/ RecordLoaded(s) \/ LeavePhases(s)

ControlStep(s) ==
  \/ ReadFlag(s) \/ MarkPaused(s) \/ AnnouncePause(s) \/ PollFlag(s)
  \/ MarkRunning(s) \/ AnnounceResume(s) \/ AnnounceCancel(s)

RunStep(s) ==
  \/ CreateRun(s) \/ AnnounceStart(s) \/ Preflight(s) \/ RegisterNext(s)
  \/ AllRegistered(s) \/ CompleteTable(s) \/ AnnounceTable(s) \/ PlanDone(s)
  \/ FinishRun(s) \/ AnnounceFinish(s) \/ Exit(s)

\* What a script that is alive does on its own.
Proceed(s) == DirectStep(s) \/ StagedStep(s) \/ ControlStep(s) \/ RunStep(s)

MigratorNext ==
  \/ \E s \in Scripts :
       Launch(s) \/ Proceed(s) \/ Fail(s) \/ FailTable(s) \/ LandLate(s) \/ Kill(s)
  \/ \E t \in Tables : SourceInsert(t)

-----------------------------------------------------------------------------
\* Control locations and local variables fit together: a script at work on a
\* table has that table in its plan, _check_controls has somewhere to return
\* to, a run that is being ended has an outcome to be ended with, and only a
\* script that is done with its tables leaves a load behind.
ItemPcs == RunPcs \ {"preflight", "register", "table"}

ScriptOK(s) ==
  /\ script[s].item >= 1
  /\ script[s].pc \in ItemPcs => PlanLeft(s)
  /\ script[s].pc \in ControlPcs => script[s].ret # "none"
  /\ script[s].pc \in EndPcs => script[s].outcome # "none"
  /\ script[s].late => PlanLeft(s) /\ script[s].pc \in EndPcs \cup {"exited", "killed"}

ScriptsOK == \A s \in Scripts : ScriptOK(s)
=============================================================================
