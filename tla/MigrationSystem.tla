--------------------------- MODULE MigrationSystem ---------------------------
(***************************************************************************)
(* Migration scripts and the control API over one state store.             *)
(*                                                                         *)
(* The dashboard is the user here: it may call any handler at any time, in *)
(* any order.  Fairness is what the operating system gives to a script     *)
(* that is alive: if it can take a step it takes one.  Nothing obliges a   *)
(* user to call, a handler to finish, a script to be launched, an          *)
(* operation to fail or a process to be killed.                            *)
(***************************************************************************)
EXTENDS Migrator, ControlApi, FiniteSetsExt

vars == <<storeVars, migratorVars, apiVars>>

Init == StoreInit /\ MigratorInit /\ ApiInit

Next ==
  \/ MigratorNext /\ UNCHANGED apiVars
  \/ ApiNext /\ UNCHANGED migratorVars

Spec == Init /\ [][Next]_vars

Fairness == \A s \in Scripts : WF_vars(Proceed(s) /\ UNCHANGED apiVars)

FairSpec == Spec /\ Fairness

\* The prompts build each run_id from the clock (migrate-<db>-<epoch>), so no
\* two scripts use the same one.
FreshIds == \A a, b \in Scripts : RunOf[a] = RunOf[b] => a = b

\* No script lists a table twice: run_tables has one row for a run and a table.
TablesOnce ==
  \A s \in Scripts : \A i, j \in DOMAIN Plan[s] :
    Plan[s][i].table = Plan[s][j].table => i = j

TypeOK == StoreTypeOK /\ MigratorTypeOK /\ ApiTypeOK

-----------------------------------------------------------------------------
(* Safety *)

\* At most one run is 'running' or 'paused': the promise of create_run and
\* of the Migrator class.  It needs two constructions never to overlap.
OneActiveRun == \A a, b \in ActiveRuns : a = b

Recorded(r, t) ==
  MapThenSumSet(LAMBDA b : b.rows, {b \in batches[r] : b.table = t})

\* The checkpoint of a table (rows_done) is the sum of its batch rows.
CheckpointAddsUp ==
  \A r \in Runs, t \in Tables : TableExists(r, t) =>
    runTables[r][t].done = Recorded(r, t)

\* On the direct path it never runs ahead of the target and lags by at most the
\* batch in hand; on a staged path it is 0 or counts every row of the load, never
\* more than the target holds.
CheckpointInBounds ==
  \A s \in Scripts : \A i \in DOMAIN Plan[s] :
    LET r == RunOf[s]
        t == Plan[s][i].table
        done == runTables[r][t].done
    IN TableExists(r, t) =>
         IF Plan[s][i].strategy = "direct"
         THEN landed[r][t] - done \in 0..BatchSize
         ELSE done \in {0} \cup landed[r][t]..target[Plan[s][i].target]

CheckpointSound == CheckpointAddsUp /\ CheckpointInBounds

\* A run reported 'done' has every table of its plan 'done', out of its
\* phases, with every row that landed accounted for; and a staged table is
\* 'done' only with the number of rows that was registered for it.
DoneIsComplete ==
  \A s \in Scripts : \A i \in DOMAIN Plan[s] :
    LET row == runTables[RunOf[s]][Plan[s][i].table] IN
    /\ runs[RunOf[s]].status = "done" => row.status = "done"
    /\ row.status = "done" =>
         /\ row.phase = "none"
         /\ row.done >= landed[RunOf[s]][Plan[s][i].table]
         /\ Plan[s][i].strategy # "direct" => row.total \in {Unknown, 0, row.done}

Said(r) == {events[r][i] : i \in DOMAIN events[r]}

\* The event log never announces what the tables do not say yet: a reader that
\* refetches the run on a 'done', 'failed' or 'table_done' event finds it so
\* (unless the run has been deleted, or demoted after its 'done').
EventsFollowTables ==
  \A r \in Runs :
    /\ [kind |-> "done"] \in Said(r) =>
         runs[r].status \in {"done", "failed", "absent"}
    /\ [kind |-> "failed"] \in Said(r) => runs[r].status \in {"failed", "absent"}
    /\ \A t \in Tables :
         [kind |-> "table_done", table |-> t] \in Said(r) =>
            runTables[r][t].status \in {"done", "absent"}

-----------------------------------------------------------------------------
(* Why there is one active run, and why the status column behaves          *)

\* Between its check and its insert a script is alone, and there is nothing
\* active for its run to collide with.
AloneWhileInserting ==
  \A s \in Scripts : At(s, "insert") =>
    /\ ActiveRuns \subseteq {RunOf[s]}
    /\ \A o \in Scripts : At(o, "insert") => o = s

\* The status column says where the script of the run is: absent until it has
\* inserted its run, 'paused' exactly in the pause loop, 'running' through the
\* rest of run(), and, once finish_run has committed, what it committed or
\* nothing if the run has been deleted since.
PausedPcs  == {"sayPaused", "paused", "markRunning"}
WorkingPcs == ({"started"} \cup RunPcs) \ (PausedPcs \cup {"sayCancelled"})

StatusFits(x, status) ==
  /\ x.pc \in {"new", "refused", "insert"} => status = "absent"
  /\ x.pc \in PausedPcs => status = "paused"
  /\ x.pc = "sayCancelled" => status \in ActiveStatus
  /\ x.pc \in WorkingPcs => status = "running"
  /\ x.pc = "finish" =>
       \/ status = "running"
       \/ status = "paused" /\ x.outcome # "done"
       \/ status \in {"done", "absent"} /\ x.outcome = "failed"
  /\ x.pc \in {"sayFinished", "logFinished", "exited"} =>
       status \in {x.outcome, "absent"}

StatusFollowsScript ==
  \A s \in Scripts : StatusFits(script[s], runs[RunOf[s]].status)

\* A delete that has passed its check finds the run still ended, and no script
\* about to create it.
DeletesAreSafe ==
  \A c \in Callers : request[c] # NoRequest =>
    /\ \A s \in Scripts : RunOf[s] = request[c].run =>
         script[s].pc \notin {"new", "refused", "insert"}
    /\ request[c].op = "delete" => ~IsActive(request[c].run)

\* The inductive invariant: implied by no test of the code, it is the argument
\* for OneActiveRun and ImplementsLifecycle.
IInv ==
  /\ TypeOK /\ ScriptsOK /\ RowsAgree
  /\ OneActiveRun /\ AloneWhileInserting
  /\ StatusFollowsScript /\ DeletesAreSafe

-----------------------------------------------------------------------------
(* What a step may not do *)

\* Rows reach the target only under a run that is 'running' and has not
\* announced its cancellation: nothing moves while the dashboard shows PAUSED,
\* 'cancelled' or 'done'.  Under a 'failed' run rows may still arrive, from the
\* load of a staged table that its script gave up on and from nothing else.
LandsOnlyWhileRunning ==
  [][\A r \in Runs : landed'[r] # landed[r] =>
       /\ [kind |-> "cancelled"] \notin Said(r)
       /\ \/ runs[r].status = "running"
          \/ /\ runs[r].status \in {"failed", "absent"}
             /\ \E s \in Scripts : RunOf[s] = r /\ script[s].late]_vars

\* Staged objects are deleted only once all their rows are in the target.
StagedUntilLanded ==
  [][\A r \in Runs, t \in Tables :
       staged[r][t] > 0 /\ staged'[r][t] = 0 => landed[r][t] = staged[r][t]]_vars

\* The status column as its readers may understand it.
Lifecycle == INSTANCE RunLifecycle WITH status <- [r \in Runs |-> runs[r].status]
ImplementsLifecycle == Lifecycle!Spec

-----------------------------------------------------------------------------
(* Liveness *)

\* A script comes to an end, or waits in a pause that the flag still asks for: no
\* order of requests and failures leaves it working for ever, or paused for ever
\* once it is resumed, cancelled or deleted.
ScriptsSettle ==
  \A s \in Scripts :
    <>[](\/ script[s].pc \in StoppedPcs
         \/ At(s, "paused") /\ ControlFlag(RunOf[s]) = "pause")

-----------------------------------------------------------------------------
(* What a message of the code claims and the code does not do *)

\* state.py:211 "Cancel or finish it before starting a new one": once the
\* active run is cancelled it stops being active.
CancelFreesTheSlot ==
  \A r \in Runs : (IsActive(r) /\ controls[r] = "cancel") ~>
                    (~IsActive(r) \/ controls[r] # "cancel")
=============================================================================
