----------------------------- MODULE TableProgress -----------------------------
(***************************************************************************)
(* Why the rows of run_tables, the rows of the target, the staged objects  *)
(* and the events agree: where a script is says what they hold for each    *)
(* item of its plan.  The invariant here is inductive together with that   *)
(* of MigrationSystem, and the argument for DoneIsComplete,                *)
(* EventsFollowTables, LandsOnlyWhileRunning, StagedUntilLanded and        *)
(* CheckpointSound.  It needs fresh run ids and a plan that lists each     *)
(* table once.                                                             *)
(***************************************************************************)
EXTENDS MigrationSystem

\* The script, in local state x, has not registered item i, has not begun it,
\* is at work on it, or is done with it.
BeforeRun == {"new", "refused", "insert", "started", "preflight"}
Unregistered(x, i) == \/ x.pc \in BeforeRun
                      \/ x.pc = "register" /\ i >= x.item
Waiting(x, i) == \/ x.pc = "register" /\ i < x.item
                 \/ x.pc = "table" /\ i >= x.item
                 \/ x.pc \in ItemPcs /\ i > x.item
Current(x, i) == x.pc \in ItemPcs /\ i = x.item
Passed(x, i)  == \/ x.pc \in ItemPcs \cup {"table"} /\ i < x.item
                 \/ x.pc = "finish" /\ x.outcome = "done"

\* On the staged path: how far it is with its item.
Controls(x, ret) == x.pc \in ControlPcs /\ x.ret = ret
NotUnloaded(x) == x.pc \in {"unloading", "unload"} \/ Controls(x, "unloading")
NotLoaded(x) == \/ NotUnloaded(x) \/ Controls(x, "loading")
                \/ x.pc \in {"staged", "loading", "baseline", "load"}
Loaded(x)  == \/ x.pc \in {"countLoaded", "validating", "compare", "cleanup"}
              \/ Controls(x, "validating")
Counted(x) == \/ x.pc \in {"validating", "compare", "cleanup", "recordLoad"}
              \/ Controls(x, "validating")
Recording  == {"clearPhase", "tableDone", "sayTableDone"}

PathFits(x, strategy) ==
  /\ x.pc \in DirectPcs => strategy = "direct"
  /\ x.pc \in StagedPcs => strategy # "direct"
  /\ x.pc \in ControlPcs => (strategy = "direct" <=> x.ret = "insertBatch")

DirectFits(x, row, rows) ==
  /\ row.phase = "none"
  /\ rows = row.done + (IF x.pc = "recordBatch" THEN x.batch ELSE 0)

StagedFits(x, row, rows, objects, held) ==
  /\ NotUnloaded(x) => objects = 0
  /\ NotLoaded(x) => rows = 0
  /\ Loaded(x) => rows = objects
  /\ x.pc = "load" => x.base <= held
  /\ x.pc = "countLoaded" => x.base + rows <= held
  /\ Counted(x) => rows <= x.loaded /\ x.loaded <= held
  /\ x.pc \in {"cleanup", "recordLoad"} => row.total \in {Unknown, 0, x.loaded}
  /\ x.pc \in Recording => row.done \in rows..held /\ row.total \in {Unknown, 0, row.done}
  /\ x.pc \notin Recording => row.done = 0
  /\ x.pc \in {"tableDone", "sayTableDone"} => row.phase = "none"

Complete(row, strategy, rows) ==
  /\ row.phase = "none" /\ row.done >= rows
  /\ strategy # "direct" => row.total \in {Unknown, 0, row.done}

\* The row of an item, with the rows that its run has landed, the rows of its
\* objects and those that its target holds.
ItemFits(x, i, item, row, rows, objects, held) ==
  /\ Unregistered(x, i) => row.status = "absent" /\ rows = 0 /\ objects = 0
  /\ Waiting(x, i) => /\ row.status = "pending" /\ row.phase = "none" /\ row.done = 0
                      /\ rows = 0 /\ objects = 0
  /\ Passed(x, i) => row.status = "done"
  /\ Current(x, i) =>
       /\ row.status = IF x.pc = "sayTableDone" THEN "done" ELSE "running"
       /\ PathFits(x, item.strategy)
       /\ IF item.strategy = "direct" THEN DirectFits(x, row, rows)
          ELSE StagedFits(x, row, rows, objects, held)
  /\ row.status = "done" => Complete(row, item.strategy, rows)
  /\ x.late /\ i = x.item =>
       row.status \in {"failed", "absent"} /\ row.done = 0 /\ item.strategy # "direct"
  /\ row.status # "absent" =>
       IF item.strategy = "direct" THEN rows - row.done \in 0..BatchSize
       ELSE row.done \in {0} \cup rows..held

TableDone(t) == [kind |-> "table_done", table |-> t]

\* What is said of an item.
SayingFits(x, i, row, said) ==
  said => /\ ~Unregistered(x, i) /\ ~Waiting(x, i) /\ ~Current(x, i)
          /\ row.status \in {"done", "absent"}

OutcomeFits(x, status, said) ==
  /\ [kind |-> "done"] \in said =>
       /\ x.pc \in EndPcs \cup {"exited", "killed"}
       /\ x.outcome \in {"done", "failed"} /\ status \in {"done", "failed", "absent"}
  /\ [kind |-> "failed"] \in said =>
       /\ x.pc \in {"logFinished", "exited", "killed"}
       /\ x.outcome = "failed" /\ status \in {"failed", "absent"}
  /\ [kind |-> "cancelled"] \in said =>
       /\ x.pc \in EndPcs \cup {"exited", "killed"} /\ x.outcome = "cancelled"
  /\ x.late => /\ x.outcome = "failed" /\ status \in {"running", "failed", "absent"}
               /\ x.pc = "finish" => status = "running"

\* A run and the rows of its tables are those of a script.
RowsHaveScripts ==
  \A r \in Runs :
    /\ RunExists(r) => \E s \in Scripts : RunOf[s] = r
    /\ \A t \in Tables : TableExists(r, t) =>
         \E s \in Scripts : RunOf[s] = r /\ \E i \in DOMAIN Plan[s] : Plan[s][i].table = t

ItemFollows(s, i) ==
  LET r    == RunOf[s]
      item == Plan[s][i]
      row  == runTables[r][item.table]
  IN /\ ItemFits(script[s], i, item, row, landed[r][item.table],
                 staged[r][item.table], target[item.target])
     /\ SayingFits(script[s], i, row, TableDone(item.table) \in Said(r))
     /\ runs[r].status = "done" => row.status = "done"

TablesFollow(s) ==
  /\ script[s].batch <= BatchSize
  /\ script[s].pc \in BeforeRun => script[s].item = 1
  /\ OutcomeFits(script[s], runs[RunOf[s]].status, Said(RunOf[s]))
  /\ \A i \in DOMAIN Plan[s] : ItemFollows(s, i)

TablesFollowScripts == RowsHaveScripts /\ \A s \in Scripts : TablesFollow(s)

-----------------------------------------------------------------------------
(* What the rows of batches hold: the argument for the sum of CheckpointSound. *)

BatchesOf(r, t) == {b \in batches[r] : b.table = t}

NotBegun(x, i) == Unregistered(x, i) \/ Waiting(x, i)
AtWork(x, i)   == Current(x, i) /\ x.pc \notin Recording

\* An item has no batch before its first, a staged one none before its only one, and
\* the next number of a direct one is new.
BatchesFit(x, i, item, mine) ==
  /\ NotBegun(x, i) => mine = {}
  /\ AtWork(x, i) => IF item.strategy = "direct" THEN \A b \in mine : b.n < x.n
                     ELSE mine = {}

BatchesFollowScripts ==
  /\ \A r \in Runs : IsFiniteSet(batches[r])
  /\ \A s \in Scripts : \A i \in DOMAIN Plan[s] :
       BatchesFit(script[s], i, Plan[s][i], BatchesOf(RunOf[s], Plan[s][i].table))

\* Where each script is says what the tables of the database hold for its items.
ItemsFollowScripts == TablesFollowScripts /\ BatchesFollowScripts
=============================================================================
