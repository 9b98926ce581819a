----------------------------- MODULE Tables_proofs -----------------------------
(***************************************************************************)
(* What the rows of run_tables and of batches, the target, the bucket and  *)
(* the events say of a run, when constructions never overlap               *)
(* (SerialDispatch), no two scripts use one run id (FreshIds) and no plan  *)
(* lists a table twice (TablesOnce).  TablesFollowScripts is inductive     *)
(* beside the invariant of MigrationSystem_proofs; a step at work on an    *)
(* item writes the row, the objects and the landed rows of that item only  *)
(* (ItemMoves).  BatchesFollowScripts is inductive beside it: a batch that *)
(* is recorded has a new number, so the checkpoint stays their sum.        *)
(***************************************************************************)
EXTENDS MigrationSystem_proofs, TableProgress, FiniteSetTheorems

FInv == LInv /\ TablesFollowScripts

-----------------------------------------------------------------------------
(* Events *)

LEMMA SaidAppend ==
  ASSUME StoreTypeOK, NEW r \in Runs, NEW e, WriteEvent(r, e)
  PROVE  /\ Said(r)' = Said(r) \cup {e}
         /\ \A o \in Runs : o # r => Said(o)' = Said(o)
  <1>1. ASSUME NEW q \in Seq(EventKinds), NEW p, p = Append(q, e)
        PROVE  {p[i] : i \in DOMAIN p} = {q[i] : i \in DOMAIN q} \cup {e}
    <2>1. /\ Len(p) = Len(q) + 1 /\ DOMAIN p = 1 .. Len(p) /\ DOMAIN q = 1 .. Len(q)
          /\ Len(q) \in Nat /\ p[Len(q) + 1] = e
          /\ \A i \in 1 .. Len(q) : p[i] = q[i]
      BY <1>1
    <2> QED
      BY <2>1
  <1>2. events' = [events EXCEPT ![r] = Append(@, e)] /\ events \in [Runs -> Seq(EventKinds)]
    BY DEF WriteEvent, StoreTypeOK
  <1>3. events[r] \in Seq(EventKinds) /\ events'[r] = Append(events[r], e)
    BY <1>2
  <1>4. Said(r)' = Said(r) \cup {e}
    BY <1>1, <1>3 DEF Said
  <1> QED
    BY <1>2, <1>4 DEF Said

LEMMA SaidStays ==
  ASSUME UNCHANGED events
  PROVE  \A r \in Runs : Said(r)' = Said(r)
  BY DEF Said

-----------------------------------------------------------------------------
(* What the writes of a row of run_tables do *)

OtherRowsStay(r, t) ==
  \A o \in Runs, u \in Tables : (o # r \/ u # t) => runTables'[o][u] = runTables[o][u]

LEMMA StatusWritten ==
  ASSUME StoreTypeOK, NEW r \in Runs, NEW t \in Tables, NEW st, SetTableStatus(r, t, st)
  PROVE  /\ OtherRowsStay(r, t)
         /\ UNCHANGED <<runs, batches, events>>
         /\ ~TableExists(r, t) => runTables'[r][t] = runTables[r][t]
         /\ TableExists(r, t) =>
              /\ runTables'[r][t].status = st
              /\ runTables'[r][t].total = runTables[r][t].total
              /\ runTables'[r][t].done = runTables[r][t].done
              /\ runTables'[r][t].phase = runTables[r][t].phase
  <1>1. runTables \in [Runs -> [Tables -> TableRow]] /\ runTables[r][t] \in TableRow
    BY DEF StoreTypeOK
  <1> QED
    BY <1>1 DEF SetTableStatus, OtherRowsStay, TableRow

LEMMA PhaseWritten ==
  ASSUME StoreTypeOK, NEW r \in Runs, NEW t \in Tables, NEW ph, SetTablePhase(r, t, ph)
  PROVE  /\ OtherRowsStay(r, t)
         /\ UNCHANGED <<runs, batches, events>>
         /\ TableExists(r, t) =>
              /\ runTables'[r][t].status = runTables[r][t].status
              /\ runTables'[r][t].total = runTables[r][t].total
              /\ runTables'[r][t].done = runTables[r][t].done
              /\ runTables'[r][t].phase = ph
  <1>1. runTables \in [Runs -> [Tables -> TableRow]] /\ runTables[r][t] \in TableRow
    BY DEF StoreTypeOK
  <1> QED
    BY <1>1 DEF SetTablePhase, OtherRowsStay, TableRow

LEMMA BatchWritten ==
  ASSUME StoreTypeOK, NEW r \in Runs, NEW t \in Tables, NEW n, NEW rows,
         RecordBatch(r, t, n, rows)
  PROVE  /\ OtherRowsStay(r, t)
         /\ UNCHANGED <<runs, events>>
         /\ TableExists(r, t) =>
              /\ runTables'[r][t].status = runTables[r][t].status
              /\ runTables'[r][t].total = runTables[r][t].total
              /\ runTables'[r][t].done = runTables[r][t].done + rows
              /\ runTables'[r][t].phase = runTables[r][t].phase
  <1>1. runTables \in [Runs -> [Tables -> TableRow]] /\ runTables[r][t] \in TableRow
    BY DEF StoreTypeOK
  <1> QED
    BY <1>1 DEF RecordBatch, OtherRowsStay, TableRow

LEMMA LoadWritten ==
  ASSUME StoreTypeOK, NEW r \in Runs, NEW t \in Tables, NEW rows,
         RecordStagedLoad(r, t, rows)
  PROVE  /\ OtherRowsStay(r, t)
         /\ UNCHANGED <<runs, events>>
         /\ TableExists(r, t) =>
              /\ runTables'[r][t].status = runTables[r][t].status
              /\ runTables'[r][t].total = runTables[r][t].total
              /\ runTables'[r][t].done = rows
              /\ runTables'[r][t].phase = runTables[r][t].phase
  <1>1. runTables \in [Runs -> [Tables -> TableRow]] /\ runTables[r][t] \in TableRow
    BY DEF StoreTypeOK
  <1> QED
    BY <1>1 DEF RecordStagedLoad, OtherRowsStay, TableRow

USE DEF LivePcs, StoppedPcs, ConstructPcs, RunPcs, EndPcs, ControlPcs, DirectPcs,
        StagedPcs, TablePcs, PausedPcs, WorkingPcs, ItemPcs, BeforeRun

-----------------------------------------------------------------------------
(* Scripts and items that a step is not about *)

Telling == {[kind |-> "done"], [kind |-> "failed"], [kind |-> "cancelled"]}
             \cup {TableDone(t) : t \in Tables}

\* Nothing of the other runs changes, of their items nothing that matters here.
OnlyRun(r) ==
  \A o \in Runs : o # r =>
    /\ runs'[o] = runs[o]
    /\ \A e \in Telling : e \in Said(o)' <=> e \in Said(o)
    /\ \A u \in Tables : /\ runTables'[o][u] = runTables[o][u]
                         /\ landed'[o][u] = landed[o][u]
                         /\ staged'[o][u] = staged[o][u]

TargetGrows == \A k \in TargetTables : target'[k] >= target[k]

LEMMA HeldGrows ==
  ASSUME NEW x, NEW i, NEW item, NEW row \in TableRow, NEW rows \in Nat, NEW objects \in Nat,
         NEW held \in Nat, NEW more \in Nat, held <= more, x \in ScriptState,
         ItemFits(x, i, item, row, rows, objects, held)
  PROVE  ItemFits(x, i, item, row, rows, objects, more)
  <1>1. StagedFits(x, row, rows, objects, held) => StagedFits(x, row, rows, objects, more)
    BY DEF StagedFits, ScriptState, TableRow
  <1>2. row.done \in rows .. held => row.done \in rows .. more
    BY DEF TableRow
  <1> QED
    BY <1>1, <1>2 DEF ItemFits

\* An item of a plan, and what there is of it.
LEMMA ItemTypes ==
  ASSUME MInv, NEW s \in Scripts, NEW i \in DOMAIN Plan[s]
  PROVE  /\ Plan[s][i] \in PlanItem
         /\ Plan[s][i].table \in Tables /\ Plan[s][i].target \in TargetTables
         /\ RunOf[s] \in Runs /\ i \in Nat /\ i >= 1
         /\ runTables[RunOf[s]][Plan[s][i].table] \in TableRow
         /\ landed[RunOf[s]][Plan[s][i].table] \in Nat
         /\ staged[RunOf[s]][Plan[s][i].table] \in Nat
         /\ target[Plan[s][i].target] \in Nat
  <1>1. Plan[s] \in Seq(PlanItem) /\ RunOf[s] \in Runs
    BY MigratorAssumptions
  <1>2. Plan[s][i] \in PlanItem /\ i \in Nat /\ i >= 1
    BY <1>1
  <1>3. Plan[s][i].table \in Tables /\ Plan[s][i].target \in TargetTables
    BY <1>2 DEF PlanItem
  <1> QED
    BY <1>1, <1>2, <1>3 DEF MInv, StoreTypeOK, MigratorTypeOK

\* A step that changes nothing of all this.
LEMMA NothingFollows ==
  ASSUME TablesFollowScripts, UNCHANGED <<script, runs, runTables, landed, staged, target>>,
         \A r \in Runs : \A e \in Telling : e \in Said(r)' <=> e \in Said(r)
  PROVE  TablesFollowScripts'
  <1>1. RowsHaveScripts'
    BY DEF TablesFollowScripts, RowsHaveScripts, RunExists, TableExists
  <1>2. ASSUME NEW s \in Scripts PROVE TablesFollow(s)'
    <2>1. TablesFollow(s) /\ RunOf[s] \in Runs /\ Plan[s] \in Seq(PlanItem)
      BY MigratorAssumptions DEF TablesFollowScripts
    <2>2. OutcomeFits(script[s], runs[RunOf[s]].status, Said(RunOf[s]))'
      BY <2>1 DEF TablesFollow, OutcomeFits, Telling
    <2>3. ASSUME NEW i \in DOMAIN Plan[s] PROVE ItemFollows(s, i)'
      <3>1. Plan[s][i] \in PlanItem
        BY <2>1
      <3>2. Plan[s][i].table \in Tables
        BY <3>1 DEF PlanItem
      <3>3. TableDone(Plan[s][i].table) \in Said(RunOf[s])'
              <=> TableDone(Plan[s][i].table) \in Said(RunOf[s])
        BY <2>1, <3>2 DEF Telling
      <3> QED
        BY <2>1, <3>3 DEF TablesFollow, ItemFollows, SayingFits
    <2> QED
      BY <2>1, <2>2, <2>3 DEF TablesFollow
  <1> QED
    BY <1>1, <1>2 DEF TablesFollowScripts

LEMMA OtherScripts ==
  ASSUME FreshIds, FInv, MInv', NEW s \in Scripts, OthersKeep(s), OnlyRun(RunOf[s]), TargetGrows
  PROVE  \A o \in Scripts : o # s => TablesFollow(o)'
  <1> SUFFICES ASSUME NEW o \in Scripts, o # s PROVE TablesFollow(o)'
    OBVIOUS
  <1>0. MInv
    BY DEF FInv, LInv, OInv, RInv, TInv
  <1>1. RunOf[o] \in Runs /\ RunOf[o] # RunOf[s] /\ TablesFollow(o) /\ script'[o] = script[o]
    BY MigratorAssumptions DEF FreshIds, FInv, TablesFollowScripts, OthersKeep
  <1>2. /\ runs'[RunOf[o]] = runs[RunOf[o]]
        /\ \A e \in Telling : e \in Said(RunOf[o])' <=> e \in Said(RunOf[o])
    BY <1>1 DEF OnlyRun
  <1>3. OutcomeFits(script[o], runs[RunOf[o]].status, Said(RunOf[o]))'
    BY <1>1, <1>2 DEF TablesFollow, OutcomeFits, Telling
  <1>4. ASSUME NEW i \in DOMAIN Plan[o] PROVE ItemFollows(o, i)'
    <2> DEFINE r == RunOf[o]
               t == Plan[o][i].table
               k == Plan[o][i].target
    <2>1. /\ r \in Runs /\ t \in Tables /\ k \in TargetTables
          /\ runTables[r][t] \in TableRow /\ landed[r][t] \in Nat /\ staged[r][t] \in Nat
          /\ target[k] \in Nat
      BY <1>0, ItemTypes
    <2>2. /\ runTables'[r][t] = runTables[r][t] /\ landed'[r][t] = landed[r][t]
          /\ staged'[r][t] = staged[r][t]
          /\ target'[k] >= target[k]
      BY <1>1, <2>1 DEF OnlyRun, TargetGrows
    <2>3. target'[k] \in Nat /\ script[o] \in ScriptState
      BY <1>0, <2>1 DEF MInv, MigratorTypeOK
    <2>4. ItemFollows(o, i)
      BY <1>1 DEF TablesFollow
    <2>5. ItemFits(script[o], i, Plan[o][i], runTables[r][t], landed[r][t], staged[r][t], target'[k])
      BY Zenon, <2>1, <2>2, <2>3, <2>4, HeldGrows DEF ItemFollows
    <2>6. TableDone(t) \in Said(r)' <=> TableDone(t) \in Said(r)
      BY <1>2, <2>1 DEF Telling
    <2> QED
      BY Zenon, <1>1, <1>2, <2>2, <2>4, <2>5, <2>6 DEF ItemFollows, SayingFits
  <1> QED
    BY <1>1, <1>3, <1>4 DEF TablesFollow

-----------------------------------------------------------------------------
(* A script at work on an item *)

AtItem(s) == PlanLeft(s) /\ script[s].pc \in ItemPcs \cup {"table"}

\* The other items of its plan are left alone.
OnlyItem(s) ==
  \A u \in Tables : u # Item(s).table =>
    /\ runTables'[RunOf[s]][u] = runTables[RunOf[s]][u]
    /\ landed'[RunOf[s]][u] = landed[RunOf[s]][u]
    /\ staged'[RunOf[s]][u] = staged[RunOf[s]][u]

\* It stays at its item, or gives up on the run.
StaysAtItem(x, y) ==
  /\ y.item = x.item /\ y.batch <= BatchSize
  /\ \/ y.pc \in ItemPcs
     \/ y.pc = "finish" /\ y.outcome = "failed"
  /\ y.late => y.pc = "finish"

LEMMA AtItemFacts ==
  ASSUME FInv, NEW s \in Scripts, AtItem(s)
  PROVE  LET r == RunOf[s]
             i == script[s].item
             t == Item(s).table
             k == Item(s).target
         IN /\ script[s] \in ScriptState /\ ScriptOK(s) /\ ~script[s].late
            /\ script \in [Scripts -> ScriptState] /\ script[s].batch <= BatchSize
            /\ i \in DOMAIN Plan[s] /\ Item(s) = Plan[s][i] /\ Item(s) \in PlanItem
            /\ r \in Runs /\ t \in Tables /\ k \in TargetTables
            /\ runTables[r][t] \in TableRow /\ TableExists(r, t)
            /\ landed[r][t] \in Nat /\ staged[r][t] \in Nat /\ target[k] \in Nat
            /\ runs[r].status \in ActiveStatus
            /\ Waiting(script[s], i) \/ Current(script[s], i)
            /\ ItemFits(script[s], i, Item(s), runTables[r][t], landed[r][t],
                        staged[r][t], target[k])
  <1> USE DEF FInv, LInv, OInv, RInv, TInv
  <1>0. MInv
    OBVIOUS
  <1>1. script[s] \in ScriptState /\ ScriptOK(s) /\ script \in [Scripts -> ScriptState]
    BY DEF MInv, MigratorTypeOK, ScriptsOK
  <1>2. script[s].item \in DOMAIN Plan[s] /\ Item(s) = Plan[s][script[s].item]
    BY <1>1, MigratorAssumptions DEF AtItem, PlanLeft, ScriptOK, ScriptState, Item
  <1>3. ~script[s].late
    BY <1>1 DEF ScriptOK, AtItem
  <1>4. StatusFits(script[s], runs[RunOf[s]].status)
    BY DEF StatusFollowsScript
  <1>5. runs[RunOf[s]].status \in ActiveStatus
    BY <1>4 DEF StatusFits, AtItem, ActiveStatus
  <1>6. TablesFollow(s)
    BY DEF TablesFollowScripts
  <1>7. ItemFollows(s, script[s].item) /\ script[s].batch <= BatchSize
    BY <1>2, <1>6 DEF TablesFollow
  <1>8. Waiting(script[s], script[s].item) \/ Current(script[s], script[s].item)
    BY <1>1 DEF Waiting, Current, AtItem, ScriptState
  <1>9. runTables[RunOf[s]][Item(s).table].status # "absent"
    BY Zenon, <1>2, <1>7, <1>8 DEF ItemFollows, ItemFits
  <1> QED
    BY Zenon, <1>0, <1>1, <1>2, <1>3, <1>5, <1>7, <1>8, <1>9, ItemTypes DEF ItemFollows, TableExists

LEMMA ItemMoves ==
  ASSUME FreshIds, TablesOnce, FInv, MInv', NEW s \in Scripts, AtItem(s), OthersKeep(s),
         OnlyRun(RunOf[s]), OnlyItem(s), TargetGrows,
         StaysAtItem(script[s], script'[s]),
         runs'[RunOf[s]].status \in ActiveStatus,
         \A e \in Telling : e \in Said(RunOf[s])' <=> e \in Said(RunOf[s]),
         script'[s].late => script'[s].outcome = "failed" /\ runs'[RunOf[s]].status = "running",
         ItemFits(script'[s], script[s].item, Item(s), runTables'[RunOf[s]][Item(s).table],
                  landed'[RunOf[s]][Item(s).table], staged'[RunOf[s]][Item(s).table],
                  target'[Item(s).target])
  PROVE  TablesFollowScripts'
  <1> DEFINE r == RunOf[s]
             x == script[s]
             y == script'[s]
             i == script[s].item
  <1>0. MInv /\ TablesFollow(s) /\ RowsHaveScripts
    BY DEF FInv, LInv, OInv, RInv, TInv, TablesFollowScripts
  <1>1. /\ i \in DOMAIN Plan[s] /\ Item(s) = Plan[s][i] /\ r \in Runs /\ x \in ScriptState
        /\ runs[r].status \in ActiveStatus /\ Item(s).table \in Tables
        /\ Waiting(x, i) \/ Current(x, i)
    BY AtItemFacts
  <1>2. OutcomeFits(x, runs[r].status, Said(r)) /\ x.pc \in ItemPcs \cup {"table"}
    BY <1>0 DEF TablesFollow, AtItem
  <1>3. OutcomeFits(y, runs'[r].status, Said(r)')
    <2>1. \A e \in {[kind |-> "done"], [kind |-> "failed"], [kind |-> "cancelled"]} :
            e \notin Said(r)
      BY <1>2 DEF OutcomeFits
    <2>2. \A e \in {[kind |-> "done"], [kind |-> "failed"], [kind |-> "cancelled"]} :
            e \notin Said(r)'
      BY <2>1 DEF Telling
    <2> QED
      BY <2>2 DEF OutcomeFits, StaysAtItem
  <1>4. ASSUME NEW j \in DOMAIN Plan[s] PROVE ItemFollows(s, j)'
    <2> DEFINE t == Plan[s][j].table
               k == Plan[s][j].target
    <2>0. ItemFollows(s, j)
      BY <1>0 DEF TablesFollow
    <2>1. /\ t \in Tables /\ k \in TargetTables /\ j \in Nat
          /\ runTables[r][t] \in TableRow /\ landed[r][t] \in Nat /\ staged[r][t] \in Nat
          /\ target[k] \in Nat /\ target'[k] \in Nat
      BY <1>0, ItemTypes DEF MInv, MigratorTypeOK
    <2>2. runs'[r].status # "done"
      BY DEF ActiveStatus
    <2>3. TableDone(t) \in Said(r)' <=> TableDone(t) \in Said(r)
      BY <2>1 DEF Telling
    <2>4. CASE j = i
      <3>1. TableDone(t) \notin Said(r)
        BY Zenon, <1>1, <2>0, <2>4 DEF ItemFollows, SayingFits
      <3> QED
        BY Zenon, <1>1, <2>2, <2>3, <2>4, <3>1 DEF ItemFollows, SayingFits
    <2>5. CASE j # i
      <3>1. t # Item(s).table
        BY ZenonT(30), <1>1, <2>5 DEF TablesOnce
      <3>2. /\ runTables'[r][t] = runTables[r][t] /\ landed'[r][t] = landed[r][t]
            /\ staged'[r][t] = staged[r][t] /\ target'[k] >= target[k]
        BY <2>1, <3>1 DEF OnlyItem, TargetGrows
      <3>3. ItemFits(x, j, Plan[s][j], runTables[r][t], landed[r][t], staged[r][t], target'[k])
        BY Zenon, <1>1, <2>0, <2>1, <3>2, HeldGrows DEF ItemFollows
      <3>4. i \in Nat /\ y.item = i
        BY ZenonT(30), <1>1 DEF StaysAtItem, ScriptState
      <3>5. /\ ~Unregistered(y, j) /\ ~Current(y, j)
            /\ Waiting(y, j) => Waiting(x, j)
            /\ Passed(y, j) => Passed(x, j)
        BY SMTT(30), <1>2, <2>1, <2>5, <3>4
          DEF Unregistered, Current, Waiting, Passed, StaysAtItem
      <3>6. ItemFits(y, j, Plan[s][j], runTables[r][t], landed[r][t], staged[r][t], target'[k])
        BY Zenon, <2>5, <3>3, <3>4, <3>5 DEF ItemFits
      <3>7. SayingFits(y, j, runTables[r][t], TableDone(t) \in Said(r))
        <4>1. SayingFits(x, j, runTables[r][t], TableDone(t) \in Said(r))
          BY Zenon, <2>0 DEF ItemFollows
        <4> QED
          BY <3>5, <4>1 DEF SayingFits
      <3> QED
        BY Zenon, <2>2, <2>3, <3>2, <3>6, <3>7 DEF ItemFollows, SayingFits
    <2> QED
      BY <2>4, <2>5
  <1>5. RowsHaveScripts'
    <2>1. ASSUME NEW o \in Runs, RunExists(o)' PROVE \E z \in Scripts : RunOf[z] = o
      BY <1>0, <2>1 DEF RowsHaveScripts, RunExists, OnlyRun
    <2>2. ASSUME NEW o \in Runs, NEW u \in Tables, TableExists(o, u)'
          PROVE  \E z \in Scripts : RunOf[z] = o /\ \E j \in DOMAIN Plan[z] : Plan[z][j].table = u
      <3>1. CASE o = r /\ u = Item(s).table
        BY Zenon, <1>1, <3>1
      <3>2. CASE ~(o = r /\ u = Item(s).table)
        BY <1>0, <2>2, <3>2 DEF RowsHaveScripts, TableExists, OnlyRun, OnlyItem
      <3> QED
        BY <3>1, <3>2
    <2> QED
      BY <2>1, <2>2 DEF RowsHaveScripts
  <1>6. TablesFollow(s)'
    BY <1>3, <1>4 DEF TablesFollow, StaysAtItem
  <1> QED
    BY <1>5, <1>6, OtherScripts DEF TablesFollowScripts

\* What ItemFits says of the item at work, for each path.
StatusAt(y, row) == row.status = IF y.pc = "sayTableDone" THEN "done" ELSE "running"

DirectAt(y, item, row, rows) ==
  /\ y.pc \in ItemPcs /\ StatusAt(y, row)
  /\ item.strategy = "direct" /\ PathFits(y, "direct") /\ DirectFits(y, row, rows)

StagedAt(y, item, row, rows, objects, held) ==
  /\ y.pc \in ItemPcs /\ StatusAt(y, row)
  /\ item.strategy # "direct" /\ PathFits(y, item.strategy)
  /\ StagedFits(y, row, rows, objects, held)

LEMMA AtGives ==
  ASSUME NEW x, NEW item, NEW row, NEW rows, NEW objects, NEW held,
         x.pc \in ItemPcs, ItemFits(x, x.item, item, row, rows, objects, held)
  PROVE  \/ DirectAt(x, item, row, rows)
         \/ StagedAt(x, item, row, rows, objects, held)
  BY DEF ItemFits, Current, DirectAt, StagedAt, StatusAt

LEMMA DirectAtFits ==
  ASSUME NEW y \in ScriptState, NEW item, NEW row \in TableRow, NEW rows \in Nat,
         NEW objects, NEW held, ~y.late, y.batch <= BatchSize, DirectAt(y, item, row, rows)
  PROVE  ItemFits(y, y.item, item, row, rows, objects, held)
  <1>1. BatchSize \in Nat /\ y.batch \in Nat /\ y.item \in Nat /\ row.done \in Nat
    BY MigratorAssumptions DEF ScriptState, TableRow
  <1>2. ~Unregistered(y, y.item) /\ ~Waiting(y, y.item) /\ ~Passed(y, y.item)
    BY <1>1 DEF DirectAt, Unregistered, Waiting, Passed
  <1>3. rows - row.done \in 0 .. BatchSize
    BY <1>1 DEF DirectAt, DirectFits
  <1>4. row.status = "done" => Complete(row, "direct", rows)
    BY <1>1 DEF DirectAt, StatusAt, DirectFits, Complete
  <1> QED
    BY <1>2, <1>3, <1>4 DEF DirectAt, StatusAt, ItemFits

LEMMA StagedAtFits ==
  ASSUME NEW y \in ScriptState, NEW item, NEW row \in TableRow, NEW rows \in Nat,
         NEW objects, NEW held, ~y.late, StagedAt(y, item, row, rows, objects, held)
  PROVE  ItemFits(y, y.item, item, row, rows, objects, held)
  <1>1. y.item \in Nat /\ row.done \in Nat
    BY DEF ScriptState, TableRow
  <1>2. ~Unregistered(y, y.item) /\ ~Waiting(y, y.item) /\ ~Passed(y, y.item)
    BY <1>1 DEF StagedAt, Unregistered, Waiting, Passed
  <1>3. row.done \in {0} \cup rows .. held
    BY DEF StagedAt, StagedFits
  <1>4. row.status = "done" => Complete(row, item.strategy, rows)
    BY <1>1 DEF StagedAt, StatusAt, StagedFits, Recording, Complete
  <1> QED
    BY <1>2, <1>3, <1>4 DEF StagedAt, StatusAt, ItemFits

\* The item at work, with what a step leaves of it.
Before(s) ==
  LET r == RunOf[s]
      t == Item(s).table
      k == Item(s).target
  IN \/ DirectAt(script[s], Item(s), runTables[r][t], landed[r][t])
     \/ StagedAt(script[s], Item(s), runTables[r][t], landed[r][t], staged[r][t], target[k])

After(s) ==
  LET r == RunOf[s]
      t == Item(s).table
      k == Item(s).target
  IN \/ DirectAt(script'[s], Item(s), runTables'[r][t], landed'[r][t])
     \/ StagedAt(script'[s], Item(s), runTables'[r][t], landed'[r][t], staged'[r][t],
                 target'[k])

\* A step that goes on with the item.
Works(x, y) == y.item = x.item /\ y.batch <= BatchSize /\ y.pc \in ItemPcs /\ ~y.late

LEMMA WorkFollows ==
  ASSUME FreshIds, TablesOnce, FInv, MInv', NEW s \in Scripts, AtItem(s), OthersKeep(s),
         OnlyRun(RunOf[s]), OnlyItem(s), TargetGrows, Works(script[s], script'[s]), After(s),
         runs'[RunOf[s]].status \in ActiveStatus,
         \A e \in Telling : e \in Said(RunOf[s])' <=> e \in Said(RunOf[s])
  PROVE  TablesFollowScripts'
  <1> DEFINE r == RunOf[s]
             t == Item(s).table
             k == Item(s).target
             y == script'[s]
  <1>1. r \in Runs /\ t \in Tables /\ k \in TargetTables
    BY AtItemFacts
  <1>2. /\ y \in ScriptState /\ runTables'[r][t] \in TableRow /\ landed'[r][t] \in Nat
        /\ y.item = script[s].item
    BY <1>1 DEF MInv, MigratorTypeOK, StoreTypeOK, Works
  <1>3. ItemFits(y, script[s].item, Item(s), runTables'[r][t], landed'[r][t], staged'[r][t],
                 target'[k])
    BY <1>2, DirectAtFits, StagedAtFits DEF After, Works
  <1>4. StaysAtItem(script[s], y)
    BY DEF Works, StaysAtItem
  <1> QED
    BY <1>3, <1>4, ItemMoves DEF Works

\* ... and writes nothing.
LEMMA ReadFollows ==
  ASSUME FreshIds, TablesOnce, FInv, MInv', NEW s \in Scripts, AtItem(s), OthersKeep(s),
         UNCHANGED <<runs, runTables, events, landed, staged, target>>,
         Works(script[s], script'[s]), After(s)
  PROVE  TablesFollowScripts'
  <1>1. \A r \in Runs : Said(r)' = Said(r)
    BY SaidStays
  <1>2. \A k \in TargetTables : target[k] \in Nat
    BY DEF FInv, LInv, OInv, RInv, TInv, MInv, MigratorTypeOK
  <1>3. OnlyRun(RunOf[s]) /\ OnlyItem(s) /\ TargetGrows
    BY <1>1, <1>2 DEF OnlyRun, OnlyItem, TargetGrows
  <1> QED
    BY <1>1, <1>3, AtItemFacts, WorkFollows

LEMMA Working ==
  ASSUME FInv, NEW s \in Scripts, script[s].pc \in ItemPcs
  PROVE  AtItem(s) /\ Before(s)
  <1>1. AtItem(s)
    BY DEF AtItem, FInv, LInv, OInv, RInv, TInv, MInv, ScriptsOK, ScriptOK
  <1> QED
    BY <1>1, AtItemFacts, AtGives DEF Before

LEMMA OpenCursorFollows ==
  ASSUME FreshIds, TablesOnce, FInv, MInv', NEW s \in Scripts, OpenCursor(s)
  PROVE  TablesFollowScripts'
  <1>1. script[s].pc = "open" /\ UNCHANGED <<storeVars, dataVars>>
    BY DEF OpenCursor, At
  <1>2. AtItem(s) /\ Before(s)
    BY <1>1, Working
  <1>3. /\ script'[s].pc = "fetch" /\ script'[s].batch = script[s].batch
        /\ OthersKeep(s) /\ Works(script[s], script'[s])
    BY <1>2, AtItemFacts DEF OpenCursor, Works, OthersKeep, ScriptState
  <1>4. After(s)
    BY <1>1, <1>2, <1>3 DEF Before, After, DirectAt, StagedAt, StatusAt, PathFits, DirectFits,
       storeVars, dataVars
  <1> QED
    BY <1>1, <1>2, <1>3, <1>4, ReadFollows DEF storeVars, dataVars

\* On which path it is.
DirectNow(s) ==
  DirectAt(script[s], Item(s), runTables[RunOf[s]][Item(s).table],
           landed[RunOf[s]][Item(s).table])

StagedNow(s) ==
  StagedAt(script[s], Item(s), runTables[RunOf[s]][Item(s).table],
           landed[RunOf[s]][Item(s).table], staged[RunOf[s]][Item(s).table],
           target[Item(s).target])

LEMMA DirectWorks ==
  ASSUME FInv, NEW s \in Scripts, script[s].pc \in DirectPcs
  PROVE  AtItem(s) /\ DirectNow(s)
  BY Working DEF Before, DirectNow, StagedAt, PathFits

LEMMA StagedWorks ==
  ASSUME FInv, NEW s \in Scripts, script[s].pc \in StagedPcs
  PROVE  AtItem(s) /\ StagedNow(s)
  BY Working DEF Before, StagedNow, DirectAt, PathFits


LEMMA FetchBatchFollows ==
  ASSUME FreshIds, TablesOnce, FInv, MInv', NEW s \in Scripts, FetchBatch(s)
  PROVE  TablesFollowScripts'
  <1>1. script[s].pc = "fetch" /\ UNCHANGED <<storeVars, dataVars>>
    BY DEF FetchBatch, At
  <1>2. AtItem(s) /\ DirectNow(s)
    BY <1>1, DirectWorks
  <1>3. /\ script'[s].pc = "control" /\ script'[s].ret = "insertBatch"
        /\ script'[s].batch <= BatchSize
        /\ script'[s].item = script[s].item /\ script'[s].late = script[s].late
        /\ OthersKeep(s)
    BY <1>2, AtItemFacts, MigratorAssumptions DEF FetchBatch, OthersKeep, ScriptState, Lesser
  <1>4. Works(script[s], script'[s])
    BY <1>2, <1>3, AtItemFacts DEF Works, ScriptState
  <1>5. After(s)
    BY <1>1, <1>2, <1>3, AtItemFacts DEF DirectNow, After, DirectAt, StatusAt, PathFits, DirectFits,
       storeVars, dataVars
  <1> QED
    BY <1>1, <1>2, <1>3, <1>4, <1>5, ReadFollows DEF storeVars, dataVars

LEMMA CursorEmptyFollows ==
  ASSUME FreshIds, TablesOnce, FInv, MInv', NEW s \in Scripts, CursorEmpty(s)
  PROVE  TablesFollowScripts'
  <1>1. script[s].pc = "fetch" /\ UNCHANGED <<storeVars, dataVars>>
    BY DEF CursorEmpty, At
  <1>2. AtItem(s) /\ DirectNow(s)
    BY <1>1, DirectWorks
  <1>3. /\ script'[s].pc = "tableDone" /\ script'[s].batch = script[s].batch
        /\ script'[s].item = script[s].item /\ script'[s].late = script[s].late
        /\ OthersKeep(s)
    BY <1>2, AtItemFacts, MigratorAssumptions DEF CursorEmpty, OthersKeep, ScriptState, Goto
  <1>4. Works(script[s], script'[s])
    BY <1>2, <1>3, AtItemFacts DEF Works, ScriptState
  <1>5. After(s)
    BY <1>1, <1>2, <1>3, AtItemFacts DEF DirectNow, After, DirectAt, StatusAt, PathFits, DirectFits,
       storeVars, dataVars
  <1> QED
    BY <1>1, <1>2, <1>3, <1>4, <1>5, ReadFollows DEF storeVars, dataVars

LEMMA CountBaselineFollows ==
  ASSUME FreshIds, TablesOnce, FInv, MInv', NEW s \in Scripts, CountBaseline(s)
  PROVE  TablesFollowScripts'
  <1>1. script[s].pc = "baseline" /\ UNCHANGED <<storeVars, dataVars>>
    BY DEF CountBaseline, At
  <1>2. AtItem(s) /\ StagedNow(s)
    BY <1>1, StagedWorks
  <1>3. /\ script'[s].pc = "load" /\ script'[s].base <= target[Item(s).target]
        /\ script'[s].batch = script[s].batch
        /\ script'[s].item = script[s].item /\ script'[s].late = script[s].late
        /\ OthersKeep(s)
    BY <1>2, AtItemFacts, MigratorAssumptions DEF CountBaseline, OthersKeep, ScriptState
  <1>4. Works(script[s], script'[s])
    BY <1>2, <1>3, AtItemFacts DEF Works, ScriptState
  <1>5. After(s)
    <2> DEFINE r == RunOf[s]
               t == Item(s).table
               k == Item(s).target
    <2>1. StagedFits(script[s], runTables[r][t], landed[r][t], staged[r][t], target[k])
      BY <1>2 DEF StagedNow, StagedAt
    <2>2. script[s] \in ScriptState /\ runTables[r][t] \in TableRow /\ landed[r][t] \in Nat
          /\ staged[r][t] \in Nat /\ target[k] \in Nat
      BY <1>2, AtItemFacts
    <2>3. StagedFits(script'[s], runTables[r][t], landed[r][t], staged[r][t], target[k])
      BY <1>1, <1>3, <2>1, <2>2 DEF StagedFits, NotUnloaded, NotLoaded, Loaded, Counted, Controls,
         Recording, ScriptState, TableRow
    <2> QED
      BY <1>1, <1>2, <1>3, <2>3 DEF StagedNow, After, StagedAt, StatusAt, PathFits,
         storeVars, dataVars
  <1> QED
    BY <1>1, <1>2, <1>3, <1>4, <1>5, ReadFollows DEF storeVars, dataVars

LEMMA CountLoadedFollows ==
  ASSUME FreshIds, TablesOnce, FInv, MInv', NEW s \in Scripts, CountLoaded(s)
  PROVE  TablesFollowScripts'
  <1>1. script[s].pc = "countLoaded" /\ UNCHANGED <<storeVars, dataVars>>
    BY DEF CountLoaded, At
  <1>2. AtItem(s) /\ StagedNow(s)
    BY <1>1, StagedWorks
  <1>3. /\ script'[s].pc = "control" /\ script'[s].ret = "validating"
        /\ target[Item(s).target] - script[s].base >= 0
              => script'[s].loaded = target[Item(s).target] - script[s].base
        /\ script'[s].batch = script[s].batch
        /\ script'[s].item = script[s].item /\ script'[s].late = script[s].late
        /\ OthersKeep(s)
    BY <1>2, AtItemFacts, MigratorAssumptions DEF CountLoaded, OthersKeep, ScriptState
  <1>4. Works(script[s], script'[s])
    BY <1>2, <1>3, AtItemFacts DEF Works, ScriptState
  <1>5. After(s)
    <2> DEFINE r == RunOf[s]
               t == Item(s).table
               k == Item(s).target
    <2>1. StagedFits(script[s], runTables[r][t], landed[r][t], staged[r][t], target[k])
      BY <1>2 DEF StagedNow, StagedAt
    <2>2. script[s] \in ScriptState /\ runTables[r][t] \in TableRow /\ landed[r][t] \in Nat
          /\ staged[r][t] \in Nat /\ target[k] \in Nat
      BY <1>2, AtItemFacts
    <2>3. StagedFits(script'[s], runTables[r][t], landed[r][t], staged[r][t], target[k])
      BY <1>1, <1>3, <2>1, <2>2 DEF StagedFits, NotUnloaded, NotLoaded, Loaded, Counted, Controls,
         Recording, ScriptState, TableRow
    <2> QED
      BY <1>1, <1>2, <1>3, <2>3 DEF StagedNow, After, StagedAt, StatusAt, PathFits,
         storeVars, dataVars
  <1> QED
    BY <1>1, <1>2, <1>3, <1>4, <1>5, ReadFollows DEF storeVars, dataVars

LEMMA CountsMatchFollows ==
  ASSUME FreshIds, TablesOnce, FInv, MInv', NEW s \in Scripts, CountsMatch(s)
  PROVE  TablesFollowScripts'
  <1>1. script[s].pc = "compare" /\ UNCHANGED <<storeVars, dataVars>>
    BY DEF CountsMatch, At
  <1>2. AtItem(s) /\ StagedNow(s)
    BY <1>1, StagedWorks
  <1>3. /\ script'[s].pc = "cleanup" /\ script'[s].loaded = script[s].loaded
        /\ runTables[RunOf[s]][Item(s).table].total \in {Unknown, 0, script[s].loaded}
        /\ script'[s].batch = script[s].batch
        /\ script'[s].item = script[s].item /\ script'[s].late = script[s].late
        /\ OthersKeep(s)
    BY <1>2, AtItemFacts, MigratorAssumptions DEF CountsMatch, OthersKeep, ScriptState, Goto, ExpectedRows
  <1>4. Works(script[s], script'[s])
    BY <1>2, <1>3, AtItemFacts DEF Works, ScriptState
  <1>5. After(s)
    <2> DEFINE r == RunOf[s]
               t == Item(s).table
               k == Item(s).target
    <2>1. StagedFits(script[s], runTables[r][t], landed[r][t], staged[r][t], target[k])
      BY <1>2 DEF StagedNow, StagedAt
    <2>2. script[s] \in ScriptState /\ runTables[r][t] \in TableRow /\ landed[r][t] \in Nat
          /\ staged[r][t] \in Nat /\ target[k] \in Nat
      BY <1>2, AtItemFacts
    <2>3. StagedFits(script'[s], runTables[r][t], landed[r][t], staged[r][t], target[k])
      BY <1>1, <1>3, <2>1, <2>2 DEF StagedFits, NotUnloaded, NotLoaded, Loaded, Counted, Controls,
         Recording, ScriptState, TableRow
    <2> QED
      BY <1>1, <1>2, <1>3, <2>3 DEF StagedNow, After, StagedAt, StatusAt, PathFits,
         storeVars, dataVars
  <1> QED
    BY <1>1, <1>2, <1>3, <1>4, <1>5, ReadFollows DEF storeVars, dataVars

\* A step of _check_controls: the same for both paths.
LEMMA ControlFollows ==
  ASSUME FreshIds, TablesOnce, FInv, MInv', NEW s \in Scripts,
         script[s].pc \in ControlPcs, UNCHANGED <<runTables, dataVars>>,
         OthersKeep(s),
         \A r \in Runs : r # RunOf[s] => runs'[r] = runs[r],
         runs[RunOf[s]].status \in ActiveStatus => runs'[RunOf[s]].status \in ActiveStatus,
         \A r \in Runs : \A e \in Telling : e \in Said(r)' <=> e \in Said(r),
         NEW l \in {script[s].ret} \cup ControlPcs,
         script'[s] = [script[s] EXCEPT !.pc = l]
  PROVE  TablesFollowScripts'
  <1>1. AtItem(s) /\ Before(s)
    BY Working
  <1>2. /\ script[s] \in ScriptState /\ script[s].ret \in ReturnPcs \ {"none"}
        /\ ~script[s].late /\ script[s].batch <= BatchSize
        /\ RunOf[s] \in Runs /\ runs[RunOf[s]].status \in ActiveStatus
    BY <1>1, AtItemFacts DEF ScriptOK, ScriptState
  <1>3. /\ script'[s].pc = l /\ script'[s].ret = script[s].ret /\ script'[s].item = script[s].item
        /\ script'[s].late = script[s].late /\ script'[s].batch = script[s].batch
        /\ script'[s].loaded = script[s].loaded
    BY <1>2 DEF ScriptState
  <1>4. l \in ControlPcs \/ l = script[s].ret
    OBVIOUS
  <1>5. Works(script[s], script'[s])
    BY <1>2, <1>3 DEF Works, ReturnPcs
  <1>6. OnlyRun(RunOf[s]) /\ OnlyItem(s) /\ TargetGrows
    <2>1. \A k \in TargetTables : target[k] \in Nat
      BY DEF FInv, LInv, OInv, RInv, TInv, MInv, MigratorTypeOK
    <2> QED
      BY <2>1 DEF OnlyRun, OnlyItem, TargetGrows, dataVars
  <1>7. After(s) => TablesFollowScripts'
    BY <1>1, <1>2, <1>5, <1>6, WorkFollows
  <1> DEFINE r == RunOf[s]
             t == Item(s).table
             k == Item(s).target
  <1>8. CASE DirectNow(s)
    <2>1. DirectAt(script'[s], Item(s), runTables[r][t], landed[r][t])
      BY <1>2, <1>3, <1>4, <1>8 DEF DirectNow, DirectAt, StatusAt, PathFits, DirectFits, ReturnPcs
    <2> QED
      BY <1>7, <2>1 DEF After, dataVars
  <1>9. CASE StagedNow(s)
    <2>1. StagedFits(script[s], runTables[r][t], landed[r][t], staged[r][t], target[k])
      BY <1>9 DEF StagedNow, StagedAt
    <2>2. script[s].ret # "insertBatch"
      BY <1>9 DEF StagedNow, StagedAt, PathFits
    <2>3. StagedFits(script'[s], runTables[r][t], landed[r][t], staged[r][t], target[k])
      BY <1>2, <1>3, <1>4, <2>1, <2>2 DEF StagedFits, NotUnloaded, NotLoaded, Loaded, Counted,
         Controls, Recording, ReturnPcs
    <2>4. StagedAt(script'[s], Item(s), runTables[r][t], landed[r][t], staged[r][t], target[k])
      BY <1>2, <1>3, <1>4, <1>9, <2>2, <2>3 DEF StagedNow, StagedAt, StatusAt, PathFits, ReturnPcs
    <2> QED
      BY <1>7, <2>4 DEF After, dataVars
  <1> QED
    BY <1>1, <1>8, <1>9 DEF Before, DirectNow, StagedNow

LEMMA ReadFlagFollows ==
  ASSUME FreshIds, TablesOnce, FInv, MInv', NEW s \in Scripts, ReadFlag(s)
  PROVE  TablesFollowScripts'
  <1>1. script[s].pc = "control" /\ UNCHANGED <<storeVars, dataVars>>
    BY DEF ReadFlag, At
  <1>2. script \in [Scripts -> ScriptState]
    BY <1>1, Working, AtItemFacts
  <1>3. \E l \in {script[s].ret, "sayCancelled", "markPaused"} :
           OthersKeep(s) /\ script'[s] = [script[s] EXCEPT !.pc = l]
    BY <1>2 DEF ReadFlag, Goto, OthersKeep
  <1> QED
    BY <1>1, <1>3, SaidStays, ControlFollows DEF storeVars

LEMMA PollFlagFollows ==
  ASSUME FreshIds, TablesOnce, FInv, MInv', NEW s \in Scripts, PollFlag(s)
  PROVE  TablesFollowScripts'
  <1>1. script[s].pc = "paused" /\ UNCHANGED <<storeVars, dataVars>>
    BY DEF PollFlag, At
  <1>2. script \in [Scripts -> ScriptState]
    BY <1>1, Working, AtItemFacts
  <1>3. \E l \in {"markRunning", "sayCancelled"} :
           OthersKeep(s) /\ script'[s] = [script[s] EXCEPT !.pc = l]
    BY <1>2 DEF PollFlag, Goto, OthersKeep
  <1> QED
    BY <1>1, <1>3, SaidStays, ControlFollows DEF storeVars

-----------------------------------------------------------------------------
(* Steps that write the row of the item at work *)

LEMMA RowStays ==
  ASSUME FInv, NEW s \in Scripts, AtItem(s), OtherRowsStay(RunOf[s], Item(s).table),
         UNCHANGED <<runs, events, dataVars>>
  PROVE  /\ OnlyRun(RunOf[s]) /\ OnlyItem(s) /\ TargetGrows
         /\ runs'[RunOf[s]].status \in ActiveStatus
         /\ \A e \in Telling : e \in Said(RunOf[s])' <=> e \in Said(RunOf[s])
  <1>1. \A r \in Runs : Said(r)' = Said(r)
    BY SaidStays
  <1>2. \A k \in TargetTables : target[k] \in Nat
    BY DEF FInv, LInv, OInv, RInv, TInv, MInv, MigratorTypeOK
  <1>3. RunOf[s] \in Runs /\ runs[RunOf[s]].status \in ActiveStatus
    BY AtItemFacts
  <1> QED
    BY <1>1, <1>2, <1>3 DEF OnlyRun, OnlyItem, TargetGrows, OtherRowsStay, dataVars

\* What a step at work on an item knows before it.
LEMMA WorkTypes ==
  ASSUME FInv, MInv', NEW s \in Scripts, AtItem(s)
  PROVE  LET r == RunOf[s]
             t == Item(s).table
             k == Item(s).target
         IN /\ StoreTypeOK /\ r \in Runs /\ t \in Tables /\ k \in TargetTables
            /\ script[s] \in ScriptState /\ script \in [Scripts -> ScriptState]
            /\ ~script[s].late /\ script[s].batch <= BatchSize /\ BatchSize \in Nat
            /\ TableExists(r, t)
            /\ runTables[r][t] \in TableRow /\ landed[r][t] \in Nat /\ staged[r][t] \in Nat
            /\ target[k] \in Nat
            /\ script'[s] \in ScriptState
            /\ runTables'[r][t] \in TableRow /\ landed'[r][t] \in Nat /\ staged'[r][t] \in Nat
            /\ target'[k] \in Nat
  <1>1. MInv /\ BatchSize \in Nat
    BY MigratorAssumptions DEF FInv, LInv, OInv, RInv, TInv
  <1>2. RunOf[s] \in Runs /\ Item(s).table \in Tables /\ Item(s).target \in TargetTables
    BY AtItemFacts
  <1> QED
    BY SMTT(30), <1>1, <1>2, AtItemFacts DEF MInv, MigratorTypeOK, StoreTypeOK

\* The first step of an item: its row was registered and nothing has been done.
LEMMA Fresh ==
  ASSUME FInv, NEW s \in Scripts, script[s].pc = "table", PlanLeft(s)
  PROVE  LET r == RunOf[s]
             t == Item(s).table
         IN /\ AtItem(s) /\ runTables[r][t].phase = "none" /\ runTables[r][t].done = 0
            /\ landed[r][t] = 0 /\ staged[r][t] = 0
  <1>1. AtItem(s)
    BY DEF AtItem
  <1>2. script[s].item \in Nat
    BY <1>1, AtItemFacts DEF ScriptState
  <1>3. Waiting(script[s], script[s].item)
    BY <1>2 DEF Waiting
  <1> QED
    BY <1>1, <1>3, AtItemFacts DEF ItemFits

LEMMA BeginDirectFollows ==
  ASSUME FreshIds, TablesOnce, FInv, MInv', NEW s \in Scripts, BeginDirect(s)
  PROVE  TablesFollowScripts'
  <1> DEFINE r == RunOf[s]
             t == Item(s).table
  <1>1. /\ AtItem(s) /\ runTables[r][t].phase = "none" /\ runTables[r][t].done = 0
        /\ landed[r][t] = 0
    BY Fresh DEF BeginDirect, At
  <1>2. SetTableStatus(r, t, "running") /\ UNCHANGED dataVars /\ Item(s).strategy = "direct"
    BY DEF BeginDirect
  <1>3. /\ script'[s].pc = "open" /\ script'[s].item = script[s].item
        /\ script'[s].batch = script[s].batch /\ script'[s].late = script[s].late
        /\ OthersKeep(s)
    BY <1>1, WorkTypes DEF BeginDirect, OthersKeep, ScriptState
  <1>4. /\ OtherRowsStay(r, t) /\ UNCHANGED <<runs, events>>
        /\ runTables'[r][t].status = "running" /\ runTables'[r][t].phase = "none"
        /\ runTables'[r][t].done = 0
    BY <1>1, <1>2, WorkTypes, StatusWritten
  <1>5. Works(script[s], script'[s])
    BY <1>1, <1>3, WorkTypes DEF Works
  <1>6. After(s)
    BY <1>1, <1>2, <1>3, <1>4 DEF After, DirectAt, StatusAt, PathFits, DirectFits, dataVars
  <1> QED
    BY <1>1, <1>2, <1>3, <1>4, <1>5, <1>6, RowStays, WorkFollows

LEMMA BeginStagedFollows ==
  ASSUME FreshIds, TablesOnce, FInv, MInv', NEW s \in Scripts, BeginStaged(s)
  PROVE  TablesFollowScripts'
  <1> DEFINE r == RunOf[s]
             t == Item(s).table
             k == Item(s).target
  <1>1. /\ AtItem(s) /\ runTables[r][t].done = 0 /\ landed[r][t] = 0 /\ staged[r][t] = 0
    BY Fresh DEF BeginStaged, At
  <1>2. SetTableStatus(r, t, "running") /\ UNCHANGED dataVars /\ Item(s).strategy # "direct"
    BY MigratorAssumptions DEF BeginStaged, StagedStrategies
  <1>3. /\ script'[s].pc = "control" /\ script'[s].ret = "unloading"
        /\ script'[s].item = script[s].item
        /\ script'[s].batch = script[s].batch /\ script'[s].late = script[s].late
        /\ OthersKeep(s)
    BY <1>1, WorkTypes DEF BeginStaged, OthersKeep, ScriptState
  <1>4. /\ OtherRowsStay(r, t) /\ UNCHANGED <<runs, events>>
        /\ runTables'[r][t].status = "running" /\ runTables'[r][t].done = 0
    BY <1>1, <1>2, WorkTypes, StatusWritten
  <1>5. Works(script[s], script'[s])
    BY <1>1, <1>3, WorkTypes DEF Works
  <1>6. StagedFits(script'[s], runTables'[r][t], landed'[r][t], staged'[r][t], target'[k])
    BY <1>1, <1>2, <1>3, <1>4 DEF StagedFits, NotUnloaded, NotLoaded, Loaded, Counted, Controls,
       Recording, dataVars
  <1>7. After(s)
    BY <1>2, <1>3, <1>4, <1>6 DEF After, StagedAt, StatusAt, PathFits
  <1> QED
    BY <1>1, <1>2, <1>3, <1>4, <1>5, <1>7, RowStays, WorkFollows

LEMMA EnterUnloadingFollows ==
  ASSUME FreshIds, TablesOnce, FInv, MInv', NEW s \in Scripts, EnterUnloading(s)
  PROVE  TablesFollowScripts'
  <1> DEFINE r == RunOf[s]
             t == Item(s).table
             k == Item(s).target
  <1>1. /\ script[s].pc = "unloading" /\ UNCHANGED dataVars
        /\ SetTablePhase(r, t, "unloading")
    BY DEF EnterUnloading, At, EnterPhase
  <1>2. AtItem(s) /\ StagedNow(s)
    BY <1>1, StagedWorks
  <1>3. /\ script'[s].pc = "unload"
        /\ script'[s].item = script[s].item /\ script'[s].late = script[s].late
        /\ script'[s].batch = script[s].batch /\ script'[s].loaded = script[s].loaded
        /\ OthersKeep(s)
    BY <1>2, WorkTypes DEF EnterUnloading, OthersKeep, ScriptState, Goto, EnterPhase
  <1>4. /\ OtherRowsStay(r, t) /\ UNCHANGED <<runs, events>>
        /\ runTables'[r][t].status = runTables[r][t].status
        /\ runTables'[r][t].total = runTables[r][t].total
        /\ runTables'[r][t].done = runTables[r][t].done
    BY <1>1, <1>2, WorkTypes, PhaseWritten
  <1>5. Works(script[s], script'[s])
    BY <1>2, <1>3, WorkTypes DEF Works
  <1>6. StagedFits(script'[s], runTables'[r][t], landed'[r][t], staged'[r][t], target'[k])
    <2>1. StagedFits(script[s], runTables[r][t], landed[r][t], staged[r][t], target[k])
      BY <1>2 DEF StagedNow, StagedAt
    <2> QED
      BY <1>1, <1>2, <1>3, <1>4, <2>1, WorkTypes DEF StagedFits, NotUnloaded, NotLoaded, Loaded,
         Counted, Controls, Recording, dataVars, TableRow, ScriptState
  <1>7. After(s)
    BY <1>1, <1>2, <1>3, <1>4, <1>6 DEF StagedNow, After, StagedAt, StatusAt, PathFits
  <1> QED
    BY <1>1, <1>2, <1>3, <1>4, <1>5, <1>7, RowStays, WorkFollows

LEMMA EnterStagedFollows ==
  ASSUME FreshIds, TablesOnce, FInv, MInv', NEW s \in Scripts, EnterStaged(s)
  PROVE  TablesFollowScripts'
  <1> DEFINE r == RunOf[s]
             t == Item(s).table
             k == Item(s).target
  <1>1. /\ script[s].pc = "staged" /\ UNCHANGED dataVars
        /\ SetTablePhase(r, t, "staged")
    BY DEF EnterStaged, At, EnterPhase
  <1>2. AtItem(s) /\ StagedNow(s)
    BY <1>1, StagedWorks
  <1>3. /\ script'[s].pc = "control" /\ script'[s].ret = "loading"
        /\ script'[s].item = script[s].item /\ script'[s].late = script[s].late
        /\ script'[s].batch = script[s].batch /\ script'[s].loaded = script[s].loaded
        /\ OthersKeep(s)
    BY <1>2, WorkTypes DEF EnterStaged, OthersKeep, ScriptState, Goto, EnterPhase
  <1>4. /\ OtherRowsStay(r, t) /\ UNCHANGED <<runs, events>>
        /\ runTables'[r][t].status = runTables[r][t].status
        /\ runTables'[r][t].total = runTables[r][t].total
        /\ runTables'[r][t].done = runTables[r][t].done
    BY <1>1, <1>2, WorkTypes, PhaseWritten
  <1>5. Works(script[s], script'[s])
    BY <1>2, <1>3, WorkTypes DEF Works
  <1>6. StagedFits(script'[s], runTables'[r][t], landed'[r][t], staged'[r][t], target'[k])
    <2>1. StagedFits(script[s], runTables[r][t], landed[r][t], staged[r][t], target[k])
      BY <1>2 DEF StagedNow, StagedAt
    <2> QED
      BY <1>1, <1>2, <1>3, <1>4, <2>1, WorkTypes DEF StagedFits, NotUnloaded, NotLoaded, Loaded,
         Counted, Controls, Recording, dataVars, TableRow, ScriptState
  <1>7. After(s)
    BY <1>1, <1>2, <1>3, <1>4, <1>6 DEF StagedNow, After, StagedAt, StatusAt, PathFits
  <1> QED
    BY <1>1, <1>2, <1>3, <1>4, <1>5, <1>7, RowStays, WorkFollows

LEMMA EnterLoadingFollows ==
  ASSUME FreshIds, TablesOnce, FInv, MInv', NEW s \in Scripts, EnterLoading(s)
  PROVE  TablesFollowScripts'
  <1> DEFINE r == RunOf[s]
             t == Item(s).table
             k == Item(s).target
  <1>1. /\ script[s].pc = "loading" /\ UNCHANGED dataVars
        /\ SetTablePhase(r, t, "loading")
    BY DEF EnterLoading, At, EnterPhase
  <1>2. AtItem(s) /\ StagedNow(s)
    BY <1>1, StagedWorks
  <1>3. /\ script'[s].pc = "baseline"
        /\ script'[s].item = script[s].item /\ script'[s].late = script[s].late
        /\ script'[s].batch = script[s].batch /\ script'[s].loaded = script[s].loaded
        /\ OthersKeep(s)
    BY <1>2, WorkTypes DEF EnterLoading, OthersKeep, ScriptState, Goto, EnterPhase
  <1>4. /\ OtherRowsStay(r, t) /\ UNCHANGED <<runs, events>>
        /\ runTables'[r][t].status = runTables[r][t].status
        /\ runTables'[r][t].total = runTables[r][t].total
        /\ runTables'[r][t].done = runTables[r][t].done
    BY <1>1, <1>2, WorkTypes, PhaseWritten
  <1>5. Works(script[s], script'[s])
    BY <1>2, <1>3, WorkTypes DEF Works
  <1>6. StagedFits(script'[s], runTables'[r][t], landed'[r][t], staged'[r][t], target'[k])
    <2>1. StagedFits(script[s], runTables[r][t], landed[r][t], staged[r][t], target[k])
      BY <1>2 DEF StagedNow, StagedAt
    <2> QED
      BY <1>1, <1>2, <1>3, <1>4, <2>1, WorkTypes DEF StagedFits, NotUnloaded, NotLoaded, Loaded,
         Counted, Controls, Recording, dataVars, TableRow, ScriptState
  <1>7. After(s)
    BY <1>1, <1>2, <1>3, <1>4, <1>6 DEF StagedNow, After, StagedAt, StatusAt, PathFits
  <1> QED
    BY <1>1, <1>2, <1>3, <1>4, <1>5, <1>7, RowStays, WorkFollows

LEMMA EnterValidatingFollows ==
  ASSUME FreshIds, TablesOnce, FInv, MInv', NEW s \in Scripts, EnterValidating(s)
  PROVE  TablesFollowScripts'
  <1> DEFINE r == RunOf[s]
             t == Item(s).table
             k == Item(s).target
  <1>1. /\ script[s].pc = "validating" /\ UNCHANGED dataVars
        /\ SetTablePhase(r, t, "validating")
    BY DEF EnterValidating, At, EnterPhase
  <1>2. AtItem(s) /\ StagedNow(s)
    BY <1>1, StagedWorks
  <1>3. /\ script'[s].pc = "compare"
        /\ script'[s].item = script[s].item /\ script'[s].late = script[s].late
        /\ script'[s].batch = script[s].batch /\ script'[s].loaded = script[s].loaded
        /\ OthersKeep(s)
    BY <1>2, WorkTypes DEF EnterValidating, OthersKeep, ScriptState, Goto, EnterPhase
  <1>4. /\ OtherRowsStay(r, t) /\ UNCHANGED <<runs, events>>
        /\ runTables'[r][t].status = runTables[r][t].status
        /\ runTables'[r][t].total = runTables[r][t].total
        /\ runTables'[r][t].done = runTables[r][t].done
    BY <1>1, <1>2, WorkTypes, PhaseWritten
  <1>5. Works(script[s], script'[s])
    BY <1>2, <1>3, WorkTypes DEF Works
  <1>6. StagedFits(script'[s], runTables'[r][t], landed'[r][t], staged'[r][t], target'[k])
    <2>1. StagedFits(script[s], runTables[r][t], landed[r][t], staged[r][t], target[k])
      BY <1>2 DEF StagedNow, StagedAt
    <2> QED
      BY <1>1, <1>2, <1>3, <1>4, <2>1, WorkTypes DEF StagedFits, NotUnloaded, NotLoaded, Loaded,
         Counted, Controls, Recording, dataVars, TableRow, ScriptState
  <1>7. After(s)
    BY <1>1, <1>2, <1>3, <1>4, <1>6 DEF StagedNow, After, StagedAt, StatusAt, PathFits
  <1> QED
    BY <1>1, <1>2, <1>3, <1>4, <1>5, <1>7, RowStays, WorkFollows

LEMMA RecordLoadedFollows ==
  ASSUME FreshIds, TablesOnce, FInv, MInv', NEW s \in Scripts, RecordLoaded(s)
  PROVE  TablesFollowScripts'
  <1> DEFINE r == RunOf[s]
             t == Item(s).table
             k == Item(s).target
  <1>1. /\ script[s].pc = "recordLoad" /\ UNCHANGED dataVars
        /\ RecordStagedLoad(r, t, script[s].loaded)
    BY DEF RecordLoaded, At
  <1>2. AtItem(s) /\ StagedNow(s)
    BY <1>1, StagedWorks
  <1>3. /\ script'[s].pc = "clearPhase"
        /\ script'[s].item = script[s].item /\ script'[s].late = script[s].late
        /\ script'[s].batch = script[s].batch /\ script'[s].loaded = script[s].loaded
        /\ OthersKeep(s)
    BY <1>2, WorkTypes DEF RecordLoaded, OthersKeep, ScriptState, Goto
  <1>4. /\ OtherRowsStay(r, t) /\ UNCHANGED <<runs, events>>
        /\ runTables'[r][t].status = runTables[r][t].status
        /\ runTables'[r][t].total = runTables[r][t].total
        /\ runTables'[r][t].done = script[s].loaded
    BY <1>1, <1>2, WorkTypes, LoadWritten
  <1>5. Works(script[s], script'[s])
    BY <1>2, <1>3, WorkTypes DEF Works
  <1>6. StagedFits(script'[s], runTables'[r][t], landed'[r][t], staged'[r][t], target'[k])
    <2>1. StagedFits(script[s], runTables[r][t], landed[r][t], staged[r][t], target[k])
      BY <1>2 DEF StagedNow, StagedAt
    <2> QED
      BY SMTT(30), <1>1, <1>2, <1>3, <1>4, <2>1, WorkTypes
        DEF StagedFits, NotUnloaded, NotLoaded, Loaded,
         Counted, Controls, Recording, dataVars, TableRow, ScriptState
  <1>7. After(s)
    BY <1>1, <1>2, <1>3, <1>4, <1>6 DEF StagedNow, After, StagedAt, StatusAt, PathFits
  <1> QED
    BY <1>1, <1>2, <1>3, <1>4, <1>5, <1>7, RowStays, WorkFollows

LEMMA LeavePhasesFollows ==
  ASSUME FreshIds, TablesOnce, FInv, MInv', NEW s \in Scripts, LeavePhases(s)
  PROVE  TablesFollowScripts'
  <1> DEFINE r == RunOf[s]
             t == Item(s).table
             k == Item(s).target
  <1>1. /\ script[s].pc = "clearPhase" /\ UNCHANGED dataVars
        /\ SetTablePhase(r, t, "none")
    BY DEF LeavePhases, At
  <1>2. AtItem(s) /\ StagedNow(s)
    BY <1>1, StagedWorks
  <1>3. /\ script'[s].pc = "tableDone"
        /\ script'[s].item = script[s].item /\ script'[s].late = script[s].late
        /\ script'[s].batch = script[s].batch /\ script'[s].loaded = script[s].loaded
        /\ OthersKeep(s)
    BY <1>2, WorkTypes DEF LeavePhases, OthersKeep, ScriptState, Goto
  <1>4. /\ OtherRowsStay(r, t) /\ UNCHANGED <<runs, events>>
        /\ runTables'[r][t].status = runTables[r][t].status
        /\ runTables'[r][t].total = runTables[r][t].total
        /\ runTables'[r][t].done = runTables[r][t].done /\ runTables'[r][t].phase = "none"
    BY <1>1, <1>2, WorkTypes, PhaseWritten
  <1>5. Works(script[s], script'[s])
    BY <1>2, <1>3, WorkTypes DEF Works
  <1>6. StagedFits(script'[s], runTables'[r][t], landed'[r][t], staged'[r][t], target'[k])
    <2>1. StagedFits(script[s], runTables[r][t], landed[r][t], staged[r][t], target[k])
      BY <1>2 DEF StagedNow, StagedAt
    <2> QED
      BY ZenonT(30), <1>1, <1>2, <1>3, <1>4, <2>1, WorkTypes DEF StagedFits, NotUnloaded,
         NotLoaded, Loaded,
         Counted, Controls, Recording, dataVars, TableRow, ScriptState
  <1>7. After(s)
    BY <1>1, <1>2, <1>3, <1>4, <1>6 DEF StagedNow, After, StagedAt, StatusAt, PathFits
  <1> QED
    BY <1>1, <1>2, <1>3, <1>4, <1>5, <1>7, RowStays, WorkFollows

LEMMA RecordInsertedFollows ==
  ASSUME FreshIds, TablesOnce, FInv, MInv', NEW s \in Scripts, RecordInserted(s)
  PROVE  TablesFollowScripts'
  <1> DEFINE r == RunOf[s]
             t == Item(s).table
  <1>1. /\ script[s].pc = "recordBatch" /\ UNCHANGED dataVars
        /\ RecordBatch(r, t, script[s].n, script[s].batch)
    BY DEF RecordInserted, At
  <1>2. AtItem(s) /\ DirectNow(s)
    BY <1>1, DirectWorks
  <1>3. /\ script'[s].pc = "fetch" /\ script'[s].batch = 0
        /\ script'[s].item = script[s].item /\ script'[s].late = script[s].late
        /\ OthersKeep(s)
    BY <1>2, WorkTypes DEF RecordInserted, OthersKeep, ScriptState
  <1>4. /\ OtherRowsStay(r, t) /\ UNCHANGED <<runs, events>>
        /\ runTables'[r][t].status = runTables[r][t].status
        /\ runTables'[r][t].phase = runTables[r][t].phase
        /\ runTables'[r][t].done = runTables[r][t].done + script[s].batch
    BY <1>1, <1>2, WorkTypes, BatchWritten
  <1>5. Works(script[s], script'[s])
    BY <1>2, <1>3, WorkTypes DEF Works
  <1>6. landed[r][t] = runTables[r][t].done + script[s].batch
    BY <1>1, <1>2 DEF DirectNow, DirectAt, DirectFits
  <1>7. DirectFits(script'[s], runTables'[r][t], landed'[r][t])
    BY SMTT(30), <1>1, <1>2, <1>3, <1>4, <1>6, WorkTypes
      DEF DirectNow, DirectAt, DirectFits, dataVars
  <1>8. After(s)
    BY <1>1, <1>2, <1>3, <1>4, <1>7 DEF DirectNow, After, DirectAt, StatusAt, PathFits
  <1> QED
    BY <1>1, <1>2, <1>3, <1>4, <1>5, <1>8, RowStays, WorkFollows

\* Both paths end a table with this write.
LEMMA CompleteTableFollows ==
  ASSUME FreshIds, TablesOnce, FInv, MInv', NEW s \in Scripts, CompleteTable(s)
  PROVE  TablesFollowScripts'
  <1> DEFINE r == RunOf[s]
             t == Item(s).table
             k == Item(s).target
  <1>1. /\ script[s].pc = "tableDone" /\ UNCHANGED dataVars
        /\ SetTableStatus(r, t, "done")
    BY DEF CompleteTable, At
  <1>2. AtItem(s) /\ Before(s)
    BY <1>1, Working
  <1>3. /\ script'[s].pc = "sayTableDone" /\ script'[s].batch = script[s].batch
        /\ script'[s].item = script[s].item /\ script'[s].late = script[s].late
        /\ OthersKeep(s)
    BY <1>2, WorkTypes DEF CompleteTable, OthersKeep, ScriptState, Goto
  <1>4. /\ OtherRowsStay(r, t) /\ UNCHANGED <<runs, events>>
        /\ runTables'[r][t].status = "done"
        /\ runTables'[r][t].phase = runTables[r][t].phase
        /\ runTables'[r][t].total = runTables[r][t].total
        /\ runTables'[r][t].done = runTables[r][t].done
    BY <1>1, <1>2, WorkTypes, StatusWritten
  <1>5. Works(script[s], script'[s])
    BY <1>2, <1>3, WorkTypes DEF Works
  <1>6. CASE DirectNow(s)
    <2>1. DirectAt(script'[s], Item(s), runTables'[r][t], landed'[r][t])
      BY <1>1, <1>3, <1>4, <1>6 DEF DirectNow, DirectAt, StatusAt, PathFits, DirectFits, dataVars
    <2> QED
      BY <1>1, <1>2, <1>3, <1>4, <1>5, <2>1, RowStays, WorkFollows DEF After
  <1>7. CASE StagedNow(s)
    <2>1. StagedFits(script[s], runTables[r][t], landed[r][t], staged[r][t], target[k])
      BY <1>7 DEF StagedNow, StagedAt
    <2>2. StagedFits(script'[s], runTables'[r][t], landed'[r][t], staged'[r][t], target'[k])
      BY <1>1, <1>3, <1>4, <2>1 DEF StagedFits, NotUnloaded, NotLoaded, Loaded, Counted,
         Controls, Recording, dataVars
    <2>3. StagedAt(script'[s], Item(s), runTables'[r][t], landed'[r][t], staged'[r][t], target'[k])
      BY <1>3, <1>4, <1>7, <2>2 DEF StagedNow, StagedAt, StatusAt, PathFits
    <2> QED
      BY <1>1, <1>2, <1>3, <1>4, <1>5, <2>3, RowStays, WorkFollows DEF After
  <1> QED
    BY <1>2, <1>6, <1>7 DEF Before, DirectNow, StagedNow

-----------------------------------------------------------------------------
(* Steps that write the target or the bucket *)

LEMMA RowsLand ==
  ASSUME MigratorTypeOK, NEW s \in Scripts, RunOf[s] \in Runs, Item(s).table \in Tables,
         Item(s).target \in TargetTables, NEW rows \in Nat, Land(s, rows)
  PROVE  LET r == RunOf[s]
             t == Item(s).table
             k == Item(s).target
         IN /\ landed'[r][t] = landed[r][t] + rows
            /\ target'[k] = target[k] + rows
            /\ \A o \in Runs, u \in Tables : (o # r \/ u # t) => landed'[o][u] = landed[o][u]
            /\ TargetGrows
  BY DEF MigratorTypeOK, Land, TargetGrows

\* A step that lands rows of the item at work, or writes its objects.
LEMMA DataStays ==
  ASSUME FInv, NEW s \in Scripts, AtItem(s), UNCHANGED storeVars,
         \A o \in Runs, u \in Tables : (o # RunOf[s] \/ u # Item(s).table) =>
            landed'[o][u] = landed[o][u] /\ staged'[o][u] = staged[o][u]
  PROVE  /\ OnlyRun(RunOf[s]) /\ OnlyItem(s)
         /\ runs'[RunOf[s]].status \in ActiveStatus
         /\ \A e \in Telling : e \in Said(RunOf[s])' <=> e \in Said(RunOf[s])
  <1>1. \A r \in Runs : Said(r)' = Said(r)
    BY SaidStays DEF storeVars
  <1>2. RunOf[s] \in Runs /\ runs[RunOf[s]].status \in ActiveStatus
    BY AtItemFacts
  <1> QED
    BY <1>1, <1>2 DEF OnlyRun, OnlyItem, storeVars

LEMMA InsertBatchFollows ==
  ASSUME FreshIds, TablesOnce, FInv, MInv', NEW s \in Scripts, InsertBatch(s)
  PROVE  TablesFollowScripts'
  <1> DEFINE r == RunOf[s]
             t == Item(s).table
  <1>1. /\ script[s].pc = "insertBatch" /\ UNCHANGED <<storeVars, staged>>
        /\ Land(s, script[s].batch)
    BY DEF InsertBatch, At
  <1>2. AtItem(s) /\ DirectNow(s)
    BY <1>1, DirectWorks
  <1>3. /\ script'[s].pc = "recordBatch" /\ script'[s].batch = script[s].batch
        /\ script'[s].item = script[s].item /\ script'[s].late = script[s].late
        /\ OthersKeep(s)
    BY <1>2, WorkTypes DEF InsertBatch, OthersKeep, ScriptState, Goto
  <1>4. MigratorTypeOK /\ script[s].batch \in Nat
    BY <1>2, WorkTypes DEF ScriptState, FInv, LInv, OInv, RInv, TInv, MInv
  <1>5. /\ landed'[r][t] = landed[r][t] + script[s].batch /\ TargetGrows
        /\ \A o \in Runs, u \in Tables : (o # r \/ u # t) => landed'[o][u] = landed[o][u]
    BY <1>1, <1>2, <1>4, RowsLand, WorkTypes
  <1>6. Works(script[s], script'[s])
    BY <1>2, <1>3, WorkTypes DEF Works
  <1>7. DirectFits(script'[s], runTables'[r][t], landed'[r][t])
    BY SMTT(30), <1>1, <1>2, <1>3, <1>4, <1>5, WorkTypes
      DEF DirectNow, DirectAt, DirectFits, storeVars,
       TableRow
  <1>8. After(s)
    BY <1>1, <1>2, <1>3, <1>7 DEF DirectNow, After, DirectAt, StatusAt, PathFits, storeVars
  <1> QED
    BY <1>1, <1>2, <1>3, <1>5, <1>6, <1>8, DataStays, WorkFollows

LEMMA LoadStagedFollows ==
  ASSUME FreshIds, TablesOnce, FInv, MInv', NEW s \in Scripts, LoadStaged(s)
  PROVE  TablesFollowScripts'
  <1> DEFINE r == RunOf[s]
             t == Item(s).table
             k == Item(s).target
  <1>1. /\ script[s].pc = "load" /\ UNCHANGED <<storeVars, staged>>
        /\ Land(s, staged[r][t])
    BY DEF LoadStaged, At
  <1>2. AtItem(s) /\ StagedNow(s)
    BY <1>1, StagedWorks
  <1>3. /\ script'[s].pc = "countLoaded" /\ script'[s].batch = script[s].batch
        /\ script'[s].item = script[s].item /\ script'[s].late = script[s].late
        /\ script'[s].base = script[s].base /\ OthersKeep(s)
    BY <1>2, WorkTypes DEF LoadStaged, OthersKeep, ScriptState, Goto
  <1>4. MigratorTypeOK
    BY DEF FInv, LInv, OInv, RInv, TInv, MInv
  <1>5. /\ landed'[r][t] = landed[r][t] + staged[r][t] /\ TargetGrows
        /\ target'[k] = target[k] + staged[r][t]
        /\ \A o \in Runs, u \in Tables : (o # r \/ u # t) => landed'[o][u] = landed[o][u]
    BY <1>1, <1>2, <1>4, RowsLand, WorkTypes
  <1>6. Works(script[s], script'[s])
    BY <1>2, <1>3, WorkTypes DEF Works
  <1>7. StagedFits(script'[s], runTables'[r][t], landed'[r][t], staged'[r][t], target'[k])
    <2>1. StagedFits(script[s], runTables[r][t], landed[r][t], staged[r][t], target[k])
      BY <1>2 DEF StagedNow, StagedAt
    <2> QED
      BY SMTT(30), <1>1, <1>2, <1>3, <1>5, <2>1, WorkTypes
        DEF StagedFits, NotUnloaded, NotLoaded, Loaded,
         Counted, Controls, Recording, storeVars, TableRow, ScriptState
  <1>8. After(s)
    BY <1>1, <1>2, <1>3, <1>7 DEF StagedNow, After, StagedAt, StatusAt, PathFits, storeVars
  <1> QED
    BY <1>1, <1>2, <1>3, <1>5, <1>6, <1>8, DataStays, WorkFollows

LEMMA UnloadFollows ==
  ASSUME FreshIds, TablesOnce, FInv, MInv', NEW s \in Scripts, Unload(s)
  PROVE  TablesFollowScripts'
  <1> DEFINE r == RunOf[s]
             t == Item(s).table
             k == Item(s).target
  <1>1. script[s].pc = "unload" /\ UNCHANGED <<storeVars, target, landed>>
    BY DEF Unload, At
  <1>2. AtItem(s) /\ StagedNow(s)
    BY <1>1, StagedWorks
  <1>3. /\ script'[s].pc = "staged" /\ script'[s].batch = script[s].batch
        /\ script'[s].item = script[s].item /\ script'[s].late = script[s].late
        /\ OthersKeep(s)
    BY <1>2, WorkTypes DEF Unload, OthersKeep, ScriptState, Goto
  <1>4. MigratorTypeOK
    BY DEF FInv, LInv, OInv, RInv, TInv, MInv
  <1>5. /\ \A o \in Runs, u \in Tables : (o # r \/ u # t) => staged'[o][u] = staged[o][u]
        /\ TargetGrows
    BY <1>1, <1>4 DEF Unload, MigratorTypeOK, TargetGrows
  <1>6. Works(script[s], script'[s])
    BY <1>2, <1>3, WorkTypes DEF Works
  <1>7. StagedFits(script'[s], runTables'[r][t], landed'[r][t], staged'[r][t], target'[k])
    <2>1. StagedFits(script[s], runTables[r][t], landed[r][t], staged[r][t], target[k])
      BY <1>2 DEF StagedNow, StagedAt
    <2> QED
      BY <1>1, <1>2, <1>3, <2>1, WorkTypes DEF StagedFits, NotUnloaded, NotLoaded, Loaded,
         Counted, Controls, Recording, storeVars, TableRow, ScriptState
  <1>8. After(s)
    BY <1>1, <1>2, <1>3, <1>7 DEF StagedNow, After, StagedAt, StatusAt, PathFits, storeVars
  <1> QED
    BY <1>1, <1>2, <1>3, <1>5, <1>6, <1>8, DataStays, WorkFollows

LEMMA CleanUpFollows ==
  ASSUME FreshIds, TablesOnce, FInv, MInv', NEW s \in Scripts, CleanUp(s)
  PROVE  TablesFollowScripts'
  <1> DEFINE r == RunOf[s]
             t == Item(s).table
             k == Item(s).target
  <1>1. script[s].pc = "cleanup" /\ UNCHANGED <<storeVars, target, landed>>
    BY DEF CleanUp, At
  <1>2. AtItem(s) /\ StagedNow(s)
    BY <1>1, StagedWorks
  <1>3. /\ script'[s].pc = "recordLoad" /\ script'[s].batch = script[s].batch
        /\ script'[s].item = script[s].item /\ script'[s].late = script[s].late
        /\ script'[s].loaded = script[s].loaded /\ OthersKeep(s)
    BY <1>2, WorkTypes DEF CleanUp, OthersKeep, ScriptState, Goto
  <1>4. MigratorTypeOK
    BY DEF FInv, LInv, OInv, RInv, TInv, MInv
  <1>5. /\ \A o \in Runs, u \in Tables : (o # r \/ u # t) => staged'[o][u] = staged[o][u]
        /\ TargetGrows
    BY <1>1, <1>4 DEF CleanUp, MigratorTypeOK, TargetGrows
  <1>6. Works(script[s], script'[s])
    BY <1>2, <1>3, WorkTypes DEF Works
  <1>7. StagedFits(script'[s], runTables'[r][t], landed'[r][t], staged'[r][t], target'[k])
    <2>1. StagedFits(script[s], runTables[r][t], landed[r][t], staged[r][t], target[k])
      BY <1>2 DEF StagedNow, StagedAt
    <2> QED
      BY <1>1, <1>2, <1>3, <2>1, WorkTypes DEF StagedFits, NotUnloaded, NotLoaded, Loaded,
         Counted, Controls, Recording, storeVars, TableRow, ScriptState
  <1>8. After(s)
    BY <1>1, <1>2, <1>3, <1>7 DEF StagedNow, After, StagedAt, StatusAt, PathFits, storeVars
  <1> QED
    BY <1>1, <1>2, <1>3, <1>5, <1>6, <1>8, DataStays, WorkFollows

-----------------------------------------------------------------------------
(* Steps of _check_controls that write *)

LEMMA MarkPausedFollows ==
  ASSUME FreshIds, TablesOnce, FInv, MInv', NEW s \in Scripts, MarkPaused(s)
  PROVE  TablesFollowScripts'
  <1>1. /\ script[s].pc = "markPaused"
        /\ SetRunStatus(RunOf[s], "paused") /\ UNCHANGED dataVars
    BY DEF MarkPaused, At
  <1>2. script \in [Scripts -> ScriptState]
    BY <1>1, Working, AtItemFacts
  <1>3. OthersKeep(s) /\ script'[s] = [script[s] EXCEPT !.pc = "sayPaused"]
    BY <1>2 DEF MarkPaused, Goto, OthersKeep
  <1>4. /\ \A r \in Runs : r # RunOf[s] => runs'[r] = runs[r]
        /\ runs'[RunOf[s]].status \in ActiveStatus
    BY <1>1, StatusWrites DEF FInv, Status, ActiveStatus, SetRunStatus, LInv, OInv, RInv, TInv,
       MInv, StoreTypeOK
  <1> QED
    BY <1>1, <1>3, <1>4, SaidStays, ControlFollows DEF SetRunStatus

LEMMA MarkRunningFollows ==
  ASSUME FreshIds, TablesOnce, FInv, MInv', NEW s \in Scripts, MarkRunning(s)
  PROVE  TablesFollowScripts'
  <1>1. /\ script[s].pc = "markRunning"
        /\ SetRunStatus(RunOf[s], "running") /\ UNCHANGED dataVars
    BY DEF MarkRunning, At
  <1>2. script \in [Scripts -> ScriptState]
    BY <1>1, Working, AtItemFacts
  <1>3. OthersKeep(s) /\ script'[s] = [script[s] EXCEPT !.pc = "sayResumed"]
    BY <1>2 DEF MarkRunning, Goto, OthersKeep
  <1>4. /\ \A r \in Runs : r # RunOf[s] => runs'[r] = runs[r]
        /\ runs'[RunOf[s]].status \in ActiveStatus
    BY <1>1, StatusWrites DEF FInv, Status, ActiveStatus, SetRunStatus, LInv, OInv, RInv, TInv,
       MInv, StoreTypeOK
  <1> QED
    BY <1>1, <1>3, <1>4, SaidStays, ControlFollows DEF SetRunStatus

LEMMA AnnouncePauseFollows ==
  ASSUME FreshIds, TablesOnce, FInv, MInv', NEW s \in Scripts, AnnouncePause(s)
  PROVE  TablesFollowScripts'
  <1>1. /\ script[s].pc = "sayPaused"
        /\ WriteEvent(RunOf[s], [kind |-> "paused"]) /\ UNCHANGED dataVars
    BY DEF AnnouncePause, At
  <1>2. script \in [Scripts -> ScriptState] /\ RunOf[s] \in Runs
    BY <1>1, Working, AtItemFacts
  <1>3. OthersKeep(s) /\ script'[s] = [script[s] EXCEPT !.pc = "paused"]
    BY <1>2 DEF AnnouncePause, Goto, OthersKeep
  <1>4. \A r \in Runs : \A e \in Telling : e \in Said(r)' <=> e \in Said(r)
    BY <1>1, <1>2, SaidAppend DEF Telling, TableDone, FInv, LInv, OInv, RInv, TInv, MInv
  <1> QED
    BY <1>1, <1>3, <1>4, ControlFollows DEF WriteEvent

LEMMA AnnounceResumeFollows ==
  ASSUME FreshIds, TablesOnce, FInv, MInv', NEW s \in Scripts, AnnounceResume(s)
  PROVE  TablesFollowScripts'
  <1>1. /\ script[s].pc = "sayResumed"
        /\ WriteEvent(RunOf[s], [kind |-> "resumed"]) /\ UNCHANGED dataVars
    BY DEF AnnounceResume, At
  <1>2. script \in [Scripts -> ScriptState] /\ RunOf[s] \in Runs
    BY <1>1, Working, AtItemFacts
  <1>3. OthersKeep(s) /\ script'[s] = [script[s] EXCEPT !.pc = script[s].ret]
    BY <1>2 DEF AnnounceResume, Goto, OthersKeep
  <1>4. \A r \in Runs : \A e \in Telling : e \in Said(r)' <=> e \in Said(r)
    BY <1>1, <1>2, SaidAppend DEF Telling, TableDone, FInv, LInv, OInv, RInv, TInv, MInv
  <1> QED
    BY <1>1, <1>3, <1>4, ControlFollows DEF WriteEvent

-----------------------------------------------------------------------------
(* Steps that fail the item *)

LEMMA FailsFollow ==
  ASSUME FreshIds, TablesOnce, FInv, MInv', NEW s \in Scripts,
         script[s].pc \in {"unload", "load", "countLoaded", "compare"},
         SetTableStatus(RunOf[s], Item(s).table, "failed"), UNCHANGED dataVars,
         script'[s].pc = "finish", script'[s].outcome = "failed", OthersKeep(s),
         script'[s].item = script[s].item, script'[s].batch = script[s].batch
  PROVE  TablesFollowScripts'
  <1> DEFINE r == RunOf[s]
             t == Item(s).table
             k == Item(s).target
             y == script'[s]
  <1>1. AtItem(s) /\ StagedNow(s)
    BY StagedWorks
  <1>2. /\ y.pc = "finish" /\ y.outcome = "failed" /\ y.item = script[s].item
        /\ y.batch = script[s].batch /\ OthersKeep(s)
    OBVIOUS
  <1>3. /\ OtherRowsStay(r, t) /\ UNCHANGED <<runs, events>>
        /\ runTables'[r][t].status = "failed"
        /\ runTables'[r][t].done = runTables[r][t].done
    BY <1>1, WorkTypes, StatusWritten
  <1>4. runTables[r][t].done = 0 /\ Item(s).strategy # "direct"
    BY <1>1 DEF StagedNow, StagedAt, StagedFits, Recording
  <1>5. ItemFits(y, script[s].item, Item(s), runTables'[r][t], landed'[r][t], staged'[r][t],
                 target'[k])
    BY <1>2, <1>3, <1>4 DEF ItemFits, Unregistered, Waiting, Passed, Current
  <1>6. runs[r].status = "running"
    BY DEF FInv, LInv, StatusFollowsScript, StatusFits
  <1>7. StaysAtItem(script[s], y)
    BY <1>1, <1>2, WorkTypes DEF StaysAtItem
  <1> QED
    BY <1>1, <1>2, <1>3, <1>5, <1>6, <1>7, RowStays, ItemMoves

LEMMA CountsDifferFollows ==
  ASSUME FreshIds, TablesOnce, FInv, MInv', NEW s \in Scripts, CountsDiffer(s)
  PROVE  TablesFollowScripts'
  <1>1. script[s].pc = "compare"
    BY DEF CountsDiffer, At
  <1>2. AtItem(s)
    BY <1>1, Working
  <1>3. /\ script'[s].pc = "finish" /\ script'[s].outcome = "failed" /\ OthersKeep(s)
        /\ script'[s].item = script[s].item /\ script'[s].batch = script[s].batch
    BY <1>2, WorkTypes DEF CountsDiffer, OthersKeep, ScriptState
  <1> QED
    BY <1>1, <1>3, FailsFollow DEF CountsDiffer

LEMMA FailTableFollows ==
  ASSUME FreshIds, TablesOnce, FInv, MInv', NEW s \in Scripts, FailTable(s)
  PROVE  TablesFollowScripts'
  <1>1. PICK late \in {FALSE, At(s, "load")} :
          script' = [script EXCEPT ![s].pc = "finish", ![s].outcome = "failed", ![s].late = late]
    BY DEF FailTable
  <1>2. AtItem(s)
    BY Working DEF FailTable
  <1>3. /\ script'[s].pc = "finish" /\ script'[s].outcome = "failed" /\ OthersKeep(s)
        /\ script'[s].item = script[s].item /\ script'[s].batch = script[s].batch
    BY <1>1, <1>2, WorkTypes DEF OthersKeep, ScriptState
  <1> QED
    BY <1>3, FailsFollow DEF FailTable

-----------------------------------------------------------------------------
(* Steps of a script that is not at work on an item *)

LEMMA RunFollows ==
  ASSUME FreshIds, FInv, MInv', NEW s \in Scripts, OthersKeep(s), OnlyRun(RunOf[s]), TargetGrows,
         \A u \in Tables : TableExists(RunOf[s], u)' =>
            TableExists(RunOf[s], u) \/ \E i \in DOMAIN Plan[s] : Plan[s][i].table = u,
         TablesFollow(s)'
  PROVE  TablesFollowScripts'
  <1>1. RowsHaveScripts /\ RunOf[s] \in Runs
    BY MigratorAssumptions DEF FInv, TablesFollowScripts
  <1>2. RowsHaveScripts'
    BY <1>1 DEF RowsHaveScripts, RunExists, TableExists, OnlyRun
  <1> QED
    BY <1>2, OtherScripts DEF TablesFollowScripts

\* Nothing of the rows, the target and the bucket changes.
RowsKeep(s) ==
  /\ UNCHANGED <<runTables, landed, staged, target>>
  /\ \A r \in Runs : r # RunOf[s] =>
       runs'[r] = runs[r] /\ \A e \in Telling : e \in Said(r)' <=> e \in Said(r)

LEMMA KeepsFollow ==
  ASSUME FreshIds, FInv, MInv', NEW s \in Scripts, OthersKeep(s), RowsKeep(s), TablesFollow(s)'
  PROVE  TablesFollowScripts'
  <1>1. \A k \in TargetTables : target[k] \in Nat
    BY DEF FInv, LInv, OInv, RInv, TInv, MInv, MigratorTypeOK
  <1>2. OnlyRun(RunOf[s]) /\ TargetGrows
    BY <1>1 DEF OnlyRun, TargetGrows, RowsKeep
  <1> QED
    BY <1>2, RunFollows DEF RowsKeep, TableExists

\* The script and its items before a step.
LEMMA PlanFacts ==
  ASSUME FInv, NEW s \in Scripts
  PROVE  /\ MInv /\ TablesFollow(s) /\ ScriptOK(s) /\ RunOf[s] \in Runs
         /\ script \in [Scripts -> ScriptState] /\ script[s] \in ScriptState
         /\ runs[RunOf[s]] \in RunRow
         /\ StatusFits(script[s], runs[RunOf[s]].status)
         /\ \A j \in DOMAIN Plan[s] :
              /\ j \in Nat /\ j >= 1 /\ Plan[s][j].table \in Tables /\ ItemFollows(s, j)
              /\ j \in 1 .. Len(Plan[s]) /\ Len(Plan[s]) \in Nat
  <1>1. MInv /\ StatusFollowsScript /\ TablesFollow(s) /\ Plan[s] \in Seq(PlanItem)
        /\ RunOf[s] \in Runs
    BY MigratorAssumptions DEF FInv, LInv, OInv, RInv, TInv, TablesFollowScripts
  <1> QED
    BY <1>1, ItemTypes
    DEF MInv, ScriptsOK, MigratorTypeOK, StoreTypeOK, StatusFollowsScript, TablesFollow

-----------------------------------------------------------------------------
(* Up to the registration *)

\* Every item is unregistered before and after.
LEMMA BeginsFollow ==
  ASSUME FreshIds, FInv, MInv', NEW s \in Scripts, OthersKeep(s), OnlyRun(RunOf[s]),
         UNCHANGED <<landed, staged, target>>,
         script[s].pc \in BeforeRun, NEW l \in BeforeRun \cup {"register"},
         script'[s] = [script[s] EXCEPT !.pc = l],
         \A u \in Tables : runTables'[RunOf[s]][u] \in {runTables[RunOf[s]][u], NoTable},
         runs'[RunOf[s]].status # "done",
         \A e \in Telling : e \in Said(RunOf[s])' <=> e \in Said(RunOf[s])
  PROVE  TablesFollowScripts'
  <1> DEFINE r == RunOf[s]
             x == script[s]
             y == script'[s]
  <1>1. /\ TablesFollow(s) /\ ScriptOK(s) /\ r \in Runs /\ x \in ScriptState
        /\ \A j \in DOMAIN Plan[s] :
             j \in Nat /\ j >= 1 /\ Plan[s][j].table \in Tables /\ ItemFollows(s, j)
    BY PlanFacts
  <1>2. /\ y.pc = l /\ y.item = 1 /\ y.late = x.late /\ ~x.late /\ y.outcome = x.outcome
        /\ y.batch <= BatchSize
    BY <1>1 DEF TablesFollow, ScriptOK, ScriptState
  <1>3. OutcomeFits(y, runs'[r].status, Said(r)')
    <2>1. \A e \in {[kind |-> "done"], [kind |-> "failed"], [kind |-> "cancelled"]} :
            e \notin Said(r)
      BY <1>1 DEF TablesFollow, OutcomeFits
    <2>2. \A e \in {[kind |-> "done"], [kind |-> "failed"], [kind |-> "cancelled"]} :
            e \notin Said(r)'
      BY <2>1 DEF Telling
    <2> QED
      BY <1>2, <2>2 DEF OutcomeFits
  <1>4. ASSUME NEW j \in DOMAIN Plan[s] PROVE ItemFollows(s, j)'
    <2> DEFINE t == Plan[s][j].table
    <2>1. Unregistered(x, j) /\ Unregistered(y, j)
      BY <1>1, <1>2 DEF Unregistered
    <2>2. /\ runTables[r][t].status = "absent" /\ landed[r][t] = 0 /\ staged[r][t] = 0
          /\ TableDone(t) \notin Said(r)
      BY Zenon, <1>1, <2>1 DEF ItemFollows, ItemFits, SayingFits
    <2>3. runTables'[r][t].status = "absent" /\ TableDone(t) \notin Said(r)'
      BY <1>1, <2>2 DEF NoTable, Telling
    <2>4. ~Waiting(y, j) /\ ~Passed(y, j) /\ ~Current(y, j)
      BY <1>1, <1>2 DEF Waiting, Passed, Current
    <2>5. ItemFits(y, j, Plan[s][j], runTables'[r][t], landed'[r][t], staged'[r][t],
                   target'[Plan[s][j].target])
      BY <1>2, <2>2, <2>3, <2>4 DEF ItemFits
    <2> QED
      BY <2>3, <2>5 DEF ItemFollows, SayingFits
  <1>5. TablesFollow(s)'
    BY <1>2, <1>3, <1>4 DEF TablesFollow
  <1>6. TargetGrows
    BY DEF FInv, LInv, OInv, RInv, TInv, MInv, MigratorTypeOK, TargetGrows
  <1>7. \A u \in Tables : TableExists(r, u)' => TableExists(r, u)
    BY DEF TableExists, NoTable
  <1> QED
    BY <1>5, <1>6, <1>7, RunFollows

LEMMA LaunchKeepsTables ==
  ASSUME FreshIds, FInv, MInv', NEW s \in Scripts, Launch(s)
  PROVE  TablesFollowScripts'
  <1>1. script[s].pc = "new" /\ UNCHANGED <<storeVars, dataVars>>
    BY DEF Launch, CheckNoActiveRun, RefuseRun, At
  <1>2. \E l \in {"insert", "refused"} :
          OthersKeep(s) /\ script'[s] = [script[s] EXCEPT !.pc = l]
    BY PlanFacts DEF Launch, CheckNoActiveRun, RefuseRun, Goto, OthersKeep
  <1>3. runs'[RunOf[s]].status # "done"
    BY <1>1, PlanFacts DEF StatusFits, storeVars
  <1>4. \A r \in Runs : Said(r)' = Said(r)
    BY <1>1, SaidStays DEF storeVars
  <1>5. OnlyRun(RunOf[s])
    BY <1>1, <1>4 DEF OnlyRun, storeVars, dataVars
  <1> QED
    BY <1>1, <1>2, <1>3, <1>4, <1>5, PlanFacts, BeginsFollow DEF storeVars, dataVars

LEMMA PreflightFollows ==
  ASSUME FreshIds, FInv, MInv', NEW s \in Scripts, Preflight(s)
  PROVE  TablesFollowScripts'
  <1>1. script[s].pc = "preflight" /\ UNCHANGED <<storeVars, dataVars>>
    BY DEF Preflight, At
  <1>2. OthersKeep(s) /\ script'[s] = [script[s] EXCEPT !.pc = "register"]
    BY PlanFacts DEF Preflight, Goto, OthersKeep
  <1>3. runs'[RunOf[s]].status # "done"
    BY <1>1, PlanFacts DEF StatusFits, storeVars
  <1>4. \A r \in Runs : Said(r)' = Said(r)
    BY <1>1, SaidStays DEF storeVars
  <1>5. OnlyRun(RunOf[s])
    BY <1>1, <1>4 DEF OnlyRun, storeVars, dataVars
  <1> QED
    BY <1>1, <1>2, <1>3, <1>4, <1>5, PlanFacts, BeginsFollow DEF storeVars, dataVars

LEMMA AnnounceStartFollows ==
  ASSUME FreshIds, FInv, MInv', NEW s \in Scripts, AnnounceStart(s)
  PROVE  TablesFollowScripts'
  <1>1. /\ script[s].pc = "started" /\ UNCHANGED dataVars
        /\ WriteEvent(RunOf[s], [kind |-> "started"])
    BY DEF AnnounceStart, At
  <1>2. OthersKeep(s) /\ script'[s] = [script[s] EXCEPT !.pc = "preflight"]
    BY PlanFacts DEF AnnounceStart, Goto, OthersKeep
  <1>3. runs'[RunOf[s]].status # "done"
    BY <1>1, PlanFacts DEF StatusFits, WriteEvent
  <1>4. \A r \in Runs : \A e \in Telling : e \in Said(r)' <=> e \in Said(r)
    BY <1>1, SaidAppend, PlanFacts DEF Telling, TableDone, MInv
  <1>5. OnlyRun(RunOf[s])
    BY <1>1, <1>4 DEF OnlyRun, WriteEvent, dataVars
  <1> QED
    BY <1>1, <1>2, <1>3, <1>4, <1>5, PlanFacts, BeginsFollow DEF WriteEvent, dataVars

LEMMA CreateRunFollows ==
  ASSUME FreshIds, FInv, MInv', NEW s \in Scripts, CreateRun(s)
  PROVE  TablesFollowScripts'
  <1>1. script[s].pc = "insert" /\ UNCHANGED dataVars /\ InsertRun(RunOf[s])
    BY DEF CreateRun, At
  <1>2. OthersKeep(s) /\ script'[s] = [script[s] EXCEPT !.pc = "started"]
    BY PlanFacts DEF CreateRun, Goto, OthersKeep
  <1>3. /\ \A r \in Runs : r # RunOf[s] => runs'[r] = runs[r] /\ runTables'[r] = runTables[r]
        /\ runs'[RunOf[s]].status = "running"
        /\ \A u \in Tables : runTables'[RunOf[s]][u] = NoTable
        /\ UNCHANGED events
    BY <1>1, PlanFacts DEF InsertRun, MInv, StoreTypeOK
  <1>4. \A r \in Runs : Said(r)' = Said(r)
    BY <1>3, SaidStays
  <1>5. OnlyRun(RunOf[s])
    BY <1>1, <1>3, <1>4 DEF OnlyRun, dataVars
  <1>6. /\ \A u \in Tables : runTables'[RunOf[s]][u] \in {runTables[RunOf[s]][u], NoTable}
        /\ runs'[RunOf[s]].status # "done"
        /\ \A e \in Telling : e \in Said(RunOf[s])' <=> e \in Said(RunOf[s])
    BY <1>3, <1>4, PlanFacts
  <1> QED
    BY <1>1, <1>2, <1>5, <1>6, BeginsFollow DEF dataVars

\* An item other than the one that a step is about: its row, objects and rows
\* are what they were, and the script is not nearer to it than it was.
LEMMA OtherItem ==
  ASSUME FInv, MInv', NEW s \in Scripts, NEW j \in DOMAIN Plan[s],
         NEW y, script[s].late => y.item = script[s].item, y.late => script[s].late,
         y.late => y.item = script[s].item,
         Unregistered(y, j) => Unregistered(script[s], j),
         Waiting(y, j) => Waiting(script[s], j),
         Passed(y, j) => Passed(script[s], j),
         ~Current(y, j), y = script'[s], TargetGrows,
         LET r == RunOf[s]
             t == Plan[s][j].table
         IN /\ runTables'[r][t] = runTables[r][t] /\ landed'[r][t] = landed[r][t]
            /\ staged'[r][t] = staged[r][t]
            /\ TableDone(t) \in Said(r)' <=> TableDone(t) \in Said(r)
            /\ runs'[r].status = "done" => runTables[r][t].status = "done"
  PROVE  ItemFollows(s, j)'
  <1> DEFINE r == RunOf[s]
             t == Plan[s][j].table
             k == Plan[s][j].target
             x == script[s]
  <1>1. /\ x \in ScriptState /\ ItemFollows(s, j) /\ MInv
    BY PlanFacts
  <1>2. /\ k \in TargetTables /\ runTables[r][t] \in TableRow /\ landed[r][t] \in Nat
        /\ staged[r][t] \in Nat /\ target[k] \in Nat /\ target'[k] \in Nat
        /\ target'[k] >= target[k]
    BY Zenon, <1>1, ItemTypes DEF MInv, MigratorTypeOK, TargetGrows
  <1>3. ItemFits(x, j, Plan[s][j], runTables[r][t], landed[r][t], staged[r][t], target'[k])
    BY Zenon, <1>1, <1>2, HeldGrows DEF ItemFollows
  <1>4. ItemFits(y, j, Plan[s][j], runTables[r][t], landed[r][t], staged[r][t], target'[k])
    BY Zenon, <1>3 DEF ItemFits
  <1>5. SayingFits(x, j, runTables[r][t], TableDone(t) \in Said(r))
    BY Zenon, <1>1 DEF ItemFollows
  <1>6. SayingFits(y, j, runTables[r][t], TableDone(t) \in Said(r))
    BY <1>5 DEF SayingFits
  <1> QED
    BY Zenon, <1>4, <1>6 DEF ItemFollows, SayingFits

\* Nothing has been said of a run that has not come to an end.
LEMMA NothingSaid ==
  ASSUME FInv, NEW s \in Scripts, script[s].pc \notin EndPcs \cup {"exited", "killed"}
  PROVE  /\ ~script[s].late
         /\ \A e \in {[kind |-> "done"], [kind |-> "failed"], [kind |-> "cancelled"]} :
              e \notin Said(RunOf[s])
  BY PlanFacts DEF ScriptOK, TablesFollow, OutcomeFits

LEMMA RegisterNextFollows ==
  ASSUME FreshIds, TablesOnce, FInv, MInv', NEW s \in Scripts, RegisterNext(s)
  PROVE  TablesFollowScripts'
  <1> DEFINE r == RunOf[s]
             x == script[s]
             y == script'[s]
             i == script[s].item
             tb == Item(s).table
  <1>1. /\ MInv /\ TablesFollow(s) /\ ScriptOK(s) /\ r \in Runs /\ x \in ScriptState
        /\ script \in [Scripts -> ScriptState] /\ StatusFits(x, runs[r].status)
    BY PlanFacts
  <1>2. x.pc = "register" /\ PlanLeft(s) /\ UNCHANGED dataVars
    BY DEF RegisterNext, At
  <1>3. /\ y.pc = "register" /\ y.item = i + 1 /\ y.late = x.late /\ y.batch = x.batch
        /\ OthersKeep(s)
    BY <1>1, <1>2 DEF RegisterNext, OthersKeep, ScriptState
  <1>4. /\ i \in DOMAIN Plan[s] /\ Item(s) = Plan[s][i] /\ tb \in Tables /\ i \in Nat
    <2>1. i \in DOMAIN Plan[s]
      BY <1>1, <1>2, MigratorAssumptions DEF PlanLeft, ScriptOK, ScriptState
    <2> QED
      BY <2>1, ItemTypes, <1>1 DEF Item
  <1>5. PICK total \in {sourceRows[tb], Unknown} : RegisterTable(r, tb, total)
    BY DEF RegisterNext
  <1>6. /\ OtherRowsStay(r, tb) /\ UNCHANGED <<runs, events>>
        /\ runTables'[r][tb].status = "pending" /\ runTables'[r][tb].phase = "none"
        /\ runTables'[r][tb].done = 0
    BY Zenon, <1>1, <1>4, <1>5 DEF RegisterTable, OtherRowsStay, MInv, StoreTypeOK
  <1>7. \A o \in Runs : Said(o)' = Said(o)
    BY <1>6, SaidStays
  <1>8. OnlyRun(r) /\ TargetGrows
    BY <1>1, <1>2, <1>6, <1>7 DEF OnlyRun, OtherRowsStay, dataVars, TargetGrows, MInv,
       MigratorTypeOK
  <1>9. runs'[r].status # "done"
    BY <1>1, <1>2, <1>6 DEF StatusFits
  <1>10. ASSUME NEW j \in DOMAIN Plan[s] PROVE ItemFollows(s, j)'
    <2> DEFINE t == Plan[s][j].table
    <2>1. j \in Nat /\ t \in Tables /\ ItemFollows(s, j)
      BY PlanFacts
    <2>2. CASE j = i
      <3>1. Unregistered(x, j)
        BY <1>2, <1>4, <2>2 DEF Unregistered
      <3>2. landed[r][t] = 0 /\ staged[r][t] = 0 /\ TableDone(t) \notin Said(r)
        BY Zenon, <2>1, <3>1 DEF ItemFollows, ItemFits, SayingFits
      <3>3. ~Unregistered(y, j) /\ ~Passed(y, j) /\ ~Current(y, j)
        BY <1>3, <1>4, <2>2 DEF Unregistered, Passed, Current
      <3>4. ~y.late /\ BatchSize \in Nat
        BY <1>2, <1>3, NothingSaid, MigratorAssumptions
      <3>5. /\ runTables'[r][t].status = "pending" /\ runTables'[r][t].phase = "none"
            /\ runTables'[r][t].done = 0
            /\ landed'[r][t] = 0 /\ staged'[r][t] = 0
        BY Zenon, <1>2, <1>4, <1>6, <2>2, <3>2 DEF dataVars
      <3>6. ItemFits(y, j, Plan[s][j], runTables'[r][t], landed'[r][t], staged'[r][t],
                     target'[Plan[s][j].target])
        BY <3>3, <3>4, <3>5 DEF ItemFits
      <3> QED
        BY Zenon, <1>1, <1>7, <1>9, <3>2, <3>6 DEF ItemFollows, SayingFits
    <2>3. CASE j # i
      <3>1. t # tb
        BY <1>4, <2>3 DEF TablesOnce
      <3>2. /\ Unregistered(y, j) => Unregistered(x, j)
            /\ Waiting(y, j) => Waiting(x, j)
            /\ ~Passed(y, j) /\ ~Current(y, j)
        BY <1>2, <1>3, <1>4, <2>1, <2>3 DEF Unregistered, Waiting, Passed, Current
      <3>3. runTables'[r][t] = runTables[r][t]
        BY <1>1, <1>6, <2>1, <3>1 DEF OtherRowsStay
      <3>4. ~x.late /\ ~y.late
        BY <1>2, <1>3, NothingSaid
      <3> QED
        BY <1>1, <1>2, <1>7, <1>8, <1>9, <3>2, <3>3, <3>4, OtherItem DEF dataVars
    <2> QED
      BY <2>2, <2>3
  <1>11. TablesFollow(s)'
    <2>1. OutcomeFits(y, runs'[r].status, Said(r)')
      BY <1>2, <1>3, <1>7, NothingSaid, <1>1 DEF OutcomeFits
    <2> QED
      BY <1>1, <1>3, <1>10, <2>1 DEF TablesFollow
  <1>12. \A u \in Tables : TableExists(r, u)' => TableExists(r, u) \/ u = tb
    BY <1>1, <1>6 DEF TableExists, OtherRowsStay
  <1> QED
    BY <1>3, <1>4, <1>8, <1>11, <1>12, RunFollows

\* Every item is waiting before and after.
LEMMA AllRegisteredFollows ==
  ASSUME FreshIds, FInv, MInv', NEW s \in Scripts, AllRegistered(s)
  PROVE  TablesFollowScripts'
  <1> DEFINE r == RunOf[s]
             x == script[s]
             y == script'[s]
  <1>1. /\ MInv /\ TablesFollow(s) /\ ScriptOK(s) /\ r \in Runs /\ x \in ScriptState
        /\ script \in [Scripts -> ScriptState] /\ StatusFits(x, runs[r].status)
        /\ \A j \in DOMAIN Plan[s] :
             j \in Nat /\ j >= 1 /\ j \in 1 .. Len(Plan[s]) /\ Len(Plan[s]) \in Nat
    BY PlanFacts
  <1>2. x.pc = "register" /\ ~PlanLeft(s) /\ UNCHANGED <<storeVars, dataVars>>
    BY DEF AllRegistered, At
  <1>3. /\ y.pc = "table" /\ y.item = 1 /\ y.late = x.late /\ y.batch = x.batch
        /\ OthersKeep(s)
    BY <1>1, <1>2 DEF AllRegistered, OthersKeep, ScriptState
  <1>4. \A o \in Runs : Said(o)' = Said(o)
    BY <1>2, SaidStays DEF storeVars
  <1>5. RowsKeep(s) /\ TargetGrows
    BY <1>1, <1>2, <1>4 DEF RowsKeep, storeVars, dataVars, TargetGrows, MInv, MigratorTypeOK
  <1>6. runs'[r].status # "done" /\ ~x.late
    BY <1>1, <1>2, NothingSaid DEF StatusFits, storeVars
  <1>7. ASSUME NEW j \in DOMAIN Plan[s] PROVE ItemFollows(s, j)'
    <2>1. /\ ~Unregistered(y, j) /\ ~Passed(y, j) /\ ~Current(y, j)
          /\ Waiting(x, j)
      BY <1>1, <1>2, <1>3 DEF Unregistered, Waiting, Passed, Current, PlanLeft, ScriptState
    <2> QED
      BY <1>1, <1>3, <1>4, <1>5, <1>6, <2>1, OtherItem DEF RowsKeep
  <1>8. TablesFollow(s)'
    <2>1. OutcomeFits(y, runs'[r].status, Said(r)')
      BY <1>1, <1>2, <1>3, <1>4, NothingSaid DEF OutcomeFits
    <2> QED
      BY <1>1, <1>3, <1>7, <2>1 DEF TablesFollow
  <1> QED
    BY <1>3, <1>5, <1>8, KeepsFollow

LEMMA AnnounceTableFollows ==
  ASSUME FreshIds, TablesOnce, FInv, MInv', NEW s \in Scripts, AnnounceTable(s)
  PROVE  TablesFollowScripts'
  <1> DEFINE r == RunOf[s]
             x == script[s]
             y == script'[s]
             i == script[s].item
             tb == Item(s).table
             k == Item(s).target
  <1>1. x.pc = "sayTableDone" /\ WriteEvent(r, TableDone(tb)) /\ UNCHANGED dataVars
    BY DEF AnnounceTable, At, TableDone
  <1>2. AtItem(s)
    BY <1>1, Working
  <1>3. /\ MInv /\ TablesFollow(s) /\ r \in Runs /\ x \in ScriptState
        /\ StatusFits(x, runs[r].status)
        /\ i \in DOMAIN Plan[s] /\ Item(s) = Plan[s][i] /\ tb \in Tables /\ i \in Nat
        /\ script \in [Scripts -> ScriptState]
    BY <1>2, AtItemFacts, PlanFacts DEF ScriptState
  <1>4. /\ y.pc = "table" /\ y.item = i + 1 /\ y.late = x.late /\ y.batch = x.batch
        /\ OthersKeep(s)
    BY <1>1, <1>3 DEF AnnounceTable, OthersKeep, ScriptState
  <1>5. /\ Said(r)' = Said(r) \cup {TableDone(tb)}
        /\ \A o \in Runs : o # r => Said(o)' = Said(o)
        /\ UNCHANGED <<runs, runTables>>
    BY <1>1, <1>3, SaidAppend DEF MInv, WriteEvent
  <1>6. RowsKeep(s) /\ TargetGrows
    BY <1>1, <1>3, <1>5 DEF RowsKeep, dataVars, TargetGrows, MInv, MigratorTypeOK
  <1>7. runs'[r].status # "done" /\ ~x.late
    BY <1>1, <1>3, <1>5, NothingSaid DEF StatusFits
  <1>8. ASSUME NEW j \in DOMAIN Plan[s] PROVE ItemFollows(s, j)'
    <2> DEFINE t == Plan[s][j].table
    <2>1. j \in Nat /\ t \in Tables /\ ItemFollows(s, j)
      BY PlanFacts
    <2>2. CASE j = i
      <3>1. Current(x, j)
        BY <1>1, <2>2 DEF Current
      <3>2. /\ runTables[r][t].status = "done"
            /\ ItemFits(x, j, Plan[s][j], runTables[r][t], landed[r][t], staged[r][t],
                        target[Plan[s][j].target])
        BY Zenon, <1>1, <2>1, <3>1 DEF ItemFollows, ItemFits
      <3>3. ~Unregistered(y, j) /\ ~Waiting(y, j) /\ ~Current(y, j)
        BY <1>3, <1>4, <2>2 DEF Unregistered, Waiting, Current
      <3>4. ItemFits(y, j, Plan[s][j], runTables[r][t], landed[r][t], staged[r][t],
                     target[Plan[s][j].target])
        BY Zenon, <1>4, <1>7, <3>2, <3>3 DEF ItemFits
      <3> QED
        BY Zenon, <1>6, <1>7, <3>2, <3>3, <3>4 DEF ItemFollows, SayingFits, RowsKeep, dataVars
    <2>3. CASE j # i
      <3>1. t # tb
        BY <1>3, <2>3 DEF TablesOnce
      <3>2. /\ ~Unregistered(y, j) /\ ~Current(y, j)
            /\ Waiting(y, j) => Waiting(x, j)
            /\ Passed(y, j) => Passed(x, j)
        BY <1>1, <1>3, <1>4, <2>1, <2>3 DEF Unregistered, Waiting, Passed, Current
      <3>3. TableDone(t) \in Said(r)' <=> TableDone(t) \in Said(r)
        BY <1>5, <3>1 DEF TableDone
      <3> QED
        BY <1>4, <1>6, <1>7, <3>2, <3>3, OtherItem DEF RowsKeep
    <2> QED
      BY <2>2, <2>3
  <1>9. TablesFollow(s)'
    <2>1. \A e \in {[kind |-> "done"], [kind |-> "failed"], [kind |-> "cancelled"]} :
            e \notin Said(r)'
      BY <1>1, <1>5, NothingSaid DEF TableDone
    <2>2. OutcomeFits(y, runs'[r].status, Said(r)')
      BY <1>4, <1>7, <2>1 DEF OutcomeFits
    <2> QED
      BY <1>3, <1>4, <1>8, <2>2 DEF TablesFollow
  <1> QED
    BY <1>4, <1>6, <1>9, KeepsFollow

-----------------------------------------------------------------------------
(* The end of a run *)

\* The script has come out of its plan, with its items as they are.
LEMMA StopsFollow ==
  ASSUME FreshIds, FInv, MInv', NEW s \in Scripts, OthersKeep(s), RowsKeep(s),
         script'[s].pc \in EndPcs \cup {"exited", "killed"},
         script'[s].pc = "finish" /\ script'[s].outcome = "done" => ~PlanLeft(s) /\ At(s, "table"),
         script'[s].item = script[s].item, script'[s].batch = script[s].batch,
         script'[s].late = script[s].late,
         \A t \in Tables : TableDone(t) \in Said(RunOf[s])' <=> TableDone(t) \in Said(RunOf[s]),
         runs'[RunOf[s]].status = "done" =>
            \/ runs[RunOf[s]].status = "done"
            \/ script[s].pc = "finish" /\ script[s].outcome = "done",
         OutcomeFits(script'[s], runs'[RunOf[s]].status, Said(RunOf[s])')
  PROVE  TablesFollowScripts'
  <1> DEFINE r == RunOf[s]
             x == script[s]
             y == script'[s]
  <1>1. /\ TablesFollow(s) /\ r \in Runs /\ x \in ScriptState /\ MInv
    BY PlanFacts
  <1>2. TargetGrows
    BY <1>1 DEF RowsKeep, TargetGrows, MInv, MigratorTypeOK
  <1>3. ASSUME NEW j \in DOMAIN Plan[s] PROVE ItemFollows(s, j)'
    <2>1. /\ j \in Nat /\ j \in 1 .. Len(Plan[s]) /\ Len(Plan[s]) \in Nat
          /\ Plan[s][j].table \in Tables /\ ItemFollows(s, j)
      BY PlanFacts
    <2>2. ~Unregistered(y, j) /\ ~Waiting(y, j) /\ ~Current(y, j)
      BY DEF Unregistered, Waiting, Current
    <2>3. Passed(y, j) => Passed(x, j)
      <3>1. Passed(y, j) => y.pc = "finish" /\ y.outcome = "done"
        BY DEF Passed
      <3>2. ~PlanLeft(s) => j < x.item
        BY <1>1, <2>1 DEF PlanLeft, ScriptState
      <3> QED
        BY <3>1, <3>2 DEF Passed, At
    <2>4. runs[r].status = "done" => runTables[r][Plan[s][j].table].status = "done"
      BY Zenon, <2>1 DEF ItemFollows
    <2>5. Passed(x, j) => runTables[r][Plan[s][j].table].status = "done"
      BY Zenon, <2>1 DEF ItemFollows, ItemFits
    <2>6. x.pc = "finish" /\ x.outcome = "done" => Passed(x, j)
      BY DEF Passed
    <2>7. runs'[r].status = "done" => runTables[r][Plan[s][j].table].status = "done"
      BY <2>4, <2>5, <2>6
    <2> QED
      BY <1>2, <2>1, <2>2, <2>3, <2>7, OtherItem DEF RowsKeep
  <1>4. TablesFollow(s)'
    BY <1>1, <1>3 DEF TablesFollow
  <1> QED
    BY <1>4, KeepsFollow

LEMMA StillSaid ==
  ASSUME FInv, NEW s \in Scripts, UNCHANGED <<storeVars, staged, landed, target>>
  PROVE  /\ RowsKeep(s) /\ Said(RunOf[s])' = Said(RunOf[s])
         /\ runs'[RunOf[s]] = runs[RunOf[s]]
  <1>1. \A r \in Runs : Said(r)' = Said(r)
    BY SaidStays DEF storeVars
  <1> QED
    BY <1>1, PlanFacts DEF RowsKeep, storeVars

\* The run is given up on, or its plan is done.
LEMMA LeavesFollow ==
  ASSUME FreshIds, FInv, MInv', NEW s \in Scripts, UNCHANGED <<storeVars, dataVars>>,
         \/ script[s].pc \in RunPcs
         \/ script[s].pc \in EndPcs /\ script[s].outcome = "done",
         NEW oc \in {"failed", "done"}, oc = "done" => ~PlanLeft(s) /\ At(s, "table"),
         script' = [script EXCEPT ![s].pc = "finish", ![s].outcome = oc]
  PROVE  TablesFollowScripts'
  <1> DEFINE r == RunOf[s]
             x == script[s]
             y == script'[s]
  <1>1. /\ TablesFollow(s) /\ r \in Runs /\ x \in ScriptState
        /\ script \in [Scripts -> ScriptState] /\ StatusFits(x, runs[r].status)
    BY PlanFacts
  <1>2. /\ y.pc = "finish" /\ y.outcome = oc /\ y.item = x.item /\ y.batch = x.batch
        /\ y.late = x.late /\ OthersKeep(s)
    BY <1>1 DEF OthersKeep, ScriptState
  <1>3. RowsKeep(s) /\ Said(r)' = Said(r) /\ runs'[r] = runs[r]
    BY StillSaid DEF dataVars
  <1>4. OutcomeFits(x, runs[r].status, Said(r))
    BY <1>1 DEF TablesFollow
  <1>5. CASE x.pc \in RunPcs
    <2>1. /\ ~x.late
          /\ \A e \in {[kind |-> "done"], [kind |-> "failed"], [kind |-> "cancelled"]} :
               e \notin Said(r)
      BY <1>5, NothingSaid
    <2>2. OutcomeFits(y, runs'[r].status, Said(r)')
      BY <1>2, <1>3, <2>1 DEF OutcomeFits
    <2> QED
      BY <1>2, <1>3, <2>2, StopsFollow
  <1>6. CASE x.pc \in EndPcs /\ x.outcome = "done"
    <2>1. oc = "failed" /\ ~x.late
      BY <1>4, <1>6 DEF OutcomeFits, At
    <2>2. OutcomeFits(y, runs'[r].status, Said(r)')
      BY <1>2, <1>3, <1>4, <1>6, <2>1 DEF OutcomeFits
    <2> QED
      BY <1>2, <1>3, <2>1, <2>2, StopsFollow
  <1> QED
    BY <1>5, <1>6

LEMMA FailFollows ==
  ASSUME FreshIds, FInv, MInv', NEW s \in Scripts, Fail(s)
  PROVE  TablesFollowScripts'
  BY LeavesFollow DEF Fail

LEMMA RejectStrategyFollows ==
  ASSUME FreshIds, FInv, MInv', NEW s \in Scripts, RejectStrategy(s)
  PROVE  TablesFollowScripts'
  BY LeavesFollow DEF RejectStrategy, At

LEMMA PlanDoneFollows ==
  ASSUME FreshIds, FInv, MInv', NEW s \in Scripts, PlanDone(s)
  PROVE  TablesFollowScripts'
  BY LeavesFollow DEF PlanDone, At

LEMMA KillFollows ==
  ASSUME FreshIds, FInv, MInv', NEW s \in Scripts, Kill(s)
  PROVE  TablesFollowScripts'
  <1> DEFINE r == RunOf[s]
             x == script[s]
             y == script'[s]
  <1>1. /\ TablesFollow(s) /\ r \in Runs /\ x \in ScriptState
        /\ script \in [Scripts -> ScriptState]
    BY PlanFacts
  <1>2. /\ y.pc = "killed" /\ y.outcome = x.outcome /\ y.item = x.item /\ y.batch = x.batch
        /\ y.late = x.late /\ OthersKeep(s)
    BY <1>1 DEF Kill, Goto, OthersKeep, ScriptState
  <1>3. RowsKeep(s) /\ Said(r)' = Said(r) /\ runs'[r] = runs[r]
    BY StillSaid DEF Kill, dataVars
  <1>4. OutcomeFits(y, runs'[r].status, Said(r)')
    BY <1>1, <1>2, <1>3 DEF TablesFollow, OutcomeFits
  <1> QED
    BY <1>2, <1>3, <1>4, StopsFollow

LEMMA ExitFollows ==
  ASSUME FreshIds, FInv, MInv', NEW s \in Scripts, Exit(s)
  PROVE  TablesFollowScripts'
  <1> DEFINE r == RunOf[s]
             x == script[s]
             y == script'[s]
  <1>1. /\ TablesFollow(s) /\ r \in Runs /\ x \in ScriptState
        /\ script \in [Scripts -> ScriptState]
    BY PlanFacts
  <1>2. /\ y.pc = "exited" /\ y.outcome = x.outcome /\ y.item = x.item /\ y.batch = x.batch
        /\ y.late = x.late /\ OthersKeep(s)
    BY <1>1 DEF Exit, Goto, OthersKeep, ScriptState
  <1>3. RowsKeep(s) /\ Said(r)' = Said(r) /\ runs'[r] = runs[r]
    BY StillSaid DEF Exit, dataVars
  <1>4. OutcomeFits(y, runs'[r].status, Said(r)')
    BY <1>1, <1>2, <1>3 DEF TablesFollow, OutcomeFits
  <1> QED
    BY <1>2, <1>3, <1>4, StopsFollow

LEMMA FinishRunFollows ==
  ASSUME FreshIds, FInv, MInv', NEW s \in Scripts, FinishRun(s)
  PROVE  TablesFollowScripts'
  <1> DEFINE r == RunOf[s]
             x == script[s]
             y == script'[s]
  <1>1. /\ TablesFollow(s) /\ r \in Runs /\ x \in ScriptState /\ MInv
        /\ script \in [Scripts -> ScriptState]
    BY PlanFacts
  <1>2. /\ x.pc = "finish" /\ EndRun(r, x.outcome) /\ UNCHANGED dataVars
    BY DEF FinishRun, At
  <1>3. /\ y.pc = "sayFinished" /\ y.outcome = x.outcome /\ y.item = x.item /\ y.batch = x.batch
        /\ y.late = x.late /\ OthersKeep(s)
    BY <1>1 DEF FinishRun, Goto, OthersKeep, ScriptState
  <1>4. /\ runs'[r].status = IF runs[r].status = "absent" THEN "absent" ELSE x.outcome
        /\ \A o \in Runs : o # r => runs'[o] = runs[o]
        /\ UNCHANGED <<runTables, events>>
    BY <1>1, <1>2 DEF EndRun, RunExists, MInv, StoreTypeOK
  <1>5. \A o \in Runs : Said(o)' = Said(o)
    BY <1>4, SaidStays
  <1>6. RowsKeep(s)
    BY <1>2, <1>4, <1>5 DEF RowsKeep, dataVars
  <1>7. OutcomeFits(y, runs'[r].status, Said(r)')
    BY <1>1, <1>2, <1>3, <1>4, <1>5 DEF TablesFollow, OutcomeFits
  <1> QED
    BY <1>1, <1>2, <1>3, <1>4, <1>5, <1>6, <1>7, StopsFollow

LEMMA AnnounceFinishFollows ==
  ASSUME FreshIds, FInv, MInv', NEW s \in Scripts, AnnounceFinish(s)
  PROVE  TablesFollowScripts'
  <1> DEFINE r == RunOf[s]
             x == script[s]
             y == script'[s]
  <1>1. /\ TablesFollow(s) /\ r \in Runs /\ x \in ScriptState /\ MInv
        /\ script \in [Scripts -> ScriptState] /\ StatusFits(x, runs[r].status)
        /\ ScriptOK(s)
    BY PlanFacts
  <1>2. /\ x.pc = "sayFinished" /\ UNCHANGED dataVars
        /\ WriteEvent(r, [kind |-> x.outcome])
    BY DEF AnnounceFinish, At
  <1>3. /\ y.pc = "logFinished" /\ y.outcome = x.outcome /\ y.item = x.item /\ y.batch = x.batch
        /\ y.late = x.late /\ OthersKeep(s)
    BY <1>1 DEF AnnounceFinish, Goto, OthersKeep, ScriptState
  <1>4. /\ Said(r)' = Said(r) \cup {[kind |-> x.outcome]}
        /\ \A o \in Runs : o # r => Said(o)' = Said(o)
        /\ UNCHANGED <<runs, runTables>>
    BY <1>1, <1>2, SaidAppend DEF MInv, WriteEvent
  <1>5. RowsKeep(s)
    BY <1>2, <1>4 DEF RowsKeep, dataVars
  <1>6. \A t \in Tables : TableDone(t) \in Said(r)' <=> TableDone(t) \in Said(r)
    BY <1>4 DEF TableDone
  <1>7. runs[r].status \in {x.outcome, "absent"} /\ x.outcome \in TerminalStatus
    BY <1>1, <1>2 DEF StatusFits, ScriptOK, ScriptState
  <1>8. OutcomeFits(x, runs[r].status, Said(r))
    BY <1>1 DEF TablesFollow
  <1>9. OutcomeFits(y, runs'[r].status, Said(r)')
    <2>1. [kind |-> "done"] \in Said(r)' => [kind |-> "done"] \in Said(r) \/ x.outcome = "done"
      BY <1>4
    <2>2. [kind |-> "failed"] \in Said(r)' => [kind |-> "failed"] \in Said(r) \/ x.outcome = "failed"
      BY <1>4
    <2>3. [kind |-> "cancelled"] \in Said(r)'
            => [kind |-> "cancelled"] \in Said(r) \/ x.outcome = "cancelled"
      BY <1>4
    <2> QED
      BY <1>2, <1>3, <1>4, <1>7, <1>8, <2>1, <2>2, <2>3 DEF OutcomeFits
  <1> QED
    BY <1>3, <1>4, <1>5, <1>6, <1>9, StopsFollow

LEMMA AnnounceCancelFollows ==
  ASSUME FreshIds, FInv, MInv', NEW s \in Scripts, AnnounceCancel(s)
  PROVE  TablesFollowScripts'
  <1> DEFINE r == RunOf[s]
             x == script[s]
             y == script'[s]
  <1>1. /\ r \in Runs /\ x \in ScriptState /\ MInv /\ script \in [Scripts -> ScriptState]
    BY PlanFacts
  <1>2. /\ x.pc = "sayCancelled" /\ UNCHANGED dataVars
        /\ WriteEvent(r, [kind |-> "cancelled"])
    BY DEF AnnounceCancel, At
  <1>3. /\ y.pc = "finish" /\ y.outcome = "cancelled" /\ y.item = x.item /\ y.batch = x.batch
        /\ y.late = x.late /\ OthersKeep(s)
    BY <1>1 DEF AnnounceCancel, OthersKeep, ScriptState
  <1>4. /\ Said(r)' = Said(r) \cup {[kind |-> "cancelled"]}
        /\ \A o \in Runs : o # r => Said(o)' = Said(o)
        /\ UNCHANGED <<runs, runTables>>
    BY <1>1, <1>2, SaidAppend DEF MInv, WriteEvent
  <1>5. RowsKeep(s)
    BY <1>2, <1>4 DEF RowsKeep, dataVars
  <1>6. \A t \in Tables : TableDone(t) \in Said(r)' <=> TableDone(t) \in Said(r)
    BY <1>4 DEF TableDone
  <1>7. ~x.late /\ [kind |-> "done"] \notin Said(r)' /\ [kind |-> "failed"] \notin Said(r)'
    BY <1>2, <1>4, NothingSaid
  <1>8. OutcomeFits(y, runs'[r].status, Said(r)')
    BY <1>3, <1>7 DEF OutcomeFits
  <1> QED
    BY <1>3, <1>4, <1>5, <1>6, <1>8, StopsFollow

\* What a load that was given up on still inserts.
LEMMA LandLateFollows ==
  ASSUME FreshIds, TablesOnce, FInv, MInv', NEW s \in Scripts, LandLate(s)
  PROVE  TablesFollowScripts'
  <1> DEFINE r == RunOf[s]
             x == script[s]
             y == script'[s]
             i == script[s].item
  <1>1. /\ TablesFollow(s) /\ r \in Runs /\ x \in ScriptState /\ MInv /\ ScriptOK(s)
        /\ script \in [Scripts -> ScriptState]
    BY PlanFacts
  <1>2. x.late /\ UNCHANGED <<storeVars, staged>>
    BY DEF LandLate
  <1>3. /\ y.pc = x.pc /\ y.outcome = x.outcome /\ y.item = i /\ y.batch = x.batch
        /\ ~y.late /\ OthersKeep(s) /\ x.pc \in EndPcs \cup {"exited", "killed"}
    BY <1>1, <1>2 DEF LandLate, OthersKeep, ScriptState, ScriptOK
  <1>4. i \in DOMAIN Plan[s] /\ Item(s) = Plan[s][i]
    BY <1>1, <1>2, MigratorAssumptions DEF PlanLeft, ScriptOK, ScriptState, Item
  <1>5. PICK rows \in 0 .. staged[r][Item(s).table] : Land(s, rows)
    BY DEF LandLate
  <1>6. /\ Item(s).table \in Tables /\ Item(s).target \in TargetTables
        /\ rows \in Nat
    BY <1>1, <1>4, <1>5, ItemTypes
  <1>7. /\ TargetGrows
        /\ \A o \in Runs, u \in Tables : (o # r \/ u # Item(s).table) =>
             landed'[o][u] = landed[o][u]
    BY <1>1, <1>5, <1>6, RowsLand DEF MInv
  <1>8. \A o \in Runs : Said(o)' = Said(o)
    BY <1>2, SaidStays DEF storeVars
  <1>9. OnlyRun(r)
    BY <1>2, <1>7, <1>8 DEF OnlyRun, storeVars
  <1>10. OutcomeFits(x, runs[r].status, Said(r)) /\ x.outcome = "failed"
    BY <1>1, <1>2 DEF TablesFollow, OutcomeFits
  <1>11. ASSUME NEW j \in DOMAIN Plan[s] PROVE ItemFollows(s, j)'
    <2> DEFINE t == Plan[s][j].table
    <2>1. j \in Nat /\ t \in Tables /\ ItemFollows(s, j)
      BY PlanFacts
    <2>2. ~Unregistered(y, j) /\ ~Waiting(y, j) /\ ~Current(y, j) /\ ~Passed(y, j)
      BY <1>3, <1>10 DEF Unregistered, Waiting, Current, Passed
    <2>3. CASE j = i
      <3>1. /\ runTables[r][t].status \in {"failed", "absent"}
            /\ runTables[r][t].done = 0 /\ Plan[s][j].strategy # "direct"
        BY ZenonT(30), <1>2, <2>1, <2>3 DEF ItemFollows, ItemFits
      <3>2. ItemFits(y, j, Plan[s][j], runTables[r][t], landed'[r][t], staged'[r][t],
                     target'[Plan[s][j].target])
        BY <1>3, <2>2, <3>1 DEF ItemFits
      <3>3. SayingFits(x, j, runTables[r][t], TableDone(t) \in Said(r))
        BY <2>1 DEF ItemFollows
      <3>4. SayingFits(y, j, runTables[r][t], TableDone(t) \in Said(r))
        BY <2>2, <3>3 DEF SayingFits
      <3> QED
        BY Zenon, <1>1, <1>2, <1>8, <2>1, <3>2, <3>4 DEF ItemFollows, storeVars, SayingFits
    <2>4. CASE j # i
      <3>1. t # Item(s).table
        BY <1>4, <2>4 DEF TablesOnce
      <3>2. /\ landed'[r][t] = landed[r][t] /\ runs'[r].status = runs[r].status
            /\ Said(r)' = Said(r)
        BY <1>1, <1>2, <1>7, <1>8, <2>1, <3>1 DEF storeVars
      <3>3. runs'[r].status = "done" => runTables[r][t].status = "done"
        BY Zenon, <2>1, <3>2 DEF ItemFollows
      <3> QED
        BY <1>2, <1>3, <1>7, <2>2, <3>2, <3>3, OtherItem DEF storeVars
    <2> QED
      BY <2>3, <2>4
  <1>12. TablesFollow(s)'
    <2>1. OutcomeFits(y, runs'[r].status, Said(r)')
      BY <1>1, <1>2, <1>3, <1>8, <1>10 DEF OutcomeFits, storeVars
    <2> QED
      BY <1>1, <1>3, <1>11, <2>1 DEF TablesFollow
  <1> QED
    BY <1>2, <1>3, <1>7, <1>9, <1>12, RunFollows DEF storeVars, TableExists

-----------------------------------------------------------------------------
(* The source and the control API *)

LEMMA SourceInsertFollows ==
  ASSUME FInv, NEW t \in Tables, SourceInsert(t)
  PROVE  TablesFollowScripts'
  <1>1. UNCHANGED <<script, runs, runTables, events, landed, staged, target>>
    BY DEF SourceInsert, storeVars
  <1> QED
    BY <1>1, SaidStays, NothingFollows DEF FInv

\* The delete of an ended run takes its rows away.
LEMMA DeleteFollows ==
  ASSUME FInv, NEW c \in Callers, Delete(c), UNCHANGED migratorVars
  PROVE  TablesFollowScripts'
  <1>1. PICK r \in Runs : /\ r = request[c].run
                          /\ request[c] # NoRequest /\ request[c].op = "delete"
                          /\ DeleteRun(r)
    BY InFlight DEF Delete, NoRequest, FInv, LInv, OInv, RInv, TInv
  <1>2. /\ runs'[r].status = "absent"
        /\ \A u \in Tables : runTables'[r][u] = NoTable
        /\ \A o \in Runs : o # r => runs'[o] = runs[o] /\ runTables'[o] = runTables[o]
        /\ UNCHANGED <<events, script, landed, staged, target>>
    BY <1>1 DEF DeleteRun, NoRun, FInv, LInv, OInv, RInv, TInv, MInv, StoreTypeOK,
       migratorVars, dataVars
  <1>3. \A o \in Runs : Said(o)' = Said(o)
    BY <1>2, SaidStays
  <1>4. ASSUME NEW s \in Scripts PROVE TablesFollow(s)'
    <2> DEFINE x == script[s]
    <2>1. /\ TablesFollow(s) /\ RunOf[s] \in Runs /\ x \in ScriptState
          /\ StatusFits(x, runs[RunOf[s]].status)
      BY PlanFacts
    <2>2. CASE RunOf[s] # r
      BY <1>2, <1>3, <2>1, <2>2 DEF TablesFollow, ItemFollows, SayingFits
    <2>3. CASE RunOf[s] = r
      <3>1. /\ x.pc \notin {"new", "refused", "insert"}
            /\ runs[r].status \notin ActiveStatus
        BY <1>1, <2>3 DEF FInv, LInv, DeletesAreSafe, IsActive
      <3>2. /\ x.pc \in EndPcs \cup {"exited", "killed"}
            /\ x.pc = "finish" => x.outcome = "failed"
        BY <2>1, <2>3, <3>1 DEF StatusFits, ActiveStatus, ScriptState
      <3>3. x.late => x.pc # "finish"
        BY <2>1, <2>3, <3>1 DEF TablesFollow, OutcomeFits, ActiveStatus
      <3>4. OutcomeFits(x, "absent", Said(r))
        BY <2>1, <2>3, <3>3 DEF TablesFollow, OutcomeFits
      <3>5. ASSUME NEW j \in DOMAIN Plan[s] PROVE ItemFollows(s, j)'
        <4> DEFINE t == Plan[s][j].table
        <4>1. t \in Tables /\ ItemFollows(s, j) /\ j \in Nat
          BY PlanFacts
        <4>2. ~Unregistered(x, j) /\ ~Waiting(x, j) /\ ~Current(x, j) /\ ~Passed(x, j)
          BY <3>2 DEF Unregistered, Waiting, Current, Passed
        <4>3. x.late /\ j = x.item => Plan[s][j].strategy # "direct"
          BY Zenon, <4>1 DEF ItemFollows, ItemFits
        <4>4. /\ runTables'[r][t].status = "absent" /\ runTables'[r][t].done = 0
          BY <1>2, <4>1 DEF NoTable
        <4>5. ItemFits(x, j, Plan[s][j], runTables'[r][t], landed[r][t], staged[r][t],
                       target[Plan[s][j].target])
          BY <4>2, <4>3, <4>4 DEF ItemFits
        <4> QED
          BY <1>2, <2>3, <4>2, <4>4, <4>5 DEF ItemFollows, SayingFits
      <3> QED
        BY <1>2, <1>3, <2>1, <2>3, <3>4, <3>5 DEF TablesFollow
    <2> QED
      BY <2>2, <2>3
  <1>5. RowsHaveScripts'
    BY <1>2 DEF FInv, TablesFollowScripts, RowsHaveScripts, RunExists, TableExists, NoTable
  <1> QED
    BY <1>4, <1>5 DEF TablesFollowScripts

LEMMA ApiFollowsTables ==
  ASSUME FInv, ApiNext, UNCHANGED migratorVars
  PROVE  TablesFollowScripts'
  <1>1. PICK c \in Callers :
          (\E q \in Requests : Accept(c, q.op, q.run)) \/ Handle(c) \/ Abort(c)
    BY DEF ApiNext
  <1>2. CASE Mark(c)
    <2>1. /\ request[c].run \in Runs /\ StoreTypeOK
          /\ WriteEvent(request[c].run, [kind |-> "step_validated"])
      BY <1>2, InFlight DEF Mark, FInv, LInv, OInv, RInv, TInv, MInv
    <2>2. \A r \in Runs : \A e \in Telling : e \in Said(r)' <=> e \in Said(r)
      BY <2>1, SaidAppend DEF Telling, TableDone
    <2> QED
      BY <2>1, <2>2, NothingFollows DEF FInv, WriteEvent, migratorVars, dataVars
  <1>3. CASE (\E q \in Requests : Accept(c, q.op, q.run)) \/ WriteFlag(c) \/ Abort(c)
    <2>1. UNCHANGED <<runs, runTables, events>>
      BY <1>3 DEF Accept, WriteFlag, Abort, SetControlFlag, storeVars
    <2> QED
      BY <2>1, SaidStays, NothingFollows DEF FInv, migratorVars, dataVars
  <1> QED
    BY <1>1, <1>2, <1>3, DeleteFollows DEF Handle

-----------------------------------------------------------------------------
(* The invariant *)

LEMMA MigratorFollows ==
  ASSUME FreshIds, TablesOnce, FInv, MInv', MigratorNext
  PROVE  TablesFollowScripts'
  <1>1. ASSUME NEW s \in Scripts, DirectStep(s) PROVE TablesFollowScripts'
    BY <1>1, BeginDirectFollows, OpenCursorFollows, FetchBatchFollows, CursorEmptyFollows,
       InsertBatchFollows, RecordInsertedFollows DEF DirectStep
  <1>2. ASSUME NEW s \in Scripts, StagedStep(s) PROVE TablesFollowScripts'
    BY <1>2, BeginStagedFollows, RejectStrategyFollows, EnterUnloadingFollows, UnloadFollows,
       EnterStagedFollows, EnterLoadingFollows, CountBaselineFollows, LoadStagedFollows,
       CountLoadedFollows, EnterValidatingFollows, CountsMatchFollows, CountsDifferFollows,
       CleanUpFollows, RecordLoadedFollows, LeavePhasesFollows DEF StagedStep
  <1>3. ASSUME NEW s \in Scripts, ControlStep(s) PROVE TablesFollowScripts'
    BY <1>3, ReadFlagFollows, MarkPausedFollows, AnnouncePauseFollows, PollFlagFollows,
       MarkRunningFollows, AnnounceResumeFollows, AnnounceCancelFollows DEF ControlStep
  <1>4. ASSUME NEW s \in Scripts, RunStep(s) PROVE TablesFollowScripts'
    BY <1>4, CreateRunFollows, AnnounceStartFollows, PreflightFollows, RegisterNextFollows,
       AllRegisteredFollows, CompleteTableFollows, AnnounceTableFollows, PlanDoneFollows,
       FinishRunFollows, AnnounceFinishFollows, ExitFollows DEF RunStep
  <1>5. ASSUME NEW s \in Scripts, Launch(s) \/ Fail(s) \/ FailTable(s) \/ LandLate(s) \/ Kill(s)
        PROVE  TablesFollowScripts'
    BY <1>5, LaunchKeepsTables, FailFollows, FailTableFollows, LandLateFollows, KillFollows
  <1> QED
    BY <1>1, <1>2, <1>3, <1>4, <1>5, SourceInsertFollows DEF MigratorNext, Proceed

LEMMA InitFInv == Init => FInv
  <1> SUFFICES ASSUME Init PROVE TablesFollowScripts
    BY InitLInv DEF FInv
  <1>1. /\ \A r \in Runs : runs[r] = NoRun /\ events[r] = <<>>
        /\ \A r \in Runs, t \in Tables :
             runTables[r][t] = NoTable /\ landed[r][t] = 0 /\ staged[r][t] = 0
    BY DEF Init, StoreInit, MigratorInit
  <1>2. \A r \in Runs : Said(r) = {}
    <2>1. DOMAIN <<>> = {}
      OBVIOUS
    <2> QED
      BY <1>1, <2>1 DEF Said
  <1>3. RowsHaveScripts
    BY <1>1 DEF RowsHaveScripts, RunExists, TableExists, NoRun, NoTable
  <1>4. ASSUME NEW s \in Scripts PROVE TablesFollow(s)
    <2>1. /\ script[s].pc = "new" /\ script[s].item = 1 /\ script[s].batch = 0 /\ ~script[s].late
          /\ BatchSize \in Nat /\ RunOf[s] \in Runs /\ Plan[s] \in Seq(PlanItem)
      BY MigratorAssumptions DEF Init, MigratorInit
    <2>2. ASSUME NEW i \in DOMAIN Plan[s] PROVE ItemFollows(s, i)
      <3> DEFINE row == runTables[RunOf[s]][Plan[s][i].table]
      <3>1. Plan[s][i] \in PlanItem
        BY <2>1
      <3>2. Plan[s][i].table \in Tables
        BY <3>1 DEF PlanItem
      <3>3. /\ row.status = "absent" /\ runs[RunOf[s]].status = "absent"
            /\ TableDone(Plan[s][i].table) \notin Said(RunOf[s])
            /\ landed[RunOf[s]][Plan[s][i].table] = 0 /\ staged[RunOf[s]][Plan[s][i].table] = 0
        BY <1>1, <1>2, <2>1, <3>2 DEF NoTable, NoRun
      <3>4. ~Waiting(script[s], i) /\ ~Passed(script[s], i) /\ ~Current(script[s], i)
        BY <2>1 DEF Waiting, Passed, Current
      <3> QED
        BY <2>1, <3>3, <3>4 DEF ItemFollows, ItemFits, SayingFits
    <2>3. OutcomeFits(script[s], runs[RunOf[s]].status, Said(RunOf[s]))
      BY <1>2, <2>1 DEF OutcomeFits
    <2> QED
      BY <2>1, <2>2, <2>3 DEF TablesFollow
  <1> QED
    BY <1>3, <1>4 DEF TablesFollowScripts

LEMMA NextFInv ==
  SerialDispatch /\ FreshIds /\ TablesOnce /\ FInv /\ [Next]_vars => FInv'
  <1> SUFFICES ASSUME SerialDispatch, FreshIds, TablesOnce, FInv, [Next]_vars
               PROVE  TablesFollowScripts'
    BY NextLInv DEF FInv
  <1>1. MInv'
    BY NextLInv DEF FInv, LInv, OInv, RInv, TInv
  <1>2. CASE MigratorNext
    BY <1>1, <1>2, MigratorFollows
  <1>3. CASE ApiNext /\ UNCHANGED migratorVars
    BY <1>3, ApiFollowsTables
  <1>4. CASE UNCHANGED vars
    BY <1>4, SaidStays, NothingFollows DEF FInv, vars, storeVars, migratorVars, dataVars
  <1> QED
    BY <1>2, <1>3, <1>4 DEF Next

\* finish_run('done') is reached only past every table, and a table is marked
\* 'done' only past its load: a run reported 'done' is complete.
THEOREM DoneIsCompleteHolds ==
  ASSUME SerialDispatch, FreshIds, TablesOnce
  PROVE  Spec => []DoneIsComplete
  <1>1. FInv => DoneIsComplete
    <2> SUFFICES ASSUME FInv, NEW s \in Scripts, NEW i \in DOMAIN Plan[s]
                 PROVE  LET row == runTables[RunOf[s]][Plan[s][i].table] IN
                        /\ runs[RunOf[s]].status = "done" => row.status = "done"
                        /\ row.status = "done" =>
                             Complete(row, Plan[s][i].strategy,
                                      landed[RunOf[s]][Plan[s][i].table])
      BY DEF DoneIsComplete, Complete
    <2>1. ItemFollows(s, i)
      BY PlanFacts
    <2> QED
      BY ZenonT(30), <2>1 DEF ItemFollows, ItemFits
  <1>2. FInv /\ [Next]_vars => FInv'
    BY NextFInv
  <1> QED
    BY <1>1, <1>2, InitFInv, PTL DEF Spec

\* The events of api.py's stream never announce what the tables do not say yet.
THEOREM EventsFollowTablesHolds ==
  ASSUME SerialDispatch, FreshIds, TablesOnce
  PROVE  Spec => []EventsFollowTables
  <1>1. FInv => EventsFollowTables
    <2> SUFFICES ASSUME FInv, NEW r \in Runs
                 PROVE  /\ [kind |-> "done"] \in Said(r) =>
                             runs[r].status \in {"done", "failed", "absent"}
                        /\ [kind |-> "failed"] \in Said(r) =>
                             runs[r].status \in {"failed", "absent"}
                        /\ \A t \in Tables : TableDone(t) \in Said(r) =>
                             runTables[r][t].status \in {"done", "absent"}
      BY DEF EventsFollowTables, TableDone
    <2>1. RunExists(r) => \E s \in Scripts : RunOf[s] = r
      BY DEF FInv, TablesFollowScripts, RowsHaveScripts
    <2>2. ASSUME NEW s \in Scripts, RunOf[s] = r
          PROVE  OutcomeFits(script[s], runs[r].status, Said(r))
      BY <2>2, PlanFacts DEF TablesFollow
    <2>3. ASSUME NEW t \in Tables, TableDone(t) \in Said(r), TableExists(r, t)
          PROVE  runTables[r][t].status \in {"done", "absent"}
      <3>1. PICK s \in Scripts : RunOf[s] = r /\ \E i \in DOMAIN Plan[s] : Plan[s][i].table = t
        BY <2>3 DEF FInv, TablesFollowScripts, RowsHaveScripts
      <3>2. PICK i \in DOMAIN Plan[s] : Plan[s][i].table = t
        BY <3>1
      <3>3. ItemFollows(s, i)
        BY PlanFacts
      <3> QED
        BY <2>3, <3>1, <3>2, <3>3 DEF ItemFollows, SayingFits
    <2> QED
      BY <2>1, <2>2, <2>3 DEF RunExists, OutcomeFits, TableExists
  <1>2. FInv /\ [Next]_vars => FInv'
    BY NextFInv
  <1> QED
    BY <1>1, <1>2, InitFInv, PTL DEF Spec

\* rows_done against the rows that landed and those that the target holds, on
\* either path.
LEMMA CheckpointBounds == FInv => CheckpointInBounds
  <1> SUFFICES ASSUME FInv, NEW s \in Scripts, NEW i \in DOMAIN Plan[s],
                      TableExists(RunOf[s], Plan[s][i].table)
               PROVE  LET r == RunOf[s]
                          t == Plan[s][i].table
                          done == runTables[r][t].done
                      IN IF Plan[s][i].strategy = "direct"
                         THEN landed[r][t] - done \in 0..BatchSize
                         ELSE done \in {0} \cup landed[r][t]..target[Plan[s][i].target]
    BY Zenon DEF CheckpointInBounds
  <1>1. ItemFollows(s, i)
    BY PlanFacts
  <1> QED
    BY Zenon, <1>1 DEF ItemFollows, ItemFits, TableExists

-----------------------------------------------------------------------------
(* What a step may not do *)

\* The steps that put rows in the target, and those that write to the bucket.
LEMMA LandingSteps ==
  ASSUME Next, ~UNCHANGED <<target, landed>>
  PROVE  \E s \in Scripts : InsertBatch(s) \/ LoadStaged(s) \/ LandLate(s)
  <1>1. MigratorNext
    BY DEF Next, migratorVars, dataVars
  <1>2. ~\E t \in Tables : SourceInsert(t)
    BY DEF SourceInsert
  <1>3. PICK s \in Scripts :
          Launch(s) \/ Proceed(s) \/ Fail(s) \/ FailTable(s) \/ LandLate(s) \/ Kill(s)
    BY <1>1, <1>2 DEF MigratorNext
  <1>4. ~(Launch(s) \/ Fail(s) \/ FailTable(s) \/ Kill(s))
    BY DEF Launch, CheckNoActiveRun, RefuseRun, Fail, FailTable, Kill, dataVars
  <1>5. DirectStep(s) => InsertBatch(s)
    BY DEF DirectStep, BeginDirect, OpenCursor, FetchBatch, CursorEmpty, RecordInserted, dataVars
  <1>6. StagedStep(s) => LoadStaged(s)
    BY DEF StagedStep, BeginStaged, RejectStrategy, EnterPhase, EnterUnloading, Unload,
       EnterStaged, EnterLoading, CountBaseline, CountLoaded, EnterValidating, CountsMatch,
       CountsDiffer, CleanUp, RecordLoaded, LeavePhases, dataVars
  <1>7. ~ControlStep(s)
    BY DEF ControlStep, ReadFlag, MarkPaused, AnnouncePause, PollFlag, MarkRunning,
       AnnounceResume, AnnounceCancel, dataVars
  <1>8. ~RunStep(s)
    BY DEF RunStep, CreateRun, AnnounceStart, Preflight, RegisterNext, AllRegistered,
       CompleteTable, AnnounceTable, PlanDone, FinishRun, AnnounceFinish, Exit, dataVars
  <1> QED
    BY <1>3, <1>4, <1>5, <1>6, <1>7, <1>8 DEF Proceed

LEMMA BucketSteps ==
  ASSUME Next, staged' # staged
  PROVE  \E s \in Scripts : Unload(s) \/ CleanUp(s)
  <1>1. MigratorNext
    BY DEF Next, migratorVars, dataVars
  <1>2. ~\E t \in Tables : SourceInsert(t)
    BY DEF SourceInsert
  <1>3. PICK s \in Scripts :
          Launch(s) \/ Proceed(s) \/ Fail(s) \/ FailTable(s) \/ LandLate(s) \/ Kill(s)
    BY <1>1, <1>2 DEF MigratorNext
  <1>4. ~(Launch(s) \/ Fail(s) \/ FailTable(s) \/ LandLate(s) \/ Kill(s))
    BY DEF Launch, CheckNoActiveRun, RefuseRun, Fail, FailTable, LandLate, Kill, dataVars
  <1>5. ~DirectStep(s)
    BY DEF DirectStep, BeginDirect, OpenCursor, FetchBatch, CursorEmpty, InsertBatch,
       RecordInserted, dataVars
  <1>6. StagedStep(s) => Unload(s) \/ CleanUp(s)
    BY DEF StagedStep, BeginStaged, RejectStrategy, EnterPhase, EnterUnloading, LoadStaged,
       EnterStaged, EnterLoading, CountBaseline, CountLoaded, EnterValidating, CountsMatch,
       CountsDiffer, RecordLoaded, LeavePhases, dataVars
  <1>7. ~ControlStep(s)
    BY DEF ControlStep, ReadFlag, MarkPaused, AnnouncePause, PollFlag, MarkRunning,
       AnnounceResume, AnnounceCancel, dataVars
  <1>8. ~RunStep(s)
    BY DEF RunStep, CreateRun, AnnounceStart, Preflight, RegisterNext, AllRegistered,
       CompleteTable, AnnounceTable, PlanDone, FinishRun, AnnounceFinish, Exit, dataVars
  <1> QED
    BY <1>3, <1>4, <1>5, <1>6, <1>7, <1>8 DEF Proceed

\* Rows land only for the run of the script that lands them.
LEMMA LandsForItsRun ==
  ASSUME FInv, NEW s \in Scripts, InsertBatch(s) \/ LoadStaged(s) \/ LandLate(s)
  PROVE  \A r \in Runs : r # RunOf[s] => landed'[r] = landed[r]
  <1>1. landed \in [Runs -> [Tables -> Nat]]
    BY DEF FInv, LInv, OInv, RInv, TInv, MInv, MigratorTypeOK
  <1> QED
    BY <1>1 DEF InsertBatch, LoadStaged, LandLate, Land

\* No row lands while the run is paused, cancelled or done; after a failure only
\* those of the load that the script gave up on.
THEOREM LandsOnlyWhileRunningHolds ==
  ASSUME SerialDispatch, FreshIds, TablesOnce
  PROVE  Spec => LandsOnlyWhileRunning
  <1> DEFINE Guarded(r) ==
               /\ [kind |-> "cancelled"] \notin Said(r)
               /\ \/ runs[r].status = "running"
                  \/ /\ runs[r].status \in {"failed", "absent"}
                     /\ \E s \in Scripts : RunOf[s] = r /\ script[s].late
  <1>1. ASSUME FInv, [Next]_vars, NEW r \in Runs, landed'[r] # landed[r]
        PROVE  Guarded(r)
    <2>1. Next /\ landed' # landed
      BY <1>1 DEF vars, migratorVars, dataVars
    <2>2. PICK s \in Scripts : InsertBatch(s) \/ LoadStaged(s) \/ LandLate(s)
      BY <2>1, LandingSteps
    <2>3. RunOf[s] = r
      BY <1>1, <2>2, LandsForItsRun
    <2>4. StatusFits(script[s], runs[r].status) /\ OutcomeFits(script[s], runs[r].status, Said(r))
      BY <1>1, <2>3, PlanFacts DEF TablesFollow
    <2>5. CASE InsertBatch(s) \/ LoadStaged(s)
      <3>1. script[s].pc \in {"insertBatch", "load"}
        BY <2>5 DEF InsertBatch, LoadStaged, At
      <3>2. [kind |-> "cancelled"] \notin Said(r)
        BY <1>1, <2>3, <3>1, NothingSaid
      <3> QED
        BY <2>4, <3>1, <3>2 DEF StatusFits
    <2>6. CASE LandLate(s)
      <3>1. script[s].late
        BY <2>6 DEF LandLate
      <3> QED
        BY <2>3, <2>4, <3>1 DEF OutcomeFits
    <2> QED
      BY <2>2, <2>5, <2>6
  <1>2. FInv /\ [Next]_vars => [\A r \in Runs : landed'[r] # landed[r] => Guarded(r)]_vars
    BY <1>1
  <1>3. FInv /\ [Next]_vars => FInv'
    BY NextFInv
  <1> QED
    BY <1>2, <1>3, InitFInv, PTL DEF Spec, LandsOnlyWhileRunning

\* cleanup_staged runs only after the counts have matched, and nothing else
\* empties a prefix that holds rows.
THEOREM StagedUntilLandedHolds ==
  ASSUME SerialDispatch, FreshIds, TablesOnce
  PROVE  Spec => StagedUntilLanded
  <1>1. ASSUME FInv, [Next]_vars, NEW r \in Runs, NEW t \in Tables,
               staged[r][t] > 0, staged'[r][t] = 0
        PROVE  landed[r][t] = staged[r][t]
    <2>1. Next /\ staged' # staged
      BY <1>1 DEF vars, migratorVars, dataVars
    <2>2. PICK s \in Scripts : Unload(s) \/ CleanUp(s)
      BY <2>1, BucketSteps
    <2>3. AtItem(s) /\ StagedNow(s) /\ script[s].pc \in {"unload", "cleanup"}
      BY <1>1, <2>2, StagedWorks DEF Unload, CleanUp, At
    <2>4. RunOf[s] = r /\ Item(s).table = t
      <3>1. staged \in [Runs -> [Tables -> Nat]]
        BY <1>1 DEF FInv, LInv, OInv, RInv, TInv, MInv, MigratorTypeOK
      <3> QED
        BY <1>1, <2>2, <3>1 DEF Unload, CleanUp
    <2>5. StagedFits(script[s], runTables[r][t], landed[r][t], staged[r][t],
                     target[Item(s).target])
      BY <2>3, <2>4 DEF StagedNow, StagedAt
    <2> QED
      BY <1>1, <2>3, <2>5 DEF StagedFits, NotUnloaded, Loaded
  <1>2. FInv /\ [Next]_vars =>
          [\A r \in Runs, t \in Tables :
             staged[r][t] > 0 /\ staged'[r][t] = 0 => landed[r][t] = staged[r][t]]_vars
    BY <1>1
  <1>3. FInv /\ [Next]_vars => FInv'
    BY NextFInv
  <1> QED
    BY <1>2, <1>3, InitFInv, PTL DEF Spec, StagedUntilLanded

-----------------------------------------------------------------------------
(* The sum of the rows of a finite set of batches. *)

\* Induction on finite sets: of a collection of them, one has no part in it.
LEMMA MinimalSet ==
  ASSUME NEW F, F # {}, \A s \in F : IsFiniteSet(s)
  PROVE  \E s \in F : \A u \in SUBSET s : u # s => u \notin F
  <1> DEFINE N == {Cardinality(s) : s \in F}
  <1>1. N \in SUBSET Nat /\ N # {}
    BY FS_CardinalityType
  <1>2. PICK n \in N : \A k \in N : n <= k
    <2> HIDE DEF N
    <2> QED
      BY <1>1, LeastNatural
  <1>3. PICK s \in F : n = Cardinality(s)
    BY <1>2
  <1>4. ASSUME NEW u \in SUBSET s, u # s, u \in F PROVE FALSE
    <2>1. /\ Cardinality(u) <= Cardinality(s)
          /\ Cardinality(u) = Cardinality(s) => s = u
      BY <1>3, FS_Subset
    <2>2. Cardinality(u) \in Nat /\ Cardinality(s) \in Nat /\ Cardinality(s) <= Cardinality(u)
      BY <1>2, <1>3, <1>4, FS_CardinalityType
    <2> QED
      BY <1>4, <2>1, <2>2
  <1> QED
    BY <1>3, <1>4

Total(S) == MapThenSumSet(LAMBDA b : b.rows, S)
First(s) == CHOOSE x \in s : TRUE
Rest(s)  == s \ {First(s)}
Adds(f, S) == f = [s \in SUBSET S |-> IF s = {} THEN 0 ELSE First(s).rows + f[Rest(s)]]

LEMMA TotalIs ==
  ASSUME NEW S
  PROVE  Total(S) = (CHOOSE f : Adds(f, S))[S]
  BY DEF Total, MapThenSumSet, MapThenFoldSet, Adds, First, Rest

LEMMA RestIsLess ==
  ASSUME NEW s, s # {}
  PROVE  First(s) \in s /\ Rest(s) \in SUBSET s /\ Rest(s) # s
  <1>1. First(s) \in s
    BY DEF First
  <1> QED
    BY <1>1 DEF Rest

LEMMA AddsOnce ==
  ASSUME NEW S, IsFiniteSet(S), NEW f, NEW g, Adds(f, S), Adds(g, S)
  PROVE  f[S] = g[S]
  <1> DEFINE F == {s \in SUBSET S : f[s] # g[s]}
  <1>1. ASSUME NEW s \in F, \A u \in SUBSET s : u # s => u \notin F PROVE FALSE
    <2>1. /\ f[s] = IF s = {} THEN 0 ELSE First(s).rows + f[Rest(s)]
          /\ g[s] = IF s = {} THEN 0 ELSE First(s).rows + g[Rest(s)]
      BY DEF Adds
    <2>2. s # {} => f[Rest(s)] = g[Rest(s)]
      BY <1>1, RestIsLess
    <2> QED
      BY <2>1, <2>2
  <1>2. \A s \in F : IsFiniteSet(s)
    BY FS_Subset
  <1>3. F = {}
    <2> HIDE DEF F
    <2> QED
      BY <1>1, <1>2, MinimalSet
  <1> QED
    BY <1>3

\* The fold of the community modules is the recursion it is written as.
LEMMA TotalStep ==
  ASSUME NEW S, IsFiniteSet(S)
  PROVE  Total(S) = IF S = {} THEN 0 ELSE First(S).rows + Total(Rest(S))
  <1> DEFINE Stepped(s) == IF s = {} THEN 0 ELSE First(s).rows + Total(Rest(s))
             F == {s \in SUBSET S : Total(s) # Stepped(s)}
  <1>1. ASSUME NEW s \in F, \A u \in SUBSET s : u # s => u \notin F PROVE FALSE
    <2> DEFINE f == [u \in SUBSET s |-> IF u = s THEN Stepped(s) ELSE Total(u)]
               h == CHOOSE g : Adds(g, s)
    <2>1. ASSUME NEW u \in SUBSET s
          PROVE  f[u] = IF u = {} THEN 0 ELSE First(u).rows + f[Rest(u)]
      <3>1. u # {} => Rest(u) \in SUBSET s /\ Rest(u) # s
        BY RestIsLess
      <3>2. u # {} => f[Rest(u)] = Total(Rest(u))
        BY <3>1
      <3>3. CASE u = s
        BY <3>2, <3>3
      <3>4. CASE u # s
        <4>1. f[u] = Total(u) /\ Total(u) = Stepped(u)
          BY <1>1, <3>4
        <4> QED
          BY <3>2, <4>1
      <3> QED
        BY <3>3, <3>4
    <2>2. Adds(f, s)
      <3> HIDE DEF Stepped
      <3>1. f = [u \in SUBSET s |-> f[u]]
        OBVIOUS
      <3> HIDE DEF f
      <3> QED
        BY <2>1, <3>1 DEF Adds
    <2>3. Adds(h, s)
      <3> HIDE DEF f
      <3> QED
        BY <2>2
    <2>4. IsFiniteSet(s)
      BY FS_Subset
    <2>5. f[s] = Stepped(s)
      OBVIOUS
    <2> HIDE DEF f, Stepped
    <2>6. h[s] = f[s]
      <3> HIDE DEF h
      <3> QED
        BY <2>2, <2>3, <2>4, AddsOnce
    <2>7. Total(s) = h[s]
      BY TotalIs
    <2>8. Total(s) # Stepped(s)
      OBVIOUS
    <2> QED
      BY <2>5, <2>6, <2>7, <2>8
  <1>2. \A s \in F : IsFiniteSet(s)
    BY FS_Subset
  <1>3. F = {}
    <2> HIDE DEF F
    <2> QED
      BY <1>1, <1>2, MinimalSet
  <1> QED
    BY <1>3

\* The order does not matter.
LEMMA TotalWithout ==
  ASSUME NEW S, IsFiniteSet(S), \A b \in S : b.rows \in Nat
  PROVE  /\ Total(S) \in Nat
         /\ \A x \in S : Total(S) = x.rows + Total(S \ {x})
  <1> DEFINE Good(s) == /\ Total(s) \in Nat
                        /\ \A x \in s : Total(s) = x.rows + Total(s \ {x})
             F == {s \in SUBSET S : ~Good(s)}
  <1>1. ASSUME NEW s \in F, \A u \in SUBSET s : u # s => u \notin F PROVE FALSE
    <2>1. Total(s) = IF s = {} THEN 0 ELSE First(s).rows + Total(Rest(s))
      BY TotalStep, FS_Subset
    <2>2. ASSUME NEW u \in SUBSET s, u # s PROVE Good(u)
      BY <1>1, <2>2
    <2> HIDE DEF F
    <2>3. CASE s = {}
      BY <2>1, <2>3 DEF F
    <2>4. CASE s # {}
      <3> DEFINE c == First(s)
      <3>1. c \in s /\ Rest(s) = s \ {c} /\ Rest(s) \in SUBSET s /\ Rest(s) # s
        BY <2>4, RestIsLess DEF Rest
      <3>2. c.rows \in Nat /\ \A x \in s : x.rows \in Nat
        BY <3>1 DEF F
      <3> HIDE DEF c
      <3>3. Good(Rest(s)) /\ Total(s) = c.rows + Total(Rest(s))
        BY <2>1, <2>2, <2>4, <3>1 DEF c
      <3>4. ASSUME NEW x \in s PROVE Total(s) = x.rows + Total(s \ {x})
        <4>1. CASE x = c
          BY <3>1, <3>3, <4>1
        <4>2. CASE x # c
          <5> DEFINE both == Rest(s) \ {x}
          <5>1. s \ {x} \in SUBSET s /\ s \ {x} # s /\ c \in s \ {x} /\ x \in Rest(s)
            BY <3>1, <4>2
          <5>2. (s \ {x}) \ {c} = both /\ both \in SUBSET s /\ both # s
            BY <3>1, <5>1
          <5>3. Good(s \ {x}) /\ Good(both)
            BY <2>2, <5>1, <5>2
          <5>4. Total(s \ {x}) = c.rows + Total(both)
            BY <5>1, <5>2, <5>3
          <5>5. Total(Rest(s)) = x.rows + Total(both) /\ Total(both) \in Nat
            BY <3>3, <5>1, <5>3
          <5> HIDE DEF both
          <5> QED
            BY <3>2, <3>3, <5>4, <5>5
        <4> QED
          BY <4>1, <4>2
      <3>5. Total(s) \in Nat
        BY <3>2, <3>3
      <3>6. Good(s)
        BY <3>4, <3>5
      <3> QED
        BY <3>6 DEF F
    <2> QED
      BY <2>3, <2>4
  <1>2. \A s \in F : IsFiniteSet(s)
    BY FS_Subset
  <1>3. F = {}
    <2> HIDE DEF F
    <2> QED
      BY <1>1, <1>2, MinimalSet
  <1> QED
    BY <1>3

LEMMA TotalOfNone == Total({}) = 0
  BY TotalStep, FS_EmptySet

LEMMA TotalWith ==
  ASSUME NEW S, IsFiniteSet(S), \A b \in S : b.rows \in Nat,
         NEW x, x.rows \in Nat, x \notin S
  PROVE  Total(S \cup {x}) = Total(S) + x.rows
  <1> DEFINE T == S \cup {x}
  <1>1. IsFiniteSet(T) /\ x \in T /\ T \ {x} = S /\ \A b \in T : b.rows \in Nat
    BY FS_AddElement
  <1>2. Total(T) = x.rows + Total(T \ {x}) /\ Total(S) \in Nat
    <2> HIDE DEF T
    <2> QED
      BY <1>1, TotalWithout
  <1> QED
    BY <1>1, <1>2

-----------------------------------------------------------------------------
(* The checkpoint is the sum of its batches *)

\* Nothing is written in batches, and no checkpoint is moved.
SameRecords ==
  /\ UNCHANGED batches
  /\ \A r \in Runs, t \in Tables : runTables'[r][t].status # "absent" =>
       /\ runTables[r][t].status # "absent"
       /\ runTables'[r][t].done = runTables[r][t].done

\* A script that was at x is at y: it is not nearer to the beginning of an item.
Later(x, y) ==
  \/ x.pc \in BeforeRun \cup {"register"}
  \/ y.pc \in EndPcs \cup {"exited", "killed"}
  \/ x.pc = "table" /\ y.pc \in ItemPcs /\ y.item = x.item
  \/ x.pc \in ItemPcs /\ y.pc = "table" /\ y.item = x.item + 1
  \/ /\ x.pc \in ItemPcs /\ y.pc \in ItemPcs /\ y.item = x.item /\ y.n = x.n
     /\ x.pc \in Recording => y.pc \in Recording

LEMMA LaterFits ==
  ASSUME NEW x \in ScriptState, NEW y \in ScriptState, Later(x, y), NEW i \in Nat,
         NEW item, NEW mine \in SUBSET BatchRow, BatchesFit(x, i, item, mine)
  PROVE  BatchesFit(y, i, item, mine)
  <1>1. /\ x.item \in Nat /\ y.item \in Nat /\ x.n \in Nat /\ y.n \in Nat
        /\ \A b \in mine : b.n \in Nat
    BY DEF ScriptState, BatchRow
  <1>2. NotBegun(y, i) => NotBegun(x, i)
    BY <1>1 DEF Later, NotBegun, Unregistered, Waiting
  <1>3. AtWork(y, i) => NotBegun(x, i) \/ (AtWork(x, i) /\ x.n = y.n)
    BY <1>1 DEF Later, NotBegun, Unregistered, Waiting, AtWork, Current, Recording
  <1> QED
    BY <1>2, <1>3 DEF BatchesFit

BInv == FInv /\ BatchesFollowScripts /\ CheckpointAddsUp

\* BatchesOf of the next state.
BatchesThen(r, t) == {b \in batches'[r] : b.table = t}

LEMMA RecordedIs ==
  \A r \in Runs, t \in Tables : /\ Recorded(r, t) = Total(BatchesOf(r, t))
                                /\ Recorded(r, t)' = Total(BatchesThen(r, t))
  BY DEF Recorded, Total, BatchesOf, BatchesThen, MapThenSumSet, MapThenFoldSet

\* A step that leaves the records alone.
LEMMA RecordsStay ==
  ASSUME BInv, MInv', SameRecords,
         \A s \in Scripts : script'[s] = script[s] \/ Later(script[s], script'[s])
  PROVE  BatchesFollowScripts' /\ CheckpointAddsUp'
  <1>1. MInv /\ BatchesFollowScripts /\ CheckpointAddsUp
    BY DEF BInv, FInv, LInv, OInv, RInv, TInv
  <1>2. ASSUME NEW s \in Scripts, NEW i \in DOMAIN Plan[s]
        PROVE  BatchesFit(script'[s], i, Plan[s][i], BatchesOf(RunOf[s], Plan[s][i].table))
    <2> DEFINE mine == BatchesOf(RunOf[s], Plan[s][i].table)
    <2>1. /\ script[s] \in ScriptState /\ script'[s] \in ScriptState /\ i \in Nat
          /\ RunOf[s] \in Runs
      BY <1>1, ItemTypes DEF MInv, MigratorTypeOK
    <2>2. mine \in SUBSET BatchRow
      BY <1>1, <2>1 DEF MInv, StoreTypeOK, BatchesOf
    <2>3. BatchesFit(script[s], i, Plan[s][i], mine)
      BY <1>1 DEF BatchesFollowScripts
    <2> HIDE DEF mine
    <2>4. BatchesFit(script'[s], i, Plan[s][i], mine)
      BY <2>1, <2>2, <2>3, LaterFits
    <2> QED
      BY <2>4 DEF mine
  <1>3. BatchesFollowScripts'
    BY <1>1, <1>2 DEF BatchesFollowScripts, SameRecords, BatchesOf
  <1>4. \A r \in Runs, t \in Tables : Recorded(r, t)' = Recorded(r, t)
    BY RecordedIs DEF BatchesOf, BatchesThen, SameRecords
  <1>5. CheckpointAddsUp'
    BY <1>1, <1>4 DEF CheckpointAddsUp, TableExists, SameRecords
  <1> QED
    BY <1>3, <1>5

LEMMA StoreStays ==
  ASSUME UNCHANGED <<batches, runTables>>
  PROVE  SameRecords
  BY DEF SameRecords

LEMMA StatusKeepsRecords ==
  ASSUME StoreTypeOK, NEW r \in Runs, NEW t \in Tables, NEW st, NEW ph,
         SetTableStatus(r, t, st) \/ SetTablePhase(r, t, ph)
  PROVE  SameRecords
  <1>1. CASE SetTableStatus(r, t, st)
    BY <1>1, StatusWritten DEF SameRecords, OtherRowsStay, TableExists
  <1>2. CASE SetTablePhase(r, t, ph)
    <2>1. ~TableExists(r, t) => UNCHANGED runTables
      BY <1>2 DEF SetTablePhase
    <2> QED
      BY <1>2, <2>1, PhaseWritten DEF SameRecords, OtherRowsStay, TableExists
  <1> QED
    BY <1>1, <1>2

\* What a step does to its script.
LEMMA ScriptBecomes ==
  ASSUME FInv, NEW s \in Scripts, NEW v, script' = [script EXCEPT ![s] = v]
  PROVE  script'[s] = v /\ OthersKeep(s)
  BY PlanFacts DEF OthersKeep

\* The steps other than those that create, register or record.
LEMMA DirectLater ==
  ASSUME FInv, NEW s \in Scripts, DirectStep(s)
  PROVE  \/ RecordInserted(s)
         \/ SameRecords /\ OthersKeep(s) /\ Later(script[s], script'[s])
  <1>1. /\ script \in [Scripts -> ScriptState] /\ script[s] \in ScriptState
        /\ RunOf[s] \in Runs /\ StoreTypeOK
    BY PlanFacts DEF MInv
  <1>2. CASE BeginDirect(s)
    <2>1. Item(s).table \in Tables
      BY <1>2, Fresh, AtItemFacts DEF BeginDirect, At
    <2>2. SameRecords
      BY <1>1, <1>2, <2>1, StatusKeepsRecords DEF BeginDirect
    <2> QED
      BY <1>1, <1>2, <2>2 DEF BeginDirect, At, OthersKeep, Later, ScriptState
  <1>3. CASE OpenCursor(s)
    BY <1>1, <1>3, StoreStays
    DEF OpenCursor, At, OthersKeep, Later, ScriptState, Recording, storeVars
  <1>4. CASE FetchBatch(s)
    BY <1>1, <1>4, StoreStays
    DEF FetchBatch, At, OthersKeep, Later, ScriptState, Recording, storeVars
  <1>5. CASE CursorEmpty(s)
    BY <1>1, <1>5, StoreStays
    DEF CursorEmpty, At, Goto, OthersKeep, Later, ScriptState, Recording, storeVars
  <1>6. CASE InsertBatch(s)
    BY <1>1, <1>6, StoreStays
    DEF InsertBatch, At, Goto, OthersKeep, Later, ScriptState, Recording, storeVars
  <1> QED
    BY <1>2, <1>3, <1>4, <1>5, <1>6 DEF DirectStep

LEMMA PhaseLater ==
  ASSUME FInv, NEW s \in Scripts, NEW phase \in StagedPcs, NEW next,
         EnterPhase(s, phase, next), next.pc \in ItemPcs,
         next.item = script[s].item, next.n = script[s].n
  PROVE  SameRecords /\ OthersKeep(s) /\ (phase # "clearPhase" => Later(script[s], script'[s]))
  <1>1. script \in [Scripts -> ScriptState] /\ script[s].pc = phase /\ AtItem(s)
    BY PlanFacts DEF EnterPhase, At, AtItem, ScriptOK
  <1>2. SameRecords
    BY <1>1, AtItemFacts, PlanFacts, StatusKeepsRecords DEF EnterPhase, MInv
  <1>3. script'[s] = next /\ OthersKeep(s)
    BY ScriptBecomes DEF EnterPhase
  <1> QED
    BY <1>1, <1>2, <1>3 DEF Later, Recording

LEMMA StagedLater ==
  ASSUME FInv, NEW s \in Scripts, StagedStep(s)
  PROVE  \/ RecordLoaded(s)
         \/ SameRecords /\ OthersKeep(s) /\ Later(script[s], script'[s])
  <1>1. /\ script \in [Scripts -> ScriptState] /\ script[s] \in ScriptState
        /\ RunOf[s] \in Runs /\ StoreTypeOK /\ ScriptOK(s)
    BY PlanFacts DEF MInv
  <1>2. script[s].pc \in ItemPcs => AtItem(s)
    BY <1>1 DEF AtItem, ScriptOK
  <1>3. AtItem(s) => Item(s).table \in Tables
    BY AtItemFacts
  <1>4. CASE BeginStaged(s) \/ CountsDiffer(s) \/ LeavePhases(s)
    <2>1. AtItem(s)
      BY <1>2, <1>4 DEF BeginStaged, CountsDiffer, LeavePhases, At, AtItem
    <2>2. SameRecords
      BY <1>1, <1>3, <1>4, <2>1, StatusKeepsRecords DEF BeginStaged, CountsDiffer, LeavePhases
    <2>3. CASE BeginStaged(s)
      BY <1>1, <2>2, <2>3 DEF BeginStaged, At, OthersKeep, Later, ScriptState
    <2>4. CASE CountsDiffer(s)
      BY <1>1, <2>2, <2>4 DEF CountsDiffer, At, OthersKeep, Later, ScriptState
    <2>5. CASE LeavePhases(s)
      BY <1>1, <2>2, <2>5
      DEF LeavePhases, At, Goto, OthersKeep, Later, ScriptState, Recording
    <2> QED
      BY <1>4, <2>3, <2>4, <2>5
  <1>5. CASE EnterUnloading(s)
    <2>1. [script[s] EXCEPT !.pc = "unload"].pc \in ItemPcs
          /\ [script[s] EXCEPT !.pc = "unload"].item = script[s].item
          /\ [script[s] EXCEPT !.pc = "unload"].n = script[s].n
      BY <1>1 DEF ScriptState
    <2> QED
      BY <1>5, <2>1, PhaseLater DEF EnterUnloading
  <1>6. CASE EnterStaged(s)
    <2> DEFINE next == [script[s] EXCEPT !.pc = "control", !.ret = "loading"]
    <2>1. next.pc \in ItemPcs /\ next.item = script[s].item /\ next.n = script[s].n
      BY <1>1 DEF ScriptState
    <2> HIDE DEF next
    <2> QED
      BY <1>6, <2>1, PhaseLater DEF EnterStaged, next
  <1>7. CASE EnterLoading(s)
    <2> DEFINE next == [script[s] EXCEPT !.pc = "baseline"]
    <2>1. next.pc \in ItemPcs /\ next.item = script[s].item /\ next.n = script[s].n
      BY <1>1 DEF ScriptState
    <2> QED
      BY <1>7, <2>1, PhaseLater DEF EnterLoading
  <1>8. CASE EnterValidating(s)
    <2> DEFINE next == [script[s] EXCEPT !.pc = "compare"]
    <2>1. next.pc \in ItemPcs /\ next.item = script[s].item /\ next.n = script[s].n
      BY <1>1 DEF ScriptState
    <2> QED
      BY <1>8, <2>1, PhaseLater DEF EnterValidating
  <1>9. CASE RejectStrategy(s)
    BY <1>1, <1>9, StoreStays DEF RejectStrategy, OthersKeep, Later, ScriptState, storeVars
  <1>10. CASE Unload(s) \/ LoadStaged(s) \/ CountsMatch(s) \/ CleanUp(s)
    BY <1>1, <1>10, StoreStays DEF Unload, LoadStaged, CountsMatch, CleanUp, At, Goto,
       OthersKeep, Later, ScriptState, Recording, storeVars
  <1>11. CASE CountBaseline(s)
    BY <1>1, <1>11, StoreStays DEF CountBaseline, At, OthersKeep, Later, ScriptState, Recording,
       storeVars
  <1>12. CASE CountLoaded(s)
    BY <1>1, <1>12, StoreStays DEF CountLoaded, At, OthersKeep, Later, ScriptState, Recording,
       storeVars
  <1> QED
    BY <1>4, <1>5, <1>6, <1>7, <1>8, <1>9, <1>10, <1>11, <1>12 DEF StagedStep

LEMMA ControlLater ==
  ASSUME FInv, NEW s \in Scripts, ControlStep(s)
  PROVE  SameRecords /\ OthersKeep(s) /\ Later(script[s], script'[s])
  <1>1. /\ script \in [Scripts -> ScriptState] /\ script[s] \in ScriptState /\ ScriptOK(s)
    BY PlanFacts
  <1>2. SameRecords
    BY StoreStays DEF ControlStep, ReadFlag, MarkPaused, AnnouncePause, PollFlag, MarkRunning,
       AnnounceResume, AnnounceCancel, SetRunStatus, WriteEvent, storeVars
  <1>3. CASE AnnounceCancel(s)
    BY <1>1, <1>2, <1>3 DEF AnnounceCancel, OthersKeep, Later, ScriptState
  <1>4. CASE ~AnnounceCancel(s)
    <2>1. /\ script[s].pc \in ControlPcs
          /\ \E l \in {script[s].ret} \cup ControlPcs : script' = [script EXCEPT ![s].pc = l]
      BY <1>4 DEF ControlStep, ReadFlag, MarkPaused, AnnouncePause, PollFlag, MarkRunning,
         AnnounceResume, At, Goto
    <2>2. PICK l \in {script[s].ret} \cup ControlPcs : script' = [script EXCEPT ![s].pc = l]
      BY <2>1
    <2>3. l \in ItemPcs \ Recording
      BY <1>1, <2>1 DEF ScriptOK, ScriptState, ReturnPcs, Recording
    <2>4. /\ script'[s].pc = l /\ script'[s].item = script[s].item /\ script'[s].n = script[s].n
          /\ OthersKeep(s)
      BY <1>1, <2>2 DEF OthersKeep, ScriptState
    <2> QED
      BY <1>2, <2>1, <2>3, <2>4 DEF Later, Recording
  <1> QED
    BY <1>3, <1>4

LEMMA RunLater ==
  ASSUME FInv, NEW s \in Scripts, RunStep(s)
  PROVE  \/ CreateRun(s) \/ RegisterNext(s)
         \/ SameRecords /\ OthersKeep(s) /\ Later(script[s], script'[s])
  <1>1. /\ script \in [Scripts -> ScriptState] /\ script[s] \in ScriptState
        /\ RunOf[s] \in Runs /\ StoreTypeOK /\ ScriptOK(s)
    BY PlanFacts DEF MInv
  <1>2. CASE CompleteTable(s)
    <2>1. AtItem(s)
      BY <1>1, <1>2 DEF CompleteTable, At, AtItem, ScriptOK
    <2>2. SameRecords
      BY <1>1, <1>2, <2>1, AtItemFacts, StatusKeepsRecords DEF CompleteTable
    <2> QED
      BY <1>1, <1>2, <2>2 DEF CompleteTable, At, Goto, OthersKeep, Later, ScriptState, Recording
  <1>3. CASE AnnounceTable(s)
    <2>1. SameRecords
      BY <1>3, StoreStays DEF AnnounceTable, WriteEvent
    <2> QED
      BY <1>1, <1>3, <2>1 DEF AnnounceTable, At, OthersKeep, Later, ScriptState
  <1>4. CASE AnnounceStart(s) \/ Preflight(s) \/ AllRegistered(s)
    <2>1. SameRecords
      BY <1>4, StoreStays DEF AnnounceStart, Preflight, AllRegistered, WriteEvent, storeVars
    <2> QED
      BY <1>1, <1>4, <2>1 DEF AnnounceStart, Preflight, AllRegistered, At, Goto, OthersKeep, Later
  <1>5. CASE PlanDone(s) \/ FinishRun(s) \/ AnnounceFinish(s) \/ Exit(s)
    <2>1. SameRecords
      BY <1>5, StoreStays DEF PlanDone, FinishRun, AnnounceFinish, Exit, EndRun, WriteEvent,
         storeVars
    <2> QED
      BY <1>1, <1>5, <2>1 DEF PlanDone, FinishRun, AnnounceFinish, Exit, Goto, OthersKeep, Later,
         ScriptState
  <1> QED
    BY <1>2, <1>3, <1>4, <1>5 DEF RunStep

LEMMA StopLater ==
  ASSUME FInv, NEW s \in Scripts,
         Launch(s) \/ Fail(s) \/ FailTable(s) \/ LandLate(s) \/ Kill(s)
  PROVE  SameRecords /\ OthersKeep(s) /\ Later(script[s], script'[s])
  <1>1. /\ script \in [Scripts -> ScriptState] /\ script[s] \in ScriptState
        /\ RunOf[s] \in Runs /\ StoreTypeOK /\ ScriptOK(s)
    BY PlanFacts DEF MInv
  <1>2. CASE Launch(s)
    BY <1>1, <1>2, StoreStays DEF Launch, CheckNoActiveRun, RefuseRun, At, Goto, OthersKeep,
       Later, storeVars
  <1>3. CASE Fail(s)
    BY <1>1, <1>3, StoreStays DEF Fail, OthersKeep, Later, ScriptState, storeVars
  <1>4. CASE Kill(s)
    BY <1>1, <1>4, StoreStays DEF Kill, Goto, OthersKeep, Later, ScriptState, storeVars
  <1>5. CASE FailTable(s)
    <2>1. AtItem(s)
      BY <1>1, <1>5 DEF FailTable, AtItem, ScriptOK
    <2>2. SameRecords
      BY <1>1, <1>5, <2>1, AtItemFacts, StatusKeepsRecords DEF FailTable
    <2> QED
      BY <1>1, <1>5, <2>2 DEF FailTable, OthersKeep, Later, ScriptState
  <1>6. CASE LandLate(s)
    <2>1. script' = [script EXCEPT ![s].late = FALSE] /\ SameRecords
      BY <1>6, StoreStays DEF LandLate, storeVars
    <2>2. script'[s].pc = script[s].pc /\ OthersKeep(s)
      BY <1>1, <2>1 DEF OthersKeep, ScriptState
    <2>3. script[s].pc \in EndPcs \cup {"exited", "killed"}
      BY <1>1, <1>6 DEF LandLate, ScriptOK
    <2> QED
      BY <2>1, <2>2, <2>3 DEF Later
  <1> QED
    BY <1>2, <1>3, <1>4, <1>5, <1>6

-----------------------------------------------------------------------------
(* The steps that write records *)

\* The records of the other tables, and of the other runs.
OtherRecords(r, t) ==
  \A o \in Runs, u \in Tables : (o # r \/ u # t) =>
    /\ BatchesThen(o, u) = BatchesOf(o, u)
    /\ runTables'[o][u] = runTables[o][u]

\* A step of a script from x to y that is about item i is about no other item.
NoOtherItem(x, y, i) ==
  \A j \in Nat : j # i => /\ NotBegun(y, j) => NotBegun(x, j)
                          /\ AtWork(y, j) => NotBegun(x, j)

LEMMA RecordsMove ==
  ASSUME FreshIds, TablesOnce, BInv, NEW s \in Scripts, OthersKeep(s), NEW i \in DOMAIN Plan[s],
         NoOtherItem(script[s], script'[s], i),
         OtherRecords(RunOf[s], Plan[s][i].table),
         BatchesFit(script'[s], i, Plan[s][i], BatchesThen(RunOf[s], Plan[s][i].table)),
         runTables'[RunOf[s]][Plan[s][i].table].done
           = Total(BatchesThen(RunOf[s], Plan[s][i].table)),
         \A r \in Runs : IsFiniteSet(batches'[r])
  PROVE  BatchesFollowScripts' /\ CheckpointAddsUp'
  <1> DEFINE r == RunOf[s]
             t == Plan[s][i].table
  <1>1. FInv /\ BatchesFollowScripts /\ CheckpointAddsUp
    BY DEF BInv
  <1>2. r \in Runs /\ t \in Tables
    BY <1>1, PlanFacts
  <1>3. ASSUME NEW o \in Scripts, NEW j \in DOMAIN Plan[o]
        PROVE  BatchesFit(script'[o], j, Plan[o][j], BatchesThen(RunOf[o], Plan[o][j].table))
    <2> DEFINE u == Plan[o][j].table
    <2>1. RunOf[o] \in Runs /\ u \in Tables /\ j \in Nat
      BY <1>1, PlanFacts
    <2>2. BatchesFit(script[o], j, Plan[o][j], BatchesOf(RunOf[o], u))
      BY <1>1 DEF BatchesFollowScripts
    <2>3. CASE o # s
      <3>1. RunOf[o] # r /\ script'[o] = script[o]
        BY <2>3 DEF FreshIds, OthersKeep
      <3>2. BatchesThen(RunOf[o], u) = BatchesOf(RunOf[o], u)
        BY <2>1, <3>1 DEF OtherRecords
      <3> QED
        BY <2>2, <3>1, <3>2
    <2>4. CASE o = s /\ j = i
      BY <2>4
    <2>5. CASE o = s /\ j # i
      <3>1. u # t
        BY <2>5 DEF TablesOnce
      <3>2. BatchesThen(r, u) = BatchesOf(r, u)
        BY <1>2, <2>1, <3>1 DEF OtherRecords
      <3>3. /\ NotBegun(script'[s], j) => NotBegun(script[s], j)
            /\ AtWork(script'[s], j) => NotBegun(script[s], j)
        BY <2>1, <2>5 DEF NoOtherItem
      <3> QED
        BY <2>2, <2>5, <3>2, <3>3 DEF BatchesFit
    <2> QED
      BY <2>3, <2>4, <2>5
  <1>4. BatchesFollowScripts'
    BY <1>3 DEF BatchesFollowScripts, BatchesOf, BatchesThen
  <1>5. ASSUME NEW o \in Runs, NEW u \in Tables, TableExists(o, u)'
        PROVE  runTables'[o][u].done = Recorded(o, u)'
    <2>1. CASE o = r /\ u = t
      BY <2>1, RecordedIs
    <2>2. CASE o # r \/ u # t
      <3>1. BatchesThen(o, u) = BatchesOf(o, u) /\ runTables'[o][u] = runTables[o][u]
        BY <2>2 DEF OtherRecords
      <3>2. TableExists(o, u)
        BY <1>5, <3>1 DEF TableExists
      <3> QED
        BY <1>1, <3>1, <3>2, RecordedIs DEF CheckpointAddsUp
    <2> QED
      BY <2>1, <2>2
  <1>6. CheckpointAddsUp'
    BY <1>5 DEF CheckpointAddsUp
  <1> QED
    BY <1>4, <1>6

\* The sum of the batches of a table that exists, and what it is without one.
LEMMA BatchFacts ==
  ASSUME BInv, NEW r \in Runs, NEW t \in Tables
  PROVE  /\ IsFiniteSet(BatchesOf(r, t)) /\ IsFiniteSet(batches[r])
         /\ BatchesOf(r, t) \in SUBSET BatchRow /\ batches[r] \in SUBSET BatchRow
         /\ TableExists(r, t) => runTables[r][t].done = Total(BatchesOf(r, t))
  <1>1. MInv /\ BatchesFollowScripts /\ CheckpointAddsUp
    BY DEF BInv, FInv, LInv, OInv, RInv, TInv
  <1>2. IsFiniteSet(batches[r]) /\ batches[r] \in SUBSET BatchRow
    BY <1>1 DEF BatchesFollowScripts, MInv, StoreTypeOK
  <1>3. BatchesOf(r, t) \in SUBSET batches[r]
    BY DEF BatchesOf
  <1>4. IsFiniteSet(BatchesOf(r, t))
    BY <1>2, <1>3, FS_Subset
  <1> QED
    BY <1>1, <1>2, <1>3, <1>4, RecordedIs DEF CheckpointAddsUp

BatchInserted(r, t, n, rows) ==
  batches' = [batches EXCEPT ![r] = ReplaceBatch(@, [table |-> t, n |-> n, rows |-> rows])]

\* INSERT OR REPLACE of a batch whose number is new.
LEMMA BatchAdded ==
  ASSUME BInv, NEW r \in Runs, NEW t \in Tables, NEW n \in Nat, NEW rows \in Nat,
         \A b \in BatchesOf(r, t) : b.n # n,
         BatchInserted(r, t, n, rows)
  PROVE  /\ BatchesThen(r, t) = BatchesOf(r, t) \cup {[table |-> t, n |-> n, rows |-> rows]}
         /\ \A o \in Runs, u \in Tables : (o # r \/ u # t) =>
              BatchesThen(o, u) = BatchesOf(o, u)
         /\ \A o \in Runs : IsFiniteSet(batches'[o])
         /\ Total(BatchesThen(r, t)) = Total(BatchesOf(r, t)) + rows
  <1> DEFINE b == [table |-> t, n |-> n, rows |-> rows]
  <1>1. b.table = t /\ b.n = n /\ b.rows = rows
    OBVIOUS
  <1> HIDE DEF b
  <1>2. batches \in [Runs -> SUBSET BatchRow]
    BY DEF BInv, FInv, LInv, OInv, RInv, TInv, MInv, StoreTypeOK
  <1>3. /\ batches'[r] = ReplaceBatch(batches[r], b)
        /\ \A o \in Runs : o # r => batches'[o] = batches[o]
    BY <1>2 DEF b, BatchInserted
  <1>4. \A x \in batches[r] : x.table # t \/ x.n # n
    BY DEF BatchesOf
  <1>5. batches'[r] = batches[r] \cup {b}
    BY <1>1, <1>3, <1>4 DEF ReplaceBatch
  <1>6. BatchesThen(r, t) = BatchesOf(r, t) \cup {b}
    BY <1>1, <1>5 DEF BatchesOf, BatchesThen
  <1>7. ASSUME NEW o \in Runs, NEW u \in Tables, o # r \/ u # t
        PROVE  BatchesThen(o, u) = BatchesOf(o, u)
    BY <1>1, <1>3, <1>5, <1>7 DEF BatchesOf, BatchesThen
  <1>8. \A o \in Runs : IsFiniteSet(batches'[o])
    <2>1. \A o \in Runs : IsFiniteSet(batches[o])
      BY DEF BInv, BatchesFollowScripts
    <2>2. IsFiniteSet(batches'[r])
      <3>1. IsFiniteSet(batches[r])
        BY <2>1
      <3> QED
        BY <1>5, <3>1, FS_AddElement
    <2> QED
      BY <1>3, <2>1, <2>2
  <1>9. Total(BatchesThen(r, t)) = Total(BatchesOf(r, t)) + rows
    <2> DEFINE S == BatchesOf(r, t)
    <2>1. IsFiniteSet(S) /\ \A x \in S : x.rows \in Nat
      BY BatchFacts DEF BatchRow
    <2>2. b \notin S /\ b.rows \in Nat
      BY <1>1
    <2>3. Total(S \cup {b}) = Total(S) + b.rows
      <3> HIDE DEF S
      <3> QED
        BY <2>1, <2>2, TotalWith
    <2> QED
      BY <1>1, <1>6, <2>3
  <1> QED
    BY <1>6, <1>7, <1>8, <1>9 DEF b

\* A script at work on its item.
LEMMA AtItemFits ==
  ASSUME BInv, NEW s \in Scripts, AtItem(s)
  PROVE  /\ FInv /\ script[s].item \in DOMAIN Plan[s] /\ Item(s) = Plan[s][script[s].item]
         /\ RunOf[s] \in Runs /\ Item(s).table \in Tables
         /\ script[s] \in ScriptState /\ script \in [Scripts -> ScriptState]
         /\ TableExists(RunOf[s], Item(s).table)
         /\ BatchesFit(script[s], script[s].item, Item(s), BatchesOf(RunOf[s], Item(s).table))
  <1>1. FInv /\ BatchesFollowScripts
    BY DEF BInv
  <1> QED
    BY <1>1, AtItemFacts DEF BatchesFollowScripts

LEMMA SameItem ==
  ASSUME NEW x \in ScriptState, NEW y, y.item = x.item, x.pc \in ItemPcs, y.pc \in ItemPcs
  PROVE  NoOtherItem(x, y, x.item)
  BY DEF NoOtherItem, NotBegun, Unregistered, Waiting, AtWork, Current, ScriptState

LEMMA RecordInsertedAdds ==
  ASSUME FreshIds, TablesOnce, BInv, NEW s \in Scripts, RecordInserted(s)
  PROVE  BatchesFollowScripts' /\ CheckpointAddsUp'
  <1> DEFINE r == RunOf[s]
             t == Item(s).table
             x == script[s]
             y == script'[s]
             mine == BatchesOf(r, t)
  <1>1. x.pc = "recordBatch" /\ RecordBatch(r, t, x.n, x.batch)
    BY DEF RecordInserted, At
  <1>2. FInv
    BY DEF BInv
  <1>3. AtItem(s) /\ DirectNow(s)
    BY <1>1, <1>2, DirectWorks
  <1>4. /\ x.item \in DOMAIN Plan[s] /\ Item(s) = Plan[s][x.item] /\ r \in Runs /\ t \in Tables
        /\ x \in ScriptState /\ script \in [Scripts -> ScriptState] /\ TableExists(r, t)
        /\ BatchesFit(x, x.item, Item(s), mine)
    BY <1>3, AtItemFits
  <1>5. /\ y.pc = "fetch" /\ y.item = x.item /\ y.n = x.n + 1 /\ OthersKeep(s)
        /\ x.n \in Nat /\ x.batch \in Nat /\ x.item \in Nat
    BY <1>4 DEF RecordInserted, OthersKeep, ScriptState
  <1>6. Item(s).strategy = "direct"
    BY <1>3 DEF DirectNow, DirectAt
  <1>7. \A b \in mine : b.n < x.n /\ b.n \in Nat
    <2>1. AtWork(x, x.item)
      BY <1>1 DEF AtWork, Current, Recording
    <2>2. mine \in SUBSET BatchRow
      BY <1>4, BatchFacts
    <2> QED
      BY <1>4, <1>6, <2>1, <2>2 DEF BatchesFit, BatchRow
  <1> HIDE DEF mine
  <1>8. /\ BatchesThen(r, t) = mine \cup {[table |-> t, n |-> x.n, rows |-> x.batch]}
        /\ \A o \in Runs, u \in Tables : (o # r \/ u # t) => BatchesThen(o, u) = BatchesOf(o, u)
        /\ \A o \in Runs : IsFiniteSet(batches'[o])
        /\ Total(BatchesThen(r, t)) = Total(mine) + x.batch
    <2>1. \A b \in mine : b.n # x.n
      BY <1>5, <1>7
    <2>2. BatchInserted(r, t, x.n, x.batch)
      BY <1>1 DEF RecordBatch, BatchInserted
    <2>3. /\ r \in Runs /\ t \in Tables /\ x.n \in Nat /\ x.batch \in Nat
          /\ \A b \in BatchesOf(r, t) : b.n # x.n
      BY <1>4, <1>5, <2>1 DEF mine, ScriptState
    <2> HIDE DEF r, t, x
    <2> QED
      BY <2>2, <2>3, BatchAdded DEF mine
  <1>9. OtherRowsStay(r, t) /\ runTables'[r][t].done = runTables[r][t].done + x.batch
    <2>1. StoreTypeOK
      BY <1>2 DEF FInv, LInv, OInv, RInv, TInv, MInv
    <2> HIDE DEF r, t, x
    <2> QED
      BY <1>1, <1>4, <2>1, BatchWritten
  <1>10. OtherRecords(r, t)
    BY <1>8, <1>9 DEF OtherRecords, OtherRowsStay
  <1>11. runTables'[r][t].done = Total(BatchesThen(r, t))
    BY Zenon, <1>4, <1>8, <1>9, BatchFacts DEF mine
  <1>12. BatchesFit(y, x.item, Item(s), BatchesThen(r, t))
    <2>1. \A b \in BatchesThen(r, t) : b.n < y.n
      BY <1>5, <1>7, <1>8
    <2>2. ~NotBegun(y, x.item)
      BY <1>5 DEF NotBegun, Unregistered, Waiting
    <2> QED
      BY <1>6, <2>1, <2>2 DEF BatchesFit
  <1>13. NoOtherItem(x, y, x.item)
    BY <1>1, <1>4, <1>5, SameItem
  <1> QED
    BY Zenon, <1>4, <1>5, <1>8, <1>10, <1>11, <1>12, <1>13, RecordsMove

LEMMA RecordLoadedAdds ==
  ASSUME FreshIds, TablesOnce, BInv, NEW s \in Scripts, RecordLoaded(s)
  PROVE  BatchesFollowScripts' /\ CheckpointAddsUp'
  <1> DEFINE r == RunOf[s]
             t == Item(s).table
             x == script[s]
             y == script'[s]
             mine == BatchesOf(r, t)
  <1>1. x.pc = "recordLoad" /\ RecordStagedLoad(r, t, x.loaded)
    BY DEF RecordLoaded, At
  <1>2. FInv
    BY DEF BInv
  <1>3. AtItem(s) /\ StagedNow(s)
    BY <1>1, <1>2, StagedWorks
  <1>4. /\ x.item \in DOMAIN Plan[s] /\ Item(s) = Plan[s][x.item] /\ r \in Runs /\ t \in Tables
        /\ x \in ScriptState /\ script \in [Scripts -> ScriptState] /\ TableExists(r, t)
        /\ BatchesFit(x, x.item, Item(s), mine)
    BY <1>3, AtItemFits
  <1>5. /\ y.pc = "clearPhase" /\ y.item = x.item /\ OthersKeep(s)
        /\ x.loaded \in Nat /\ x.item \in Nat
    BY <1>4 DEF RecordLoaded, Goto, OthersKeep, ScriptState
  <1>6. mine = {}
    <2>1. AtWork(x, x.item)
      BY <1>1 DEF AtWork, Current, Recording
    <2>2. Item(s).strategy # "direct"
      BY <1>3 DEF StagedNow, StagedAt
    <2> QED
      BY <1>4, <2>1, <2>2 DEF BatchesFit
  <1> HIDE DEF mine
  <1>7. /\ \A o \in Runs, u \in Tables : (o # r \/ u # t) => BatchesThen(o, u) = BatchesOf(o, u)
        /\ \A o \in Runs : IsFiniteSet(batches'[o])
        /\ Total(BatchesThen(r, t)) = Total(mine) + x.loaded
    <2>1. \A b \in mine : b.n # 0
      BY <1>6
    <2>2. BatchInserted(r, t, 0, x.loaded)
      BY <1>1 DEF RecordStagedLoad, BatchInserted
    <2>3. /\ r \in Runs /\ t \in Tables /\ x.n \in Nat /\ x.loaded \in Nat
          /\ \A b \in BatchesOf(r, t) : b.n # 0
      BY <1>4, <1>5, <2>1 DEF mine, ScriptState
    <2> HIDE DEF r, t, x
    <2> QED
      BY <2>2, <2>3, BatchAdded DEF mine
  <1>8. OtherRowsStay(r, t) /\ runTables'[r][t].done = x.loaded
    <2>1. StoreTypeOK
      BY <1>2 DEF FInv, LInv, OInv, RInv, TInv, MInv
    <2> HIDE DEF r, t, x
    <2> QED
      BY <1>1, <1>4, <2>1, LoadWritten
  <1>9. OtherRecords(r, t)
    BY <1>7, <1>8 DEF OtherRecords, OtherRowsStay
  <1>10. runTables'[r][t].done = Total(BatchesThen(r, t))
    BY <1>5, <1>6, <1>7, <1>8, TotalOfNone
  <1>11. BatchesFit(y, x.item, Item(s), BatchesThen(r, t))
    BY <1>5 DEF BatchesFit, NotBegun, Unregistered, Waiting, AtWork, Current, Recording
  <1>12. NoOtherItem(x, y, x.item)
    BY <1>1, <1>4, <1>5, SameItem
  <1> QED
    BY Zenon, <1>4, <1>5, <1>7, <1>9, <1>10, <1>11, <1>12, RecordsMove

LEMMA RegisterNextAdds ==
  ASSUME FreshIds, TablesOnce, BInv, NEW s \in Scripts, RegisterNext(s)
  PROVE  BatchesFollowScripts' /\ CheckpointAddsUp'
  <1> DEFINE r == RunOf[s]
             x == script[s]
             y == script'[s]
             i == script[s].item
             t == Item(s).table
  <1>1. FInv /\ BatchesFollowScripts
    BY DEF BInv
  <1>2. /\ MInv /\ ScriptOK(s) /\ r \in Runs /\ x \in ScriptState
        /\ script \in [Scripts -> ScriptState]
    BY <1>1, PlanFacts
  <1>3. x.pc = "register" /\ PlanLeft(s)
    BY DEF RegisterNext, At
  <1>4. y.pc = "register" /\ y.item = i + 1 /\ OthersKeep(s)
    BY <1>2, <1>3 DEF RegisterNext, OthersKeep, ScriptState
  <1>5. /\ i \in DOMAIN Plan[s] /\ Item(s) = Plan[s][i] /\ t \in Tables /\ i \in Nat
    <2>1. i \in DOMAIN Plan[s]
      BY <1>2, <1>3, MigratorAssumptions DEF PlanLeft, ScriptOK, ScriptState
    <2> QED
      BY <2>1, ItemTypes, <1>2 DEF Item
  <1>6. BatchesOf(r, t) = {}
    <2>1. BatchesFit(x, i, Item(s), BatchesOf(r, t))
      BY <1>1, <1>5 DEF BatchesFollowScripts
    <2>2. NotBegun(x, i)
      BY <1>3, <1>5 DEF NotBegun, Unregistered
    <2> QED
      BY <2>1, <2>2 DEF BatchesFit
  <1>7. PICK total : RegisterTable(r, t, total)
    BY DEF RegisterNext
  <1>8. /\ runTables'[r][t].done = 0 /\ UNCHANGED batches
        /\ \A o \in Runs, u \in Tables : (o # r \/ u # t) => runTables'[o][u] = runTables[o][u]
    BY <1>2, <1>5, <1>7 DEF RegisterTable, MInv, StoreTypeOK
  <1>9. \A o \in Runs, u \in Tables : BatchesThen(o, u) = BatchesOf(o, u)
    BY <1>8 DEF BatchesOf, BatchesThen
  <1>10. OtherRecords(r, t)
    BY <1>8, <1>9 DEF OtherRecords
  <1>11. runTables'[r][t].done = Total(BatchesThen(r, t))
    BY <1>2, <1>5, <1>6, <1>8, <1>9, TotalOfNone
  <1>12. BatchesFit(y, i, Item(s), BatchesThen(r, t))
    <2>1. BatchesThen(r, t) = {}
      BY <1>2, <1>5, <1>6, <1>9
    <2> QED
      BY <2>1 DEF BatchesFit
  <1>13. NoOtherItem(x, y, i)
    BY <1>3, <1>4, <1>5 DEF NoOtherItem, NotBegun, Unregistered, Waiting, AtWork, Current
  <1>14. \A o \in Runs : IsFiniteSet(batches'[o])
    BY <1>1, <1>8 DEF BatchesFollowScripts
  <1> QED
    BY Zenon, <1>4, <1>5, <1>10, <1>11, <1>12, <1>13, <1>14, RecordsMove

\* A run that is created or deleted starts from nothing, or ends with nothing.
LEMMA RunEmptied ==
  ASSUME BInv, MInv', NEW r \in Runs,
         \A s \in Scripts : script'[s] = script[s] \/ Later(script[s], script'[s]),
         batches' = [batches EXCEPT ![r] = {}],
         runTables' = [runTables EXCEPT ![r] = [t \in Tables |-> NoTable]]
  PROVE  BatchesFollowScripts' /\ CheckpointAddsUp'
  <1>1. FInv /\ MInv /\ BatchesFollowScripts /\ CheckpointAddsUp
    BY DEF BInv, FInv, LInv, OInv, RInv, TInv
  <1>2. /\ batches'[r] = {} /\ \A o \in Runs : o # r => batches'[o] = batches[o]
        /\ \A t \in Tables : runTables'[r][t] = NoTable
        /\ \A o \in Runs : o # r => runTables'[o] = runTables[o]
    BY <1>1 DEF MInv, StoreTypeOK
  <1>3. \A t : BatchesThen(r, t) = {}
    BY <1>2 DEF BatchesOf, BatchesThen
  <1>4. \A o \in Runs, t \in Tables : o # r => BatchesThen(o, t) = BatchesOf(o, t)
    BY <1>2 DEF BatchesOf, BatchesThen
  <1>5. ASSUME NEW s \in Scripts, NEW i \in DOMAIN Plan[s]
        PROVE  BatchesFit(script'[s], i, Plan[s][i], BatchesThen(RunOf[s], Plan[s][i].table))
    <2> DEFINE mine == BatchesOf(RunOf[s], Plan[s][i].table)
    <2>1. /\ script[s] \in ScriptState /\ script'[s] \in ScriptState /\ i \in Nat
          /\ RunOf[s] \in Runs /\ Plan[s][i].table \in Tables
      BY <1>1, ItemTypes DEF MInv, MigratorTypeOK
    <2>2. CASE RunOf[s] = r
      BY <1>3, <2>2 DEF BatchesFit
    <2>3. CASE RunOf[s] # r
      <3>1. mine \in SUBSET BatchRow
        BY <2>1, BatchFacts
      <3>2. BatchesFit(script[s], i, Plan[s][i], mine)
        BY <1>1 DEF BatchesFollowScripts
      <3> HIDE DEF mine
      <3>3. BatchesFit(script'[s], i, Plan[s][i], mine)
        BY <2>1, <3>1, <3>2, LaterFits
      <3>4. BatchesThen(RunOf[s], Plan[s][i].table) = mine
        BY <1>4, <2>1, <2>3 DEF mine
      <3> QED
        BY <3>3, <3>4
    <2> QED
      BY <2>2, <2>3
  <1>6. \A o \in Runs : IsFiniteSet(batches'[o])
    BY <1>1, <1>2, FS_EmptySet DEF BatchesFollowScripts
  <1>7. BatchesFollowScripts'
    BY <1>5, <1>6 DEF BatchesFollowScripts, BatchesOf, BatchesThen
  <1>8. ASSUME NEW o \in Runs, NEW t \in Tables, TableExists(o, t)'
        PROVE  runTables'[o][t].done = Recorded(o, t)'
    <2>1. o # r
      BY <1>2, <1>8 DEF TableExists, NoTable
    <2>2. BatchesThen(o, t) = BatchesOf(o, t) /\ runTables'[o] = runTables[o]
      BY <1>2, <1>4, <2>1
    <2>3. TableExists(o, t)
      BY <1>8, <2>2 DEF TableExists
    <2> QED
      BY <1>1, <2>2, <2>3, RecordedIs DEF CheckpointAddsUp
  <1>9. CheckpointAddsUp'
    BY <1>8 DEF CheckpointAddsUp
  <1> QED
    BY <1>7, <1>9

LEMMA CreateRunEmpties ==
  ASSUME BInv, MInv', NEW s \in Scripts, CreateRun(s)
  PROVE  BatchesFollowScripts' /\ CheckpointAddsUp'
  <1>1. FInv
    BY DEF BInv
  <1>2. OthersKeep(s) /\ Later(script[s], script'[s]) /\ RunOf[s] \in Runs
    BY <1>1, PlanFacts DEF CreateRun, At, Goto, OthersKeep, Later
  <1>3. /\ batches' = [batches EXCEPT ![RunOf[s]] = {}]
        /\ runTables' = [runTables EXCEPT ![RunOf[s]] = [t \in Tables |-> NoTable]]
    BY DEF CreateRun, InsertRun
  <1> QED
    BY <1>2, <1>3, RunEmptied DEF OthersKeep

-----------------------------------------------------------------------------
(* Every step *)

LEMMA OneMoves ==
  ASSUME NEW s \in Scripts, OthersKeep(s), Later(script[s], script'[s])
  PROVE  \A o \in Scripts : script'[o] = script[o] \/ Later(script[o], script'[o])
  BY DEF OthersKeep

LEMMA ApiAddsUp ==
  ASSUME BInv, MInv', ApiNext, UNCHANGED migratorVars
  PROVE  BatchesFollowScripts' /\ CheckpointAddsUp'
  <1>1. FInv /\ UNCHANGED script
    BY DEF BInv, migratorVars
  <1>2. PICK c \in Callers :
          (\E q \in Requests : Accept(c, q.op, q.run)) \/ Handle(c) \/ Abort(c)
    BY DEF ApiNext
  <1>3. CASE Delete(c)
    <2>1. PICK r \in Runs : DeleteRun(r)
      BY <1>1, <1>3, InFlight DEF Delete, NoRequest, FInv, LInv, OInv, RInv, TInv
    <2> QED
      BY <1>1, <2>1, RunEmptied DEF DeleteRun
  <1>4. CASE ~Delete(c)
    <2>1. UNCHANGED <<batches, runTables>>
      BY <1>2, <1>4 DEF Handle, Accept, WriteFlag, Abort, SetControlFlag, Mark, WriteEvent,
         storeVars
    <2> QED
      BY <1>1, <2>1, StoreStays, RecordsStay
  <1> QED
    BY <1>3, <1>4

LEMMA NextBInv ==
  SerialDispatch /\ FreshIds /\ TablesOnce /\ BInv /\ [Next]_vars => BInv'
  <1> SUFFICES ASSUME SerialDispatch, FreshIds, TablesOnce, BInv, [Next]_vars
               PROVE  BatchesFollowScripts' /\ CheckpointAddsUp'
    BY NextFInv DEF BInv
  <1>1. FInv /\ FInv'
    BY NextFInv DEF BInv
  <1>2. MInv'
    BY <1>1 DEF FInv, LInv, OInv, RInv, TInv
  <1>3. ASSUME NEW s \in Scripts, SameRecords, OthersKeep(s), Later(script[s], script'[s])
        PROVE  BatchesFollowScripts' /\ CheckpointAddsUp'
    BY <1>2, <1>3, OneMoves, RecordsStay
  <1>4. CASE MigratorNext
    <2>1. ASSUME NEW s \in Scripts, Proceed(s)
          PROVE  BatchesFollowScripts' /\ CheckpointAddsUp'
      <3>1. CASE DirectStep(s)
        BY <1>1, <1>3, <3>1, DirectLater, RecordInsertedAdds
      <3>2. CASE StagedStep(s)
        BY <1>1, <1>3, <3>2, StagedLater, RecordLoadedAdds
      <3>3. CASE ControlStep(s)
        BY <1>1, <1>3, <3>3, ControlLater
      <3>4. CASE RunStep(s)
        BY <1>1, <1>2, <1>3, <3>4, RunLater, CreateRunEmpties, RegisterNextAdds
      <3> QED
        BY <2>1, <3>1, <3>2, <3>3, <3>4 DEF Proceed
    <2>2. ASSUME NEW s \in Scripts, Launch(s) \/ Fail(s) \/ FailTable(s) \/ LandLate(s) \/ Kill(s)
          PROVE  BatchesFollowScripts' /\ CheckpointAddsUp'
      BY <1>1, <1>3, <2>2, StopLater
    <2>3. ASSUME NEW t \in Tables, SourceInsert(t)
          PROVE  BatchesFollowScripts' /\ CheckpointAddsUp'
      <3>1. UNCHANGED <<script, batches, runTables>>
        BY <2>3 DEF SourceInsert, storeVars
      <3> QED
        BY <1>2, <3>1, StoreStays, RecordsStay
    <2> QED
      BY <1>4, <2>1, <2>2, <2>3 DEF MigratorNext
  <1>5. CASE ApiNext /\ UNCHANGED migratorVars
    BY <1>2, <1>5, ApiAddsUp
  <1>6. CASE UNCHANGED vars
    <2>1. UNCHANGED <<script, batches, runTables>>
      BY <1>6 DEF vars, storeVars, migratorVars
    <2> QED
      BY <1>2, <2>1, StoreStays, RecordsStay
  <1> QED
    BY <1>4, <1>5, <1>6 DEF Next

LEMMA InitBInv == Init => BInv
  <1> SUFFICES ASSUME Init PROVE BatchesFollowScripts /\ CheckpointAddsUp
    BY InitFInv DEF BInv
  <1>1. /\ \A r \in Runs : batches[r] = {}
        /\ \A r \in Runs, t \in Tables : runTables[r][t] = NoTable
    BY DEF Init, StoreInit
  <1>2. \A r \in Runs : \A t : BatchesOf(r, t) = {}
    BY <1>1 DEF BatchesOf
  <1>3. \A s \in Scripts : RunOf[s] \in Runs
    BY MigratorAssumptions
  <1>4. BatchesFollowScripts
    BY <1>1, <1>2, <1>3, FS_EmptySet DEF BatchesFollowScripts, BatchesFit
  <1>5. CheckpointAddsUp
    BY <1>1 DEF CheckpointAddsUp, TableExists, NoTable
  <1> QED
    BY <1>4, <1>5

\* For every plan, and however many scripts and requests there are: the rows of
\* run_tables and of batches, those of the target and of the bucket, and what the
\* events announce, are what the place of each script in its run says.
THEOREM ItemsFollowHolds ==
  ASSUME SerialDispatch, FreshIds, TablesOnce
  PROVE  Spec => []ItemsFollowScripts
  <1>1. BInv => ItemsFollowScripts
    BY DEF BInv, FInv, ItemsFollowScripts
  <1>2. BInv /\ [Next]_vars => BInv'
    BY NextBInv
  <1> QED
    BY <1>1, <1>2, InitBInv, PTL DEF Spec

\* rows_done is the sum of the rows of batches, on either path and after any number
\* of batches, never ahead of the target and never far behind it.
THEOREM CheckpointSoundHolds ==
  ASSUME SerialDispatch, FreshIds, TablesOnce
  PROVE  Spec => []CheckpointSound
  <1>1. BInv => CheckpointSound
    BY CheckpointBounds DEF BInv, CheckpointSound
  <1>2. BInv /\ [Next]_vars => BInv'
    BY NextBInv
  <1> QED
    BY <1>1, <1>2, InitBInv, PTL DEF Spec
=============================================================================
