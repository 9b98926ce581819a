------------------------ MODULE MigrationSystem_proofs ------------------------
(***************************************************************************)
(* Scripts and control API together, for any number of scripts, runs,      *)
(* tables, callers and rows: types, the rows of the database, and the      *)
(* status of a run.  The first two need no assumption on the environment.  *)
(*                                                                         *)
(* Every step of a migration script keeps the types and the fit of its     *)
(* control location with its local variables (ScriptsOK).  The two are     *)
(* proved together: a step that works on Item(s) is well typed only        *)
(* because the item is in the plan.                                        *)
(*                                                                         *)
(* One active run, when constructions never overlap (SerialDispatch), and  *)
(* the status column of the table runs implements RunLifecycle, when       *)
(* besides no two scripts use one run id (FreshIds).  The argument: the    *)
(* status of a run says where its script is (StatusFollowsScript), so      *)
(* every write of a status finds the status that the write supposes; and a *)
(* delete that passed its check still finds the run ended                  *)
(* (DeletesAreSafe).  Most steps of a script leave every status alone;     *)
(* Moves says so once, and says where such a step may take its script.     *)
(***************************************************************************)
EXTENDS MigrationSystem, StateStore_proofs

-----------------------------------------------------------------------------
(* The scripts *)

MInv == StoreTypeOK /\ MigratorTypeOK /\ ScriptsOK

\* What the new record of a script has to satisfy.
Fits(s, x) ==
  /\ x \in ScriptState
  /\ x.item >= 1
  /\ x.pc \in ItemPcs => x.item <= Len(Plan[s])
  /\ x.pc \in ControlPcs => x.ret # "none"
  /\ x.pc \in EndPcs => x.outcome # "none"
  /\ x.late => /\ x.item <= Len(Plan[s])
               /\ x.pc \in EndPcs \cup {"exited", "killed"}

LEMMA ItemTyped ==
  ASSUME MInv, NEW s \in Scripts, script[s].pc \in ItemPcs \/ PlanLeft(s)
  PROVE  /\ Item(s) \in PlanItem
         /\ Item(s).table \in Tables
         /\ Item(s).target \in TargetTables
         /\ RunOf[s] \in Runs
  <1>1. Plan[s] \in Seq(PlanItem) /\ RunOf[s] \in Runs
    BY MigratorAssumptions
  <1>2. script[s].item \in 1..Len(Plan[s])
    BY <1>1 DEF MInv, MigratorTypeOK, ScriptsOK, ScriptOK, ScriptState, PlanLeft
  <1>3. Item(s) \in PlanItem
    BY <1>1, <1>2 DEF Item
  <1> QED
    BY <1>1, <1>3 DEF PlanItem

\* One script moves: the others keep theirs.
LEMMA ScriptMoves ==
  ASSUME MInv, NEW s \in Scripts, NEW x, Fits(s, x),
         script' = [script EXCEPT ![s] = x]
  PROVE  script' \in [Scripts -> ScriptState] /\ ScriptsOK'
  <1>1. script' \in [Scripts -> ScriptState]
    BY DEF MInv, MigratorTypeOK, Fits
  <1>2. ASSUME NEW o \in Scripts PROVE ScriptOK(o)'
    BY DEF MInv, MigratorTypeOK, ScriptsOK, ScriptOK, Fits, PlanLeft
  <1> QED
    BY <1>1, <1>2 DEF ScriptsOK

\* A step that moves one script and leaves the data alone.
LEMMA ScriptStepInv ==
  ASSUME MInv, NEW s \in Scripts, NEW x, Fits(s, x),
         script' = [script EXCEPT ![s] = x], UNCHANGED dataVars, StoreTypeOK'
  PROVE  MInv'
  BY ScriptMoves DEF MInv, MigratorTypeOK, dataVars

-----------------------------------------------------------------------------
(* One lemma per action.  The control locations are expanded throughout.   *)

USE DEF LivePcs, StoppedPcs, ConstructPcs, RunPcs, EndPcs, ControlPcs, DirectPcs,
        StagedPcs, TablePcs, ItemPcs, ReturnPcs, TerminalStatus

LEMMA CheckNoActiveRunInv ==
  ASSUME MInv, NEW s \in Scripts, CheckNoActiveRun(s)
  PROVE  MInv'
  <1>0. script[s] \in ScriptState /\ ScriptOK(s) /\ At(s, "new")
    BY DEF MInv, MigratorTypeOK, ScriptsOK, CheckNoActiveRun
  <1>1. Fits(s, [script[s] EXCEPT !.pc = "insert"])
    BY <1>0 DEF At, PlanLeft, ScriptOK, Fits, ScriptState
  <1>2. StoreTypeOK'
    BY StoreStutterType DEF MInv, CheckNoActiveRun
  <1> QED
    BY <1>1, <1>2, ScriptStepInv DEF CheckNoActiveRun, Goto

LEMMA RefuseRunInv ==
  ASSUME MInv, NEW s \in Scripts, RefuseRun(s)
  PROVE  MInv'
  <1>0. script[s] \in ScriptState /\ ScriptOK(s) /\ At(s, "new")
    BY DEF MInv, MigratorTypeOK, ScriptsOK, RefuseRun
  <1>1. Fits(s, [script[s] EXCEPT !.pc = "refused"])
    BY <1>0 DEF At, PlanLeft, ScriptOK, Fits, ScriptState
  <1>2. StoreTypeOK'
    BY StoreStutterType DEF MInv, RefuseRun
  <1> QED
    BY <1>1, <1>2, ScriptStepInv DEF RefuseRun, Goto

LEMMA CreateRunInv ==
  ASSUME MInv, NEW s \in Scripts, CreateRun(s)
  PROVE  MInv'
  <1>0. script[s] \in ScriptState /\ ScriptOK(s) /\ At(s, "insert")
    BY DEF MInv, MigratorTypeOK, ScriptsOK, CreateRun
  <1>1. Fits(s, [script[s] EXCEPT !.pc = "started"])
    BY <1>0 DEF At, PlanLeft, ScriptOK, Fits, ScriptState
  <1>2. StoreTypeOK'
    BY InsertRunType, MigratorAssumptions DEF MInv, CreateRun, At, PlanLeft
  <1> QED
    BY <1>1, <1>2, ScriptStepInv DEF CreateRun, Goto

LEMMA AnnounceStartInv ==
  ASSUME MInv, NEW s \in Scripts, AnnounceStart(s)
  PROVE  MInv'
  <1>0. script[s] \in ScriptState /\ ScriptOK(s) /\ At(s, "started")
    BY DEF MInv, MigratorTypeOK, ScriptsOK, AnnounceStart
  <1>1. Fits(s, [script[s] EXCEPT !.pc = "preflight"])
    BY <1>0 DEF At, PlanLeft, ScriptOK, Fits, ScriptState
  <1>2. StoreTypeOK'
    BY WriteEventType, ItemTyped, MigratorAssumptions DEF MInv, AnnounceStart, At, PlanLeft, EventKinds, RunEvents, TableEvents
  <1> QED
    BY <1>1, <1>2, ScriptStepInv DEF AnnounceStart, Goto

LEMMA PreflightInv ==
  ASSUME MInv, NEW s \in Scripts, Preflight(s)
  PROVE  MInv'
  <1>0. script[s] \in ScriptState /\ ScriptOK(s) /\ At(s, "preflight")
    BY DEF MInv, MigratorTypeOK, ScriptsOK, Preflight
  <1>1. Fits(s, [script[s] EXCEPT !.pc = "register"])
    BY <1>0 DEF At, PlanLeft, ScriptOK, Fits, ScriptState
  <1>2. StoreTypeOK'
    BY StoreStutterType DEF MInv, Preflight
  <1> QED
    BY <1>1, <1>2, ScriptStepInv DEF Preflight, Goto

LEMMA RegisterNextInv ==
  ASSUME MInv, NEW s \in Scripts, RegisterNext(s)
  PROVE  MInv'
  <1>0. script[s] \in ScriptState /\ ScriptOK(s) /\ At(s, "register")
    BY DEF MInv, MigratorTypeOK, ScriptsOK, RegisterNext
  <1>a. script[s].item + 1 \in Nat /\ script[s].item + 1 >= 1
    BY <1>0 DEF ScriptState
  <1>1. Fits(s, [script[s] EXCEPT !.item = @ + 1])
    BY <1>0, <1>a DEF At, PlanLeft, ScriptOK, Fits, ScriptState
  <1>2. StoreTypeOK'
    BY RegisterTableType, ItemTyped DEF MInv, RegisterNext, At, PlanLeft, MigratorTypeOK
  <1> QED
    BY <1>1, <1>2, ScriptStepInv DEF RegisterNext, Goto

LEMMA AllRegisteredInv ==
  ASSUME MInv, NEW s \in Scripts, AllRegistered(s)
  PROVE  MInv'
  <1>0. script[s] \in ScriptState /\ ScriptOK(s) /\ At(s, "register")
    BY DEF MInv, MigratorTypeOK, ScriptsOK, AllRegistered
  <1> DEFINE x == [script[s] EXCEPT !.pc = "table", !.item = 1]
  <1>a. x \in ScriptState /\ x.pc = "table" /\ x.item = 1 /\ ~x.late
    BY <1>0 DEF ScriptState, ScriptOK, At
  <1> HIDE DEF x
  <1>1. Fits(s, x)
    BY <1>a DEF Fits
  <1>2. StoreTypeOK'
    BY StoreStutterType DEF MInv, AllRegistered
  <1> QED
    BY <1>1, <1>2, ScriptStepInv DEF AllRegistered, x

LEMMA BeginDirectInv ==
  ASSUME MInv, NEW s \in Scripts, BeginDirect(s)
  PROVE  MInv'
  <1>0. script[s] \in ScriptState /\ ScriptOK(s) /\ At(s, "table") /\ PlanLeft(s)
    BY DEF MInv, MigratorTypeOK, ScriptsOK, BeginDirect
  <1>1. Fits(s, [script[s] EXCEPT !.pc = "open", !.n = 0])
    BY <1>0 DEF At, PlanLeft, ScriptOK, Fits, ScriptState
  <1>2. StoreTypeOK'
    BY SetTableStatusType, ItemTyped DEF MInv, BeginDirect, At, PlanLeft, TableStatus, Phases
  <1> QED
    BY <1>1, <1>2, ScriptStepInv DEF BeginDirect, Goto

LEMMA BeginStagedInv ==
  ASSUME MInv, NEW s \in Scripts, BeginStaged(s)
  PROVE  MInv'
  <1>0. script[s] \in ScriptState /\ ScriptOK(s) /\ At(s, "table") /\ PlanLeft(s)
    BY DEF MInv, MigratorTypeOK, ScriptsOK, BeginStaged
  <1>1. Fits(s, [script[s] EXCEPT !.pc = "control", !.ret = "unloading"])
    BY <1>0 DEF At, PlanLeft, ScriptOK, Fits, ScriptState
  <1>2. StoreTypeOK'
    BY SetTableStatusType, ItemTyped DEF MInv, BeginStaged, At, PlanLeft, TableStatus, Phases
  <1> QED
    BY <1>1, <1>2, ScriptStepInv DEF BeginStaged, Goto

LEMMA RejectStrategyInv ==
  ASSUME MInv, NEW s \in Scripts, RejectStrategy(s)
  PROVE  MInv'
  <1>0. script[s] \in ScriptState /\ ScriptOK(s) /\ At(s, "table") /\ PlanLeft(s)
    BY DEF MInv, MigratorTypeOK, ScriptsOK, RejectStrategy
  <1>1. Fits(s, [script[s] EXCEPT !.pc = "finish", !.outcome = "failed"])
    BY <1>0 DEF At, PlanLeft, ScriptOK, Fits, ScriptState
  <1>2. StoreTypeOK'
    BY StoreStutterType DEF MInv, RejectStrategy
  <1> QED
    BY <1>1, <1>2, ScriptStepInv DEF RejectStrategy, Goto

LEMMA PlanDoneInv ==
  ASSUME MInv, NEW s \in Scripts, PlanDone(s)
  PROVE  MInv'
  <1>0. script[s] \in ScriptState /\ ScriptOK(s) /\ At(s, "table")
    BY DEF MInv, MigratorTypeOK, ScriptsOK, PlanDone
  <1>1. Fits(s, [script[s] EXCEPT !.pc = "finish", !.outcome = "done"])
    BY <1>0 DEF At, PlanLeft, ScriptOK, Fits, ScriptState
  <1>2. StoreTypeOK'
    BY StoreStutterType DEF MInv, PlanDone
  <1> QED
    BY <1>1, <1>2, ScriptStepInv DEF PlanDone, Goto

LEMMA OpenCursorInv ==
  ASSUME MInv, NEW s \in Scripts, OpenCursor(s)
  PROVE  MInv'
  <1>0. script[s] \in ScriptState /\ ScriptOK(s) /\ At(s, "open")
    BY DEF MInv, MigratorTypeOK, ScriptsOK, OpenCursor
  <1>a. sourceRows[Item(s).table] \in Nat
    BY ItemTyped DEF OpenCursor, At, MInv, MigratorTypeOK
  <1>1. Fits(s, [script[s] EXCEPT !.pc = "fetch", !.left = sourceRows[Item(s).table]])
    BY <1>0, <1>a DEF At, PlanLeft, ScriptOK, Fits, ScriptState
  <1>2. StoreTypeOK'
    BY StoreStutterType DEF MInv, OpenCursor
  <1> QED
    BY <1>1, <1>2, ScriptStepInv DEF OpenCursor, Goto

LEMMA FetchBatchInv ==
  ASSUME MInv, NEW s \in Scripts, FetchBatch(s)
  PROVE  MInv'
  <1>0. script[s] \in ScriptState /\ ScriptOK(s) /\ At(s, "fetch")
    BY DEF MInv, MigratorTypeOK, ScriptsOK, FetchBatch
  <1> DEFINE k == Lesser(BatchSize, script[s].left)
  <1>a. k \in Nat /\ script[s].left - k \in Nat
    BY <1>0, MigratorAssumptions DEF Lesser, ScriptState
  <1>1. Fits(s, [script[s] EXCEPT !.pc = "control", !.ret = "insertBatch",
                               !.batch = k, !.left = @ - k])
    BY <1>0, <1>a DEF At, PlanLeft, ScriptOK, Fits, ScriptState
  <1>2. StoreTypeOK'
    BY StoreStutterType DEF MInv, FetchBatch
  <1> QED
    BY <1>1, <1>2, ScriptStepInv DEF FetchBatch, Goto

LEMMA CursorEmptyInv ==
  ASSUME MInv, NEW s \in Scripts, CursorEmpty(s)
  PROVE  MInv'
  <1>0. script[s] \in ScriptState /\ ScriptOK(s) /\ At(s, "fetch")
    BY DEF MInv, MigratorTypeOK, ScriptsOK, CursorEmpty
  <1>1. Fits(s, [script[s] EXCEPT !.pc = "tableDone"])
    BY <1>0 DEF At, PlanLeft, ScriptOK, Fits, ScriptState
  <1>2. StoreTypeOK'
    BY StoreStutterType DEF MInv, CursorEmpty
  <1> QED
    BY <1>1, <1>2, ScriptStepInv DEF CursorEmpty, Goto

LEMMA InsertBatchInv ==
  ASSUME MInv, NEW s \in Scripts, InsertBatch(s)
  PROVE  MInv'
  <1>0. script[s] \in ScriptState /\ ScriptOK(s) /\ At(s, "insertBatch")
    BY DEF MInv, MigratorTypeOK, ScriptsOK, InsertBatch
  <1>1. Fits(s, [script[s] EXCEPT !.pc = "recordBatch"])
    BY <1>0 DEF At, PlanLeft, ScriptOK, Fits, ScriptState
  <1>2. StoreTypeOK'
    BY StoreStutterType DEF MInv, InsertBatch, At, PlanLeft
  <1>3. /\ sourceRows' \in [Tables -> Nat]
        /\ staged' \in [Runs -> [Tables -> Nat]]
        /\ target' \in [TargetTables -> Nat]
        /\ landed' \in [Runs -> [Tables -> Nat]]
    BY ItemTyped DEF InsertBatch, At, MInv, MigratorTypeOK, ScriptState, Land
  <1> QED
    BY <1>1, <1>2, <1>3, ScriptMoves DEF InsertBatch, Goto, MInv, MigratorTypeOK

LEMMA RecordInsertedInv ==
  ASSUME MInv, NEW s \in Scripts, RecordInserted(s)
  PROVE  MInv'
  <1>0. script[s] \in ScriptState /\ ScriptOK(s) /\ At(s, "recordBatch")
    BY DEF MInv, MigratorTypeOK, ScriptsOK, RecordInserted
  <1>a. script[s].n + 1 \in Nat
    BY <1>0 DEF ScriptState
  <1>1. Fits(s, [script[s] EXCEPT !.pc = "fetch", !.batch = 0, !.n = @ + 1])
    BY <1>0, <1>a DEF At, PlanLeft, ScriptOK, Fits, ScriptState
  <1>2. StoreTypeOK'
    BY RecordBatchType, ItemTyped DEF MInv, RecordInserted, At, PlanLeft, MigratorTypeOK, ScriptState
  <1> QED
    BY <1>1, <1>2, ScriptStepInv DEF RecordInserted, Goto

LEMMA CompleteTableInv ==
  ASSUME MInv, NEW s \in Scripts, CompleteTable(s)
  PROVE  MInv'
  <1>0. script[s] \in ScriptState /\ ScriptOK(s) /\ At(s, "tableDone")
    BY DEF MInv, MigratorTypeOK, ScriptsOK, CompleteTable
  <1>1. Fits(s, [script[s] EXCEPT !.pc = "sayTableDone"])
    BY <1>0 DEF At, PlanLeft, ScriptOK, Fits, ScriptState
  <1>2. StoreTypeOK'
    BY SetTableStatusType, ItemTyped DEF MInv, CompleteTable, At, PlanLeft, TableStatus, Phases
  <1> QED
    BY <1>1, <1>2, ScriptStepInv DEF CompleteTable, Goto

LEMMA AnnounceTableInv ==
  ASSUME MInv, NEW s \in Scripts, AnnounceTable(s)
  PROVE  MInv'
  <1>0. script[s] \in ScriptState /\ ScriptOK(s) /\ At(s, "sayTableDone")
    BY DEF MInv, MigratorTypeOK, ScriptsOK, AnnounceTable
  <1>a. script[s].item + 1 \in Nat /\ script[s].item + 1 >= 1
    BY <1>0 DEF ScriptState
  <1>1. Fits(s, [script[s] EXCEPT !.pc = "table", !.item = @ + 1])
    BY <1>0, <1>a DEF At, PlanLeft, ScriptOK, Fits, ScriptState
  <1>2. StoreTypeOK'
    BY WriteEventType, ItemTyped, MigratorAssumptions DEF MInv, AnnounceTable, At, PlanLeft, EventKinds, RunEvents, TableEvents
  <1> QED
    BY <1>1, <1>2, ScriptStepInv DEF AnnounceTable, Goto

LEMMA EnterUnloadingInv ==
  ASSUME MInv, NEW s \in Scripts, EnterUnloading(s)
  PROVE  MInv'
  <1>0. script[s] \in ScriptState /\ ScriptOK(s) /\ At(s, "unloading")
    BY DEF MInv, MigratorTypeOK, ScriptsOK, EnterUnloading, EnterPhase
  <1>1. Fits(s, [script[s] EXCEPT !.pc = "unload"])
    BY <1>0 DEF At, PlanLeft, ScriptOK, Fits, ScriptState
  <1>2. StoreTypeOK'
    BY SetTablePhaseType, ItemTyped DEF MInv, EnterUnloading, EnterPhase, At, PlanLeft, TableStatus, Phases
  <1> QED
    BY <1>1, <1>2, ScriptStepInv DEF EnterUnloading, EnterPhase, Goto

LEMMA EnterStagedInv ==
  ASSUME MInv, NEW s \in Scripts, EnterStaged(s)
  PROVE  MInv'
  <1>0. script[s] \in ScriptState /\ ScriptOK(s) /\ At(s, "staged")
    BY DEF MInv, MigratorTypeOK, ScriptsOK, EnterStaged, EnterPhase
  <1>1. Fits(s, [script[s] EXCEPT !.pc = "control", !.ret = "loading"])
    BY <1>0 DEF At, PlanLeft, ScriptOK, Fits, ScriptState
  <1>2. StoreTypeOK'
    BY SetTablePhaseType, ItemTyped DEF MInv, EnterStaged, EnterPhase, At, PlanLeft, TableStatus, Phases
  <1> QED
    BY <1>1, <1>2, ScriptStepInv DEF EnterStaged, EnterPhase, Goto

LEMMA EnterLoadingInv ==
  ASSUME MInv, NEW s \in Scripts, EnterLoading(s)
  PROVE  MInv'
  <1>0. script[s] \in ScriptState /\ ScriptOK(s) /\ At(s, "loading")
    BY DEF MInv, MigratorTypeOK, ScriptsOK, EnterLoading, EnterPhase
  <1>1. Fits(s, [script[s] EXCEPT !.pc = "baseline"])
    BY <1>0 DEF At, PlanLeft, ScriptOK, Fits, ScriptState
  <1>2. StoreTypeOK'
    BY SetTablePhaseType, ItemTyped DEF MInv, EnterLoading, EnterPhase, At, PlanLeft, TableStatus, Phases
  <1> QED
    BY <1>1, <1>2, ScriptStepInv DEF EnterLoading, EnterPhase, Goto

LEMMA EnterValidatingInv ==
  ASSUME MInv, NEW s \in Scripts, EnterValidating(s)
  PROVE  MInv'
  <1>0. script[s] \in ScriptState /\ ScriptOK(s) /\ At(s, "validating")
    BY DEF MInv, MigratorTypeOK, ScriptsOK, EnterValidating, EnterPhase
  <1>1. Fits(s, [script[s] EXCEPT !.pc = "compare"])
    BY <1>0 DEF At, PlanLeft, ScriptOK, Fits, ScriptState
  <1>2. StoreTypeOK'
    BY SetTablePhaseType, ItemTyped DEF MInv, EnterValidating, EnterPhase, At, PlanLeft, TableStatus, Phases
  <1> QED
    BY <1>1, <1>2, ScriptStepInv DEF EnterValidating, EnterPhase, Goto

LEMMA UnloadInv ==
  ASSUME MInv, NEW s \in Scripts, Unload(s)
  PROVE  MInv'
  <1>0. script[s] \in ScriptState /\ ScriptOK(s) /\ At(s, "unload")
    BY DEF MInv, MigratorTypeOK, ScriptsOK, Unload
  <1>1. Fits(s, [script[s] EXCEPT !.pc = "staged"])
    BY <1>0 DEF At, PlanLeft, ScriptOK, Fits, ScriptState
  <1>2. StoreTypeOK'
    BY StoreStutterType DEF MInv, Unload, At, PlanLeft
  <1>3. /\ sourceRows' \in [Tables -> Nat]
        /\ staged' \in [Runs -> [Tables -> Nat]]
        /\ target' \in [TargetTables -> Nat]
        /\ landed' \in [Runs -> [Tables -> Nat]]
    BY ItemTyped DEF Unload, At, MInv, MigratorTypeOK, ScriptState, Goto
  <1> QED
    BY <1>1, <1>2, <1>3, ScriptMoves DEF Unload, Goto, MInv, MigratorTypeOK

LEMMA CountBaselineInv ==
  ASSUME MInv, NEW s \in Scripts, CountBaseline(s)
  PROVE  MInv'
  <1>0. script[s] \in ScriptState /\ ScriptOK(s) /\ At(s, "baseline")
    BY DEF MInv, MigratorTypeOK, ScriptsOK, CountBaseline
  <1>1. PICK base \in {target[Item(s).target], 0} :
          script' = [script EXCEPT ![s].pc = "load", ![s].base = base]
    BY DEF CountBaseline
  <1>2. base \in Nat
    BY ItemTyped DEF CountBaseline, At, MInv, MigratorTypeOK
  <1>3. Fits(s, [script[s] EXCEPT !.pc = "load", !.base = base])
    BY <1>0, <1>2 DEF At, PlanLeft, ScriptOK, Fits, ScriptState
  <1>4. StoreTypeOK'
    BY StoreStutterType DEF MInv, CountBaseline
  <1>5. script' = [script EXCEPT ![s] = [script[s] EXCEPT !.pc = "load", !.base = base]]
    BY <1>1
  <1> QED
    BY <1>3, <1>4, <1>5, ScriptStepInv DEF CountBaseline

LEMMA LoadStagedInv ==
  ASSUME MInv, NEW s \in Scripts, LoadStaged(s)
  PROVE  MInv'
  <1>0. script[s] \in ScriptState /\ ScriptOK(s) /\ At(s, "load")
    BY DEF MInv, MigratorTypeOK, ScriptsOK, LoadStaged
  <1>1. Fits(s, [script[s] EXCEPT !.pc = "countLoaded"])
    BY <1>0 DEF At, PlanLeft, ScriptOK, Fits, ScriptState
  <1>2. StoreTypeOK'
    BY StoreStutterType DEF MInv, LoadStaged, At, PlanLeft
  <1>3. /\ sourceRows' \in [Tables -> Nat]
        /\ staged' \in [Runs -> [Tables -> Nat]]
        /\ target' \in [TargetTables -> Nat]
        /\ landed' \in [Runs -> [Tables -> Nat]]
    BY ItemTyped DEF LoadStaged, At, MInv, MigratorTypeOK, ScriptState, Land
  <1> QED
    BY <1>1, <1>2, <1>3, ScriptMoves DEF LoadStaged, Goto, MInv, MigratorTypeOK

LEMMA CountLoadedInv ==
  ASSUME MInv, NEW s \in Scripts, CountLoaded(s)
  PROVE  MInv'
  <1>0. script[s] \in ScriptState /\ ScriptOK(s) /\ At(s, "countLoaded")
    BY DEF MInv, MigratorTypeOK, ScriptsOK, CountLoaded
  <1> DEFINE rows == target[Item(s).target] - script[s].base
             k == IF rows < 0 THEN 0 ELSE rows
  <1>a. k \in Nat
    BY <1>0, ItemTyped DEF CountLoaded, At, MInv, MigratorTypeOK, ScriptState
  <1>1. Fits(s, [script[s] EXCEPT !.pc = "control", !.ret = "validating",
                               !.loaded = k])
    BY <1>0, <1>a DEF At, PlanLeft, ScriptOK, Fits, ScriptState
  <1>2. StoreTypeOK'
    BY StoreStutterType DEF MInv, CountLoaded
  <1> QED
    BY <1>1, <1>2, ScriptStepInv DEF CountLoaded, Goto

LEMMA CountsMatchInv ==
  ASSUME MInv, NEW s \in Scripts, CountsMatch(s)
  PROVE  MInv'
  <1>0. script[s] \in ScriptState /\ ScriptOK(s) /\ At(s, "compare")
    BY DEF MInv, MigratorTypeOK, ScriptsOK, CountsMatch
  <1>1. Fits(s, [script[s] EXCEPT !.pc = "cleanup"])
    BY <1>0 DEF At, PlanLeft, ScriptOK, Fits, ScriptState
  <1>2. StoreTypeOK'
    BY StoreStutterType DEF MInv, CountsMatch
  <1> QED
    BY <1>1, <1>2, ScriptStepInv DEF CountsMatch, Goto

LEMMA CountsDifferInv ==
  ASSUME MInv, NEW s \in Scripts, CountsDiffer(s)
  PROVE  MInv'
  <1>0. script[s] \in ScriptState /\ ScriptOK(s) /\ At(s, "compare")
    BY DEF MInv, MigratorTypeOK, ScriptsOK, CountsDiffer
  <1>1. Fits(s, [script[s] EXCEPT !.pc = "finish", !.outcome = "failed"])
    BY <1>0 DEF At, PlanLeft, ScriptOK, Fits, ScriptState
  <1>2. StoreTypeOK'
    BY SetTableStatusType, ItemTyped DEF MInv, CountsDiffer, At, PlanLeft, TableStatus, Phases
  <1> QED
    BY <1>1, <1>2, ScriptStepInv DEF CountsDiffer, Goto

LEMMA CleanUpInv ==
  ASSUME MInv, NEW s \in Scripts, CleanUp(s)
  PROVE  MInv'
  <1>0. script[s] \in ScriptState /\ ScriptOK(s) /\ At(s, "cleanup")
    BY DEF MInv, MigratorTypeOK, ScriptsOK, CleanUp
  <1>1. Fits(s, [script[s] EXCEPT !.pc = "recordLoad"])
    BY <1>0 DEF At, PlanLeft, ScriptOK, Fits, ScriptState
  <1>2. StoreTypeOK'
    BY StoreStutterType DEF MInv, CleanUp, At, PlanLeft
  <1>3. /\ sourceRows' \in [Tables -> Nat]
        /\ staged' \in [Runs -> [Tables -> Nat]]
        /\ target' \in [TargetTables -> Nat]
        /\ landed' \in [Runs -> [Tables -> Nat]]
    BY ItemTyped DEF CleanUp, At, MInv, MigratorTypeOK, ScriptState, Goto
  <1> QED
    BY <1>1, <1>2, <1>3, ScriptMoves DEF CleanUp, Goto, MInv, MigratorTypeOK

LEMMA RecordLoadedInv ==
  ASSUME MInv, NEW s \in Scripts, RecordLoaded(s)
  PROVE  MInv'
  <1>0. script[s] \in ScriptState /\ ScriptOK(s) /\ At(s, "recordLoad")
    BY DEF MInv, MigratorTypeOK, ScriptsOK, RecordLoaded
  <1>1. Fits(s, [script[s] EXCEPT !.pc = "clearPhase"])
    BY <1>0 DEF At, PlanLeft, ScriptOK, Fits, ScriptState
  <1>2. StoreTypeOK'
    BY RecordStagedLoadType, ItemTyped DEF MInv, RecordLoaded, At, PlanLeft, MigratorTypeOK, ScriptState
  <1> QED
    BY <1>1, <1>2, ScriptStepInv DEF RecordLoaded, Goto

LEMMA LeavePhasesInv ==
  ASSUME MInv, NEW s \in Scripts, LeavePhases(s)
  PROVE  MInv'
  <1>0. script[s] \in ScriptState /\ ScriptOK(s) /\ At(s, "clearPhase")
    BY DEF MInv, MigratorTypeOK, ScriptsOK, LeavePhases
  <1>1. Fits(s, [script[s] EXCEPT !.pc = "tableDone"])
    BY <1>0 DEF At, PlanLeft, ScriptOK, Fits, ScriptState
  <1>2. StoreTypeOK'
    BY SetTablePhaseType, ItemTyped DEF MInv, LeavePhases, At, PlanLeft, TableStatus, Phases
  <1> QED
    BY <1>1, <1>2, ScriptStepInv DEF LeavePhases, Goto

LEMMA ReadFlagInv ==
  ASSUME MInv, NEW s \in Scripts, ReadFlag(s)
  PROVE  MInv'
  <1>0. script[s] \in ScriptState /\ ScriptOK(s) /\ At(s, "control")
    BY DEF MInv, MigratorTypeOK, ScriptsOK, ReadFlag
  <1>1. PICK l \in {"sayCancelled", "markPaused", script[s].ret} : Goto(s, l)
    BY DEF ReadFlag
  <1>2. Fits(s, [script[s] EXCEPT !.pc = l])
    BY <1>0 DEF At, PlanLeft, ScriptOK, Fits, ScriptState
  <1>3. StoreTypeOK'
    BY StoreStutterType DEF MInv, ReadFlag
  <1> QED
    BY <1>1, <1>2, <1>3, ScriptStepInv DEF ReadFlag, Goto

LEMMA PollFlagInv ==
  ASSUME MInv, NEW s \in Scripts, PollFlag(s)
  PROVE  MInv'
  <1>0. script[s] \in ScriptState /\ ScriptOK(s) /\ At(s, "paused")
    BY DEF MInv, MigratorTypeOK, ScriptsOK, PollFlag
  <1>1. PICK l \in {"sayCancelled", "markRunning"} : Goto(s, l)
    BY DEF PollFlag
  <1>2. Fits(s, [script[s] EXCEPT !.pc = l])
    BY <1>0 DEF At, PlanLeft, ScriptOK, Fits, ScriptState
  <1>3. StoreTypeOK'
    BY StoreStutterType DEF MInv, PollFlag
  <1> QED
    BY <1>1, <1>2, <1>3, ScriptStepInv DEF PollFlag, Goto

LEMMA MarkPausedInv ==
  ASSUME MInv, NEW s \in Scripts, MarkPaused(s)
  PROVE  MInv'
  <1>0. script[s] \in ScriptState /\ ScriptOK(s) /\ At(s, "markPaused")
    BY DEF MInv, MigratorTypeOK, ScriptsOK, MarkPaused
  <1>1. Fits(s, [script[s] EXCEPT !.pc = "sayPaused"])
    BY <1>0 DEF At, PlanLeft, ScriptOK, Fits, ScriptState
  <1>2. StoreTypeOK'
    BY SetRunStatusType, MigratorAssumptions DEF MInv, MarkPaused, At, PlanLeft, ActiveStatus
  <1> QED
    BY <1>1, <1>2, ScriptStepInv DEF MarkPaused, Goto

LEMMA AnnouncePauseInv ==
  ASSUME MInv, NEW s \in Scripts, AnnouncePause(s)
  PROVE  MInv'
  <1>0. script[s] \in ScriptState /\ ScriptOK(s) /\ At(s, "sayPaused")
    BY DEF MInv, MigratorTypeOK, ScriptsOK, AnnouncePause
  <1>1. Fits(s, [script[s] EXCEPT !.pc = "paused"])
    BY <1>0 DEF At, PlanLeft, ScriptOK, Fits, ScriptState
  <1>2. StoreTypeOK'
    BY WriteEventType, ItemTyped, MigratorAssumptions DEF MInv, AnnouncePause, At, PlanLeft, EventKinds, RunEvents, TableEvents
  <1> QED
    BY <1>1, <1>2, ScriptStepInv DEF AnnouncePause, Goto

LEMMA MarkRunningInv ==
  ASSUME MInv, NEW s \in Scripts, MarkRunning(s)
  PROVE  MInv'
  <1>0. script[s] \in ScriptState /\ ScriptOK(s) /\ At(s, "markRunning")
    BY DEF MInv, MigratorTypeOK, ScriptsOK, MarkRunning
  <1>1. Fits(s, [script[s] EXCEPT !.pc = "sayResumed"])
    BY <1>0 DEF At, PlanLeft, ScriptOK, Fits, ScriptState
  <1>2. StoreTypeOK'
    BY SetRunStatusType, MigratorAssumptions DEF MInv, MarkRunning, At, PlanLeft, ActiveStatus
  <1> QED
    BY <1>1, <1>2, ScriptStepInv DEF MarkRunning, Goto

LEMMA AnnounceResumeInv ==
  ASSUME MInv, NEW s \in Scripts, AnnounceResume(s)
  PROVE  MInv'
  <1>0. script[s] \in ScriptState /\ ScriptOK(s) /\ At(s, "sayResumed")
    BY DEF MInv, MigratorTypeOK, ScriptsOK, AnnounceResume
  <1>1. Fits(s, [script[s] EXCEPT !.pc = script[s].ret])
    BY <1>0 DEF At, PlanLeft, ScriptOK, Fits, ScriptState
  <1>2. StoreTypeOK'
    BY WriteEventType, ItemTyped, MigratorAssumptions DEF MInv, AnnounceResume, At, PlanLeft, EventKinds, RunEvents, TableEvents
  <1> QED
    BY <1>1, <1>2, ScriptStepInv DEF AnnounceResume, Goto

LEMMA AnnounceCancelInv ==
  ASSUME MInv, NEW s \in Scripts, AnnounceCancel(s)
  PROVE  MInv'
  <1>0. script[s] \in ScriptState /\ ScriptOK(s) /\ At(s, "sayCancelled")
    BY DEF MInv, MigratorTypeOK, ScriptsOK, AnnounceCancel
  <1>1. Fits(s, [script[s] EXCEPT !.pc = "finish", !.outcome = "cancelled"])
    BY <1>0 DEF At, PlanLeft, ScriptOK, Fits, ScriptState
  <1>2. StoreTypeOK'
    BY WriteEventType, ItemTyped, MigratorAssumptions DEF MInv, AnnounceCancel, At, PlanLeft, EventKinds, RunEvents, TableEvents
  <1> QED
    BY <1>1, <1>2, ScriptStepInv DEF AnnounceCancel, Goto

LEMMA FinishRunInv ==
  ASSUME MInv, NEW s \in Scripts, FinishRun(s)
  PROVE  MInv'
  <1>0. script[s] \in ScriptState /\ ScriptOK(s) /\ At(s, "finish")
    BY DEF MInv, MigratorTypeOK, ScriptsOK, FinishRun
  <1>a. RunOf[s] \in Runs /\ script[s].outcome \in TerminalStatus
    BY <1>0, MigratorAssumptions DEF At, ScriptOK, ScriptState
  <1>1. Fits(s, [script[s] EXCEPT !.pc = "sayFinished"])
    BY <1>0 DEF At, PlanLeft, ScriptOK, Fits, ScriptState
  <1>2. StoreTypeOK'
    BY <1>a, EndRunType DEF MInv, FinishRun, At, PlanLeft
  <1> QED
    BY <1>1, <1>2, ScriptStepInv DEF FinishRun, Goto

LEMMA AnnounceFinishInv ==
  ASSUME MInv, NEW s \in Scripts, AnnounceFinish(s)
  PROVE  MInv'
  <1>0. script[s] \in ScriptState /\ ScriptOK(s) /\ At(s, "sayFinished")
    BY DEF MInv, MigratorTypeOK, ScriptsOK, AnnounceFinish
  <1>a. RunOf[s] \in Runs /\ script[s].outcome \in TerminalStatus
    BY <1>0, MigratorAssumptions DEF At, ScriptOK, ScriptState
  <1>1. Fits(s, [script[s] EXCEPT !.pc = "logFinished"])
    BY <1>0 DEF At, PlanLeft, ScriptOK, Fits, ScriptState
  <1>2. StoreTypeOK'
    BY <1>a, WriteEventType DEF MInv, AnnounceFinish, At, PlanLeft, EventKinds, RunEvents
  <1> QED
    BY <1>1, <1>2, ScriptStepInv DEF AnnounceFinish, Goto

LEMMA ExitInv ==
  ASSUME MInv, NEW s \in Scripts, Exit(s)
  PROVE  MInv'
  <1>0. script[s] \in ScriptState /\ ScriptOK(s) /\ At(s, "logFinished")
    BY DEF MInv, MigratorTypeOK, ScriptsOK, Exit
  <1>1. Fits(s, [script[s] EXCEPT !.pc = "exited"])
    BY <1>0 DEF At, PlanLeft, ScriptOK, Fits, ScriptState
  <1>2. StoreTypeOK'
    BY StoreStutterType DEF MInv, Exit
  <1> QED
    BY <1>1, <1>2, ScriptStepInv DEF Exit, Goto

LEMMA FailInv ==
  ASSUME MInv, NEW s \in Scripts, Fail(s)
  PROVE  MInv'
  <1>0. script[s] \in ScriptState /\ ScriptOK(s)
    BY DEF MInv, MigratorTypeOK, ScriptsOK, Fail
  <1>1. Fits(s, [script[s] EXCEPT !.pc = "finish", !.outcome = "failed"])
    BY ZenonT(30), <1>0 DEF At, PlanLeft, ScriptOK, Fits, ScriptState
  <1>2. StoreTypeOK'
    BY StoreStutterType DEF MInv, Fail
  <1> QED
    BY <1>1, <1>2, ScriptStepInv DEF Fail, Goto

LEMMA FailTableInv ==
  ASSUME MInv, NEW s \in Scripts, FailTable(s)
  PROVE  MInv'
  <1>0. script[s] \in ScriptState /\ ScriptOK(s)
    BY DEF MInv, MigratorTypeOK, ScriptsOK, FailTable
  <1> PICK late \in {FALSE, At(s, "load")} :
        script' = [script EXCEPT ![s].pc = "finish", ![s].outcome = "failed",
                                 ![s].late = late]
    BY DEF FailTable
  <1> DEFINE x == [script[s] EXCEPT !.pc = "finish", !.outcome = "failed",
                                    !.late = late]
  <1>a. late \in BOOLEAN /\ PlanLeft(s)
    BY <1>0 DEF At, FailTable, ScriptOK
  <1>b. /\ x \in ScriptState
        /\ x.item = script[s].item /\ x.pc = "finish" /\ x.outcome = "failed"
    BY ZenonT(30), <1>0, <1>a DEF ScriptState
  <1>c. script[s].item >= 1
    BY <1>0 DEF ScriptOK
  <1>1. Fits(s, x)
    <2> HIDE DEF x
    <2> QED
      BY <1>a, <1>b, <1>c DEF PlanLeft, Fits
  <1>2. StoreTypeOK'
    BY SetTableStatusType, ItemTyped DEF MInv, FailTable, At, PlanLeft, TableStatus, Phases
  <1>3. script' = [script EXCEPT ![s] = x]
    BY DEF MInv, MigratorTypeOK
  <1> HIDE DEF x
  <1> QED
    BY <1>1, <1>2, <1>3, ScriptStepInv DEF FailTable

LEMMA LandLateInv ==
  ASSUME MInv, NEW s \in Scripts, LandLate(s)
  PROVE  MInv'
  <1>0. script[s] \in ScriptState /\ ScriptOK(s) /\ PlanLeft(s)
    BY DEF MInv, MigratorTypeOK, ScriptsOK, ScriptOK, LandLate
  <1> DEFINE x == [script[s] EXCEPT !.late = FALSE]
  <1>a. /\ x \in ScriptState /\ ~x.late
        /\ x.item = script[s].item /\ x.pc = script[s].pc
        /\ x.ret = script[s].ret /\ x.outcome = script[s].outcome
    BY ZenonT(30), <1>0 DEF ScriptState
  <1>1. Fits(s, x)
    <2> HIDE DEF x
    <2> QED
      BY <1>0, <1>a DEF PlanLeft, ScriptOK, Fits
  <1>2. StoreTypeOK'
    BY StoreStutterType DEF MInv, LandLate
  <1>3. /\ sourceRows' \in [Tables -> Nat]
        /\ staged' \in [Runs -> [Tables -> Nat]]
        /\ target' \in [TargetTables -> Nat]
        /\ landed' \in [Runs -> [Tables -> Nat]]
    <2>1. staged[RunOf[s]][Item(s).table] \in Nat
      BY <1>0, ItemTyped DEF MInv, MigratorTypeOK
    <2>2. PICK rows \in 0..staged[RunOf[s]][Item(s).table] : Land(s, rows)
      BY DEF LandLate
    <2>3. rows \in Nat
      BY <2>1, <2>2
    <2> QED
      BY <1>0, <2>2, <2>3, ItemTyped DEF LandLate, MInv, MigratorTypeOK, Land
  <1> QED
    BY <1>1, <1>2, <1>3, ScriptMoves DEF LandLate, MInv, MigratorTypeOK

LEMMA KillInv ==
  ASSUME MInv, NEW s \in Scripts, Kill(s)
  PROVE  MInv'
  <1>0. script[s] \in ScriptState /\ ScriptOK(s)
    BY DEF MInv, MigratorTypeOK, ScriptsOK, Kill
  <1>1. Fits(s, [script[s] EXCEPT !.pc = "killed"])
    BY <1>0 DEF At, PlanLeft, ScriptOK, Fits, ScriptState
  <1>2. StoreTypeOK'
    BY StoreStutterType DEF MInv, Kill
  <1> QED
    BY <1>1, <1>2, ScriptStepInv DEF Kill, Goto

LEMMA SourceInsertInv ==
  ASSUME MInv, NEW t \in Tables, SourceInsert(t)
  PROVE  MInv'
  <1>1. StoreTypeOK'
    BY StoreStutterType DEF MInv, SourceInsert
  <1>2. ScriptsOK'
    BY DEF MInv, ScriptsOK, ScriptOK, PlanLeft, SourceInsert
  <1> QED
    BY <1>1, <1>2 DEF MInv, MigratorTypeOK, SourceInsert

-----------------------------------------------------------------------------
(* Scripts and handlers *)

\* The last conjunct of a migrator step and of an API step.
LEMMA ApiStutters ==
  ASSUME ApiTypeOK, UNCHANGED apiVars
  PROVE  ApiTypeOK'
  BY DEF ApiTypeOK, apiVars

-----------------------------------------------------------------------------
(* Types *)

LEMMA MigratorStepTyped ==
  ASSUME MInv, MigratorNext
  PROVE  MInv'
  <1>1. ASSUME NEW t \in Tables, SourceInsert(t) PROVE MInv'
    BY <1>1, SourceInsertInv
  <1>2. ASSUME NEW s \in Scripts, Launch(s) PROVE MInv'
    BY <1>2, CheckNoActiveRunInv, RefuseRunInv DEF Launch
  <1>3. ASSUME NEW s \in Scripts, DirectStep(s) PROVE MInv'
    BY <1>3, BeginDirectInv, OpenCursorInv, FetchBatchInv, CursorEmptyInv,
       InsertBatchInv, RecordInsertedInv DEF DirectStep
  <1>4. ASSUME NEW s \in Scripts, StagedStep(s) PROVE MInv'
    BY <1>4, BeginStagedInv, RejectStrategyInv, EnterUnloadingInv, UnloadInv,
       EnterStagedInv, EnterLoadingInv, CountBaselineInv, LoadStagedInv,
       CountLoadedInv, EnterValidatingInv, CountsMatchInv, CountsDifferInv,
       CleanUpInv, RecordLoadedInv, LeavePhasesInv DEF StagedStep
  <1>5. ASSUME NEW s \in Scripts, ControlStep(s) PROVE MInv'
    BY <1>5, ReadFlagInv, MarkPausedInv, AnnouncePauseInv, PollFlagInv,
       MarkRunningInv, AnnounceResumeInv, AnnounceCancelInv DEF ControlStep
  <1>6. ASSUME NEW s \in Scripts, RunStep(s) PROVE MInv'
    BY <1>6, CreateRunInv, AnnounceStartInv, PreflightInv, RegisterNextInv,
       AllRegisteredInv, CompleteTableInv, AnnounceTableInv, PlanDoneInv,
       FinishRunInv, AnnounceFinishInv, ExitInv DEF RunStep
  <1>7. ASSUME NEW s \in Scripts, Fail(s) \/ FailTable(s) \/ LandLate(s) \/ Kill(s)
        PROVE  MInv'
    BY <1>7, FailInv, FailTableInv, LandLateInv, KillInv
  <1> QED
    BY <1>1, <1>2, <1>3, <1>4, <1>5, <1>6, <1>7 DEF MigratorNext, Proceed

\* A request record is typed, whether or not it is in flight.
LEMMA RespondTyped ==
  ASSUME ApiTypeOK, NEW c \in Callers, Respond(c)
  PROVE  ApiTypeOK'
  BY DEF ApiTypeOK, Respond

LEMMA InFlight ==
  ASSUME ApiTypeOK, NEW c \in Callers, request[c].op # "idle"
  PROVE  /\ request[c] \in Requests
         /\ request[c].run \in Runs
  BY DEF ApiTypeOK, Requests, NoRequest

LEMMA ApiStepTyped ==
  ASSUME StoreTypeOK, ApiTypeOK, ApiNext
  PROVE  StoreTypeOK' /\ ApiTypeOK'
  <1> PICK c \in Callers :
        (\E q \in Requests : Accept(c, q.op, q.run)) \/ Handle(c) \/ Abort(c)
    BY DEF ApiNext
  <1>1. CASE \E q \in Requests : Accept(c, q.op, q.run)
    <2> PICK q \in Requests : Accept(c, q.op, q.run)
      BY <1>1
    <2>1. [op |-> q.op, run |-> q.run] \in Requests
      BY DEF Requests
    <2>2. ApiTypeOK'
      BY <2>1 DEF Accept, ApiTypeOK
    <2> QED
      BY <2>2, StoreStutterType DEF Accept
  <1>2. CASE WriteFlag(c)
    <2>1. request[c].run \in Runs /\ FlagOf[request[c].op] \in Flags
      BY <1>2, InFlight DEF WriteFlag, FlagOps, FlagOf, Flags
    <2> QED
      BY <1>2, <2>1, SetControlFlagType, RespondTyped DEF WriteFlag
  <1>3. CASE Mark(c)
    <2>1. request[c].run \in Runs /\ [kind |-> "step_validated"] \in EventKinds
      BY <1>3, InFlight DEF Mark, EventKinds, RunEvents
    <2> QED
      BY <1>3, <2>1, WriteEventType, RespondTyped DEF Mark
  <1>4. CASE Delete(c)
    BY <1>4, InFlight, DeleteRunType, RespondTyped DEF Delete
  <1>5. CASE Abort(c)
    BY <1>5, StoreStutterType, RespondTyped DEF Abort
  <1> QED
    BY <1>1, <1>2, <1>3, <1>4, <1>5 DEF Handle

TInv == MInv /\ ApiTypeOK

LEMMA InitTyped == Init => TInv
  <1> SUFFICES ASSUME Init PROVE TInv
    OBVIOUS
  <1>1. StoreTypeOK
    BY StoreInitType DEF Init
  <1>2. MigratorTypeOK /\ ScriptsOK
    <2> DEFINE x == [pc |-> "new", item |-> 1, ret |-> "none", left |-> 0,
                     batch |-> 0, n |-> 0, base |-> 0, loaded |-> 0,
                     outcome |-> "none", late |-> FALSE]
    <2>1. x \in ScriptState
      BY DEF ScriptState, StoppedPcs, ReturnPcs
    <2>2. x.pc \notin ItemPcs /\ x.pc \notin ControlPcs /\ x.pc \notin EndPcs
      BY DEF ItemPcs, RunPcs, TablePcs, ControlPcs, DirectPcs, StagedPcs, EndPcs
    <2>3. script = [s \in Scripts |-> x] /\ x.item = 1 /\ ~x.late
      BY DEF Init, MigratorInit
    <2> HIDE DEF x
    <2>4. script \in [Scripts -> ScriptState]
      BY <2>1, <2>3
    <2>5. ScriptsOK
      BY <2>2, <2>3 DEF ScriptsOK, ScriptOK
    <2> QED
      BY <2>4, <2>5, MigratorAssumptions DEF Init, MigratorInit, MigratorTypeOK
  <1>3. ApiTypeOK
    BY DEF Init, ApiInit, ApiTypeOK
  <1> QED
    BY <1>1, <1>2, <1>3 DEF TInv, MInv

LEMMA NextTyped == TInv /\ [Next]_vars => TInv'
  <1> SUFFICES ASSUME TInv, [Next]_vars PROVE TInv'
    OBVIOUS
  <1>1. CASE MigratorNext /\ UNCHANGED apiVars
    BY <1>1, MigratorStepTyped, ApiStutters DEF TInv
  <1>2. CASE ApiNext /\ UNCHANGED migratorVars
    <2>1. StoreTypeOK' /\ ApiTypeOK'
      BY <1>2, ApiStepTyped DEF TInv, MInv
    <2>2. MigratorTypeOK' /\ ScriptsOK'
      BY <1>2 DEF TInv, MInv, MigratorTypeOK, ScriptsOK, ScriptOK, PlanLeft,
                  migratorVars, dataVars
    <2> QED
      BY <2>1, <2>2 DEF TInv, MInv
  <1>3. CASE UNCHANGED vars
    <2>1. StoreTypeOK' /\ ApiTypeOK'
      BY <1>3, StoreStutterType, ApiStutters DEF vars, TInv, MInv
    <2>2. MigratorTypeOK' /\ ScriptsOK'
      BY <1>3 DEF TInv, MInv, MigratorTypeOK, ScriptsOK, ScriptOK, PlanLeft,
                  vars, migratorVars, dataVars
    <2> QED
      BY <2>1, <2>2 DEF TInv, MInv
  <1> QED
    BY <1>1, <1>2, <1>3 DEF Next

\* Type correctness: every table of the database and every local variable of
\* a script keeps its type, whatever fails and whoever calls.
THEOREM TypeCorrect == Spec => []TypeOK
  <1>1. TInv => TypeOK
    BY DEF TInv, MInv, TypeOK
  <1> QED
    BY <1>1, InitTyped, NextTyped, PTL DEF Spec

-----------------------------------------------------------------------------
(* The rows of the tables agree *)

LEMMA DirectAgrees ==
  ASSUME MInv, RowsAgree, NEW s \in Scripts, DirectStep(s)
  PROVE  RowsAgree'
  <1>1. CASE BeginDirect(s)
    BY <1>1, ItemTyped, SetTableStatusAgrees DEF BeginDirect, MInv, TableStatus
  <1>2. CASE OpenCursor(s) \/ FetchBatch(s) \/ CursorEmpty(s) \/ InsertBatch(s)
    BY <1>2, StoreStutterAgrees DEF OpenCursor, FetchBatch, CursorEmpty, InsertBatch
  <1>3. CASE RecordInserted(s)
    <2>1. script[s].pc \in ItemPcs
      BY <1>3 DEF RecordInserted, At, ItemPcs, RunPcs, DirectPcs
    <2>2. script[s].n \in Nat /\ script[s].batch \in Nat
      BY DEF MInv, MigratorTypeOK, ScriptState
    <2> QED
      BY <1>3, <2>1, <2>2, ItemTyped, RecordBatchAgrees DEF RecordInserted, MInv
  <1> QED
    BY <1>1, <1>2, <1>3 DEF DirectStep

LEMMA StagedAgrees ==
  ASSUME MInv, RowsAgree, NEW s \in Scripts, StagedStep(s)
  PROVE  RowsAgree'
  <1>1. CASE BeginStaged(s)
    BY <1>1, ItemTyped, SetTableStatusAgrees DEF BeginStaged, MInv, TableStatus
  <1>2. CASE RejectStrategy(s) \/ Unload(s) \/ CountBaseline(s) \/ LoadStaged(s)
             \/ CountLoaded(s) \/ CountsMatch(s) \/ CleanUp(s)
    BY <1>2, StoreStutterAgrees DEF RejectStrategy, Unload, CountBaseline,
       LoadStaged, CountLoaded, CountsMatch, CleanUp
  <1>3. CASE \/ EnterUnloading(s) \/ EnterStaged(s) \/ EnterLoading(s)
             \/ EnterValidating(s) \/ LeavePhases(s)
    <2>1. script[s].pc \in ItemPcs
      BY <1>3 DEF EnterUnloading, EnterStaged, EnterLoading, EnterValidating,
         LeavePhases, EnterPhase, At, ItemPcs, RunPcs, StagedPcs
    <2>2. \E ph \in Phases : SetTablePhase(RunOf[s], Item(s).table, ph)
      BY <1>3 DEF EnterUnloading, EnterStaged, EnterLoading, EnterValidating,
         LeavePhases, EnterPhase, Phases
    <2> QED
      BY <2>1, <2>2, ItemTyped, SetTablePhaseAgrees DEF MInv
  <1>4. CASE CountsDiffer(s)
    <2>1. script[s].pc \in ItemPcs
      BY <1>4 DEF CountsDiffer, At, ItemPcs, RunPcs, StagedPcs
    <2> QED
      BY <1>4, <2>1, ItemTyped, SetTableStatusAgrees
      DEF CountsDiffer, MInv, TableStatus
  <1>5. CASE RecordLoaded(s)
    <2>1. script[s].pc \in ItemPcs
      BY <1>5 DEF RecordLoaded, At, ItemPcs, RunPcs, StagedPcs
    <2>2. script[s].loaded \in Nat
      BY DEF MInv, MigratorTypeOK, ScriptState
    <2> QED
      BY <1>5, <2>1, <2>2, ItemTyped, RecordStagedLoadAgrees DEF RecordLoaded, MInv
  <1> QED
    BY <1>1, <1>2, <1>3, <1>4, <1>5 DEF StagedStep

\* The events a script writes about its run are lifecycle events.
LEMMA RunEventTyped ==
  ASSUME NEW k \in RunEvents
  PROVE  [kind |-> k] \in EventKinds
  BY DEF EventKinds

LEMMA ControlAgrees ==
  ASSUME MInv, RowsAgree, NEW s \in Scripts, ControlStep(s)
  PROVE  RowsAgree'
  <1>0. RunOf[s] \in Runs
    BY MigratorAssumptions
  <1>1. CASE ReadFlag(s) \/ PollFlag(s)
    BY <1>1, StoreStutterAgrees DEF ReadFlag, PollFlag
  <1>2. CASE MarkPaused(s) \/ MarkRunning(s)
    BY <1>0, <1>2, SetRunStatusAgrees
    DEF MarkPaused, MarkRunning, MInv, ActiveStatus
  <1>3. CASE AnnouncePause(s) \/ AnnounceResume(s) \/ AnnounceCancel(s)
    <2>1. \E k \in RunEvents : WriteEvent(RunOf[s], [kind |-> k])
      BY <1>3 DEF AnnouncePause, AnnounceResume, AnnounceCancel, RunEvents
    <2> QED
      BY <1>0, <2>1, RunEventTyped, WriteEventAgrees DEF MInv
  <1> QED
    BY <1>1, <1>2, <1>3 DEF ControlStep

LEMMA RunAgrees ==
  ASSUME MInv, RowsAgree, NEW s \in Scripts, RunStep(s)
  PROVE  RowsAgree'
  <1>0. RunOf[s] \in Runs
    BY MigratorAssumptions
  <1>1. CASE CreateRun(s)
    BY <1>0, <1>1, InsertRunAgrees DEF CreateRun, MInv
  <1>2. CASE Preflight(s) \/ AllRegistered(s) \/ PlanDone(s) \/ Exit(s)
    BY <1>2, StoreStutterAgrees DEF Preflight, AllRegistered, PlanDone, Exit
  <1>3. CASE RegisterNext(s)
    <2>1. /\ Item(s).table \in Tables
          /\ sourceRows[Item(s).table] \in Nat
      BY <1>3, ItemTyped DEF RegisterNext, MInv, MigratorTypeOK
    <2> QED
      BY <1>0, <1>3, <2>1, RegisterTableAgrees DEF RegisterNext, MInv
  <1>4. CASE CompleteTable(s)
    <2>1. script[s].pc \in ItemPcs
      BY <1>4 DEF CompleteTable, At, ItemPcs, RunPcs, TablePcs
    <2> QED
      BY <1>4, <2>1, ItemTyped, SetTableStatusAgrees
      DEF CompleteTable, MInv, TableStatus
  <1>5. CASE AnnounceStart(s) \/ AnnounceFinish(s)
    <2>1. script[s].pc \in EndPcs => script[s].outcome \in TerminalStatus
      BY DEF MInv, ScriptsOK, ScriptOK, MigratorTypeOK, ScriptState
    <2>2. \E k \in RunEvents : WriteEvent(RunOf[s], [kind |-> k])
      BY <1>5, <2>1 DEF AnnounceStart, AnnounceFinish, At, EndPcs, RunEvents,
         TerminalStatus
    <2> QED
      BY <1>0, <2>2, RunEventTyped, WriteEventAgrees DEF MInv
  <1>6. CASE AnnounceTable(s)
    <2>1. script[s].pc \in ItemPcs
      BY <1>6 DEF AnnounceTable, At, ItemPcs, RunPcs, TablePcs
    <2>2. [kind |-> "table_done", table |-> Item(s).table] \in EventKinds
      BY <2>1, ItemTyped DEF EventKinds, TableEvents
    <2> QED
      BY <1>0, <1>6, <2>2, WriteEventAgrees DEF AnnounceTable, MInv
  <1>7. CASE FinishRun(s)
    <2>1. script[s].outcome \in TerminalStatus
      BY <1>7 DEF FinishRun, At, EndPcs, MInv, ScriptsOK, ScriptOK,
         MigratorTypeOK, ScriptState
    <2> QED
      BY <1>0, <1>7, <2>1, EndRunAgrees DEF FinishRun, MInv
  <1> QED
    BY <1>1, <1>2, <1>3, <1>4, <1>5, <1>6, <1>7 DEF RunStep

LEMMA MigratorStepAgrees ==
  ASSUME MInv, RowsAgree, MigratorNext
  PROVE  RowsAgree'
  <1>1. ASSUME NEW t \in Tables, SourceInsert(t) PROVE RowsAgree'
    BY <1>1, StoreStutterAgrees DEF SourceInsert
  <1>2. ASSUME NEW s \in Scripts, Launch(s) \/ Fail(s) \/ LandLate(s) \/ Kill(s)
        PROVE  RowsAgree'
    BY <1>2, StoreStutterAgrees
    DEF Launch, CheckNoActiveRun, RefuseRun, Fail, LandLate, Kill
  <1>3. ASSUME NEW s \in Scripts, FailTable(s) PROVE RowsAgree'
    <2>1. script[s].pc \in ItemPcs
      BY <1>3 DEF FailTable, ItemPcs, RunPcs, StagedPcs
    <2> QED
      BY <1>3, <2>1, ItemTyped, SetTableStatusAgrees
      DEF FailTable, MInv, TableStatus
  <1> QED
    BY <1>1, <1>2, <1>3, DirectAgrees, StagedAgrees, ControlAgrees, RunAgrees
    DEF MigratorNext, Proceed

LEMMA ApiStepAgrees ==
  ASSUME StoreTypeOK, ApiTypeOK, RowsAgree, ApiNext
  PROVE  RowsAgree'
  <1> PICK c \in Callers :
        (\E q \in Requests : Accept(c, q.op, q.run)) \/ Handle(c) \/ Abort(c)
    BY DEF ApiNext
  <1>1. CASE (\E q \in Requests : Accept(c, q.op, q.run)) \/ Abort(c)
    BY <1>1, StoreStutterAgrees DEF Accept, Abort
  <1>2. CASE WriteFlag(c)
    <2>1. request[c].run \in Runs /\ FlagOf[request[c].op] \in Flags
      BY <1>2, InFlight DEF WriteFlag, FlagOps, FlagOf, Flags
    <2> QED
      BY <1>2, <2>1, SetControlFlagAgrees DEF WriteFlag
  <1>3. CASE Mark(c)
    <2>1. request[c].run \in Runs /\ [kind |-> "step_validated"] \in EventKinds
      BY <1>3, InFlight DEF Mark, EventKinds, RunEvents
    <2> QED
      BY <1>3, <2>1, WriteEventAgrees DEF Mark
  <1>4. CASE Delete(c)
    BY <1>4, InFlight, DeleteRunAgrees DEF Delete
  <1> QED
    BY <1>1, <1>2, <1>3, <1>4 DEF Handle

RInv == TInv /\ RowsAgree

LEMMA InitRInv == Init => RInv
  BY InitTyped, StoreInitAgrees DEF Init, RInv

LEMMA NextRInv == RInv /\ [Next]_vars => RInv'
  <1> SUFFICES ASSUME RInv, [Next]_vars PROVE RowsAgree'
    BY NextTyped DEF RInv
  <1> USE DEF RInv, TInv
  <1>1. CASE MigratorNext /\ UNCHANGED apiVars
    BY <1>1, MigratorStepAgrees
  <1>2. CASE ApiNext /\ UNCHANGED migratorVars
    BY <1>2, ApiStepAgrees DEF MInv
  <1>3. CASE UNCHANGED vars
    BY <1>3, StoreStutterAgrees DEF vars
  <1> QED
    BY <1>1, <1>2, <1>3 DEF Next

\* The foreign keys and ended_at: no interleaving of scripts, requests,
\* failures and kills leaves rows of different tables in disagreement.
THEOREM RowsCorrect == Spec => []RowsAgree
  <1>1. RInv => RowsAgree
    BY DEF RInv
  <1> QED
    BY <1>1, InitRInv, NextRInv, PTL DEF Spec

-----------------------------------------------------------------------------
(* The status of a run *)


\* The moves of a script, from local state x to y, that leave the status of its
\* run alone.
Quiet(x, y) ==
  \/ x.pc \in WorkingPcs /\ y.pc \in WorkingPcs \cup {"sayCancelled"}
  \/ x.pc \in WorkingPcs /\ y.pc = "finish" /\ y.outcome = "done"
  \/ x.pc \in PausedPcs /\ y.pc \in PausedPcs \cup {"sayCancelled"}
  \/ x.pc = "sayCancelled" /\ y.pc = "finish" /\ y.outcome = "cancelled"
  \/ /\ \/ x.pc \in RunPcs
        \/ x.pc \in EndPcs /\ x.outcome = "done"
     /\ y.pc = "finish" /\ y.outcome = "failed"
  \/ x.pc = "sayFinished" /\ y.pc = "logFinished" /\ y.outcome = x.outcome
  \/ x.pc = "logFinished" /\ y.pc = "exited" /\ y.outcome = x.outcome
  \/ x.pc \in LivePcs /\ y.pc = "killed"
  \/ /\ x.pc \in EndPcs \cup {"exited", "killed"}
     /\ y.pc = x.pc /\ y.outcome = x.outcome

OthersKeep(s) == \A o \in Scripts : o # s => script'[o] = script[o]

MovesQuietly(s) ==
  OthersKeep(s) /\ UNCHANGED runs /\ Quiet(script[s], script'[s])

USE DEF LivePcs, StoppedPcs, ConstructPcs, RunPcs, EndPcs, ControlPcs, DirectPcs,
        StagedPcs, TablePcs, PausedPcs, WorkingPcs

LEMMA DirectMoves ==
  ASSUME MInv, NEW s \in Scripts, DirectStep(s)
  PROVE  MovesQuietly(s)
  <1> USE DEF MovesQuietly, Quiet, OthersKeep, At, Goto, storeVars
  <1>0. script \in [Scripts -> ScriptState] /\ script[s] \in ScriptState
    BY DEF MInv, MigratorTypeOK
  <1>1. CASE BeginDirect(s)
    BY <1>0, <1>1 DEF BeginDirect, SetTableStatus, ScriptState
  <1>2. CASE OpenCursor(s)
    BY <1>0, <1>2 DEF OpenCursor, ScriptState
  <1>3. CASE FetchBatch(s)
    BY <1>0, <1>3 DEF FetchBatch, ScriptState
  <1>4. CASE CursorEmpty(s)
    BY <1>0, <1>4 DEF CursorEmpty, ScriptState
  <1>5. CASE InsertBatch(s)
    BY <1>0, <1>5 DEF InsertBatch, ScriptState
  <1>6. CASE RecordInserted(s)
    BY <1>0, <1>6 DEF RecordInserted, RecordBatch, ScriptState
  <1> QED
    BY <1>1, <1>2, <1>3, <1>4, <1>5, <1>6 DEF DirectStep

LEMMA StagedMoves ==
  ASSUME MInv, NEW s \in Scripts, StagedStep(s)
  PROVE  MovesQuietly(s)
  <1> USE DEF MovesQuietly, Quiet, OthersKeep, At, Goto, storeVars
  <1>0. script \in [Scripts -> ScriptState] /\ script[s] \in ScriptState
    BY DEF MInv, MigratorTypeOK
  <1>1. CASE BeginStaged(s)
    BY <1>0, <1>1 DEF BeginStaged, SetTableStatus, ScriptState
  <1>2. CASE RejectStrategy(s)
    BY <1>0, <1>2 DEF RejectStrategy, ScriptState
  <1>3. CASE EnterUnloading(s)
    BY <1>0, <1>3 DEF EnterUnloading, EnterPhase, SetTablePhase, ScriptState
  <1>4. CASE Unload(s)
    BY <1>0, <1>4 DEF Unload, ScriptState
  <1>5. CASE EnterStaged(s)
    BY <1>0, <1>5 DEF EnterStaged, EnterPhase, SetTablePhase, ScriptState
  <1>6. CASE EnterLoading(s)
    BY <1>0, <1>6 DEF EnterLoading, EnterPhase, SetTablePhase, ScriptState
  <1>7. CASE CountBaseline(s)
    BY <1>0, <1>7 DEF CountBaseline, ScriptState
  <1>8. CASE LoadStaged(s)
    BY <1>0, <1>8 DEF LoadStaged, ScriptState
  <1>9. CASE CountLoaded(s)
    BY <1>0, <1>9 DEF CountLoaded, ScriptState
  <1>10. CASE EnterValidating(s)
    BY <1>0, <1>10 DEF EnterValidating, EnterPhase, SetTablePhase, ScriptState
  <1>11. CASE CountsMatch(s)
    BY <1>0, <1>11 DEF CountsMatch, ScriptState
  <1>12. CASE CountsDiffer(s)
    BY <1>0, <1>12 DEF CountsDiffer, SetTableStatus, ScriptState
  <1>13. CASE CleanUp(s)
    BY <1>0, <1>13 DEF CleanUp, ScriptState
  <1>14. CASE RecordLoaded(s)
    BY <1>0, <1>14 DEF RecordLoaded, RecordStagedLoad, ScriptState
  <1>15. CASE LeavePhases(s)
    BY <1>0, <1>15 DEF LeavePhases, SetTablePhase, ScriptState
  <1> QED
    BY Zenon, <1>1, <1>2, <1>3, <1>4, <1>5, <1>6, <1>7, <1>8,
       <1>9, <1>10, <1>11, <1>12, <1>13, <1>14, <1>15 DEF StagedStep

LEMMA ControlMoves ==
  ASSUME MInv, NEW s \in Scripts, ControlStep(s), ~MarkPaused(s), ~MarkRunning(s)
  PROVE  MovesQuietly(s)
  <1> USE DEF MovesQuietly, Quiet, OthersKeep, At, Goto, storeVars
  <1>0. script \in [Scripts -> ScriptState] /\ script[s] \in ScriptState
    BY DEF MInv, MigratorTypeOK
  <1>00. script[s].pc \in ControlPcs => script[s].ret \in ReturnPcs \ {"none"}
    BY <1>0 DEF MInv, ScriptsOK, ScriptOK, ScriptState
  <1>1. CASE ReadFlag(s)
    BY <1>0, <1>00, <1>1 DEF ReadFlag, ReturnPcs, ScriptState
  <1>2. CASE AnnouncePause(s)
    BY <1>0, <1>2 DEF AnnouncePause, WriteEvent, ScriptState
  <1>3. CASE PollFlag(s)
    BY <1>0, <1>3 DEF PollFlag, ScriptState
  <1>4. CASE AnnounceResume(s)
    BY <1>0, <1>00, <1>4 DEF AnnounceResume, WriteEvent, ReturnPcs, ScriptState
  <1>5. CASE AnnounceCancel(s)
    BY <1>0, <1>5 DEF AnnounceCancel, WriteEvent, ScriptState
  <1> QED
    BY <1>1, <1>2, <1>3, <1>4, <1>5 DEF ControlStep

LEMMA RunMoves ==
  ASSUME MInv, NEW s \in Scripts, RunStep(s), ~CreateRun(s), ~FinishRun(s)
  PROVE  MovesQuietly(s)
  <1> USE DEF MovesQuietly, Quiet, OthersKeep, At, Goto, storeVars
  <1>0. script \in [Scripts -> ScriptState] /\ script[s] \in ScriptState
    BY DEF MInv, MigratorTypeOK
  <1>1. CASE AnnounceStart(s)
    BY <1>0, <1>1 DEF AnnounceStart, WriteEvent, ScriptState
  <1>2. CASE Preflight(s)
    BY <1>0, <1>2 DEF Preflight, ScriptState
  <1>3. CASE RegisterNext(s)
    BY <1>0, <1>3 DEF RegisterNext, RegisterTable, ScriptState
  <1>4. CASE AllRegistered(s)
    BY <1>0, <1>4 DEF AllRegistered, ScriptState
  <1>5. CASE CompleteTable(s)
    BY <1>0, <1>5 DEF CompleteTable, SetTableStatus, ScriptState
  <1>6. CASE AnnounceTable(s)
    BY <1>0, <1>6 DEF AnnounceTable, WriteEvent, ScriptState
  <1>7. CASE PlanDone(s)
    BY <1>0, <1>7 DEF PlanDone, ScriptState
  <1>8. CASE AnnounceFinish(s)
    BY <1>0, <1>8 DEF AnnounceFinish, WriteEvent, ScriptState
  <1>9. CASE Exit(s)
    BY <1>0, <1>9 DEF Exit, ScriptState
  <1> QED
    BY <1>1, <1>2, <1>3, <1>4, <1>5, <1>6, <1>7, <1>8, <1>9 DEF RunStep

\* Failures, kills and what a load leaves behind.
LEMMA StopMoves ==
  ASSUME MInv, NEW s \in Scripts, Fail(s) \/ FailTable(s) \/ LandLate(s) \/ Kill(s)
  PROVE  MovesQuietly(s)
  <1> USE DEF MovesQuietly, Quiet, OthersKeep, At, Goto, storeVars
  <1>0. script \in [Scripts -> ScriptState] /\ script[s] \in ScriptState
    BY DEF MInv, MigratorTypeOK
  <1>1. CASE Fail(s)
    BY <1>0, <1>1 DEF Fail, ScriptState
  <1>2. CASE FailTable(s)
    BY <1>0, <1>2 DEF FailTable, SetTableStatus, ScriptState
  <1>3. CASE Kill(s)
    BY <1>0, <1>3 DEF Kill, ScriptState
  <1>4. CASE LandLate(s)
    BY <1>0, <1>4 DEF LandLate, MInv, ScriptsOK, ScriptOK, ScriptState
  <1> QED
    BY <1>1, <1>2, <1>3, <1>4

\* Every step of the migrator: the source grows, a script is launched or moves
\* quietly, or one of the four transactions on the table runs is made.
LEMMA Moves ==
  ASSUME MInv, MigratorNext
  PROVE  \/ UNCHANGED <<runs, script>>
         \/ \E s \in Scripts :
              \/ Launch(s) \/ MovesQuietly(s)
              \/ CreateRun(s) \/ FinishRun(s) \/ MarkPaused(s) \/ MarkRunning(s)
  <1>1. ASSUME NEW t \in Tables, SourceInsert(t) PROVE UNCHANGED <<runs, script>>
    BY <1>1 DEF SourceInsert, storeVars
  <1> QED
    BY <1>1, DirectMoves, StagedMoves, ControlMoves, RunMoves, StopMoves
    DEF MigratorNext, Proceed

-----------------------------------------------------------------------------
(* One active run *)

OInv == RInv /\ OneActiveRun /\ AloneWhileInserting

\* Fewer active runs and no script newly before its insert cannot hurt.
LEMMA Shrinks ==
  ASSUME OneActiveRun, AloneWhileInserting,
         ActiveRuns' \subseteq ActiveRuns,
         \A o \in Scripts : At(o, "insert")' => At(o, "insert")
  PROVE  OneActiveRun' /\ AloneWhileInserting'
  BY DEF OneActiveRun, AloneWhileInserting

\* The one insert of a run: nothing else is active when it commits.
LEMMA CreateRunAlone ==
  ASSUME OInv, NEW s \in Scripts, CreateRun(s)
  PROVE  OneActiveRun' /\ AloneWhileInserting'
  <1> USE DEF OInv, RInv, TInv, MInv
  <1>1. At(s, "insert") /\ ActiveRuns \subseteq {RunOf[s]}
    BY DEF CreateRun, AloneWhileInserting
  <1>2. ActiveRuns' \subseteq {RunOf[s]}
    BY <1>1, MigratorAssumptions
    DEF CreateRun, InsertRun, ActiveRuns, IsActive, StoreTypeOK
  <1>3. \A o \in Scripts : ~At(o, "insert")'
    BY <1>1 DEF CreateRun, Goto, At, AloneWhileInserting, MigratorTypeOK, ScriptState
  <1> QED
    BY <1>2, <1>3 DEF OneActiveRun, AloneWhileInserting

\* The check: with no other construction under way, what it saw still holds
\* when the insert comes.
LEMMA LaunchAlone ==
  ASSUME SerialDispatch, OInv, NEW s \in Scripts, Launch(s)
  PROVE  OneActiveRun' /\ AloneWhileInserting'
  <1> USE DEF OInv, RInv, TInv, MInv
  <1>1. ActiveRuns' = ActiveRuns
    BY DEF Launch, CheckNoActiveRun, RefuseRun, storeVars, ActiveRuns, IsActive
  <1>2. CASE CheckNoActiveRun(s)
    <2>1. ActiveRuns \subseteq {RunOf[s]}
      BY <1>2 DEF CheckNoActiveRun, OneActiveRun
    <2>2. \A o \in Scripts : At(o, "insert")' => o = s
      BY <1>2 DEF CheckNoActiveRun, Goto, At, MigratorTypeOK, ScriptState
    <2> QED
      BY <1>1, <2>1, <2>2 DEF OneActiveRun, AloneWhileInserting
  <1>3. CASE RefuseRun(s)
    <2>1. \A o \in Scripts : At(o, "insert")' => At(o, "insert")
      BY <1>3 DEF RefuseRun, Goto, At, MigratorTypeOK, ScriptState
    <2> QED
      BY <1>1, <2>1, Shrinks
  <1> QED
    BY <1>2, <1>3 DEF Launch

\* finish_run and set_run_status activate nothing: the first writes a terminal
\* status, the second asks for ended_at IS NULL, which only active runs have.
LEMMA StatusWritesShrink ==
  ASSUME OInv, NEW s \in Scripts, FinishRun(s) \/ MarkPaused(s) \/ MarkRunning(s)
  PROVE  OneActiveRun' /\ AloneWhileInserting'
  <1> USE DEF OInv, RInv, TInv, MInv
  <1>1. \A o \in Scripts : At(o, "insert")' => At(o, "insert")
    BY DEF FinishRun, MarkPaused, MarkRunning, Goto, At, MigratorTypeOK, ScriptState
  <1>2. CASE FinishRun(s)
    <2>1. script[s].outcome \notin ActiveStatus
      BY <1>2 DEF FinishRun, At, ScriptsOK, ScriptOK, MigratorTypeOK, ScriptState,
                  TerminalStatus, ActiveStatus
    <2>2. ActiveRuns' \subseteq ActiveRuns
      BY <1>2, <2>1, MigratorAssumptions
      DEF FinishRun, EndRun, ActiveRuns, IsActive, StoreTypeOK
    <2> QED
      BY <1>1, <2>2, Shrinks
  <1>3. CASE MarkPaused(s) \/ MarkRunning(s)
    <2>1. \A r \in Runs : RunExists(r) /\ ~runs[r].ended => IsActive(r)
      BY DEF RowsAgree, RunExists, IsActive, IsTerminal, StoreTypeOK, RunRow
    <2>2. \A r \in Runs : r # RunOf[s] => runs'[r] = runs[r]
      BY <1>3, MigratorAssumptions DEF MarkPaused, MarkRunning, SetRunStatus, StoreTypeOK
    <2>3. runs'[RunOf[s]] = runs[RunOf[s]] \/ IsActive(RunOf[s])
      BY <1>3, <2>1, MigratorAssumptions DEF MarkPaused, MarkRunning, SetRunStatus
    <2>4. ActiveRuns' \subseteq ActiveRuns
      BY <2>2, <2>3, MigratorAssumptions DEF ActiveRuns, IsActive
    <2> QED
      BY <1>1, <2>4, Shrinks
  <1> QED
    BY <1>2, <1>3

LEMMA QuietShrinks ==
  ASSUME OInv, NEW s \in Scripts, MovesQuietly(s)
  PROVE  OneActiveRun' /\ AloneWhileInserting'
  <1>1. \A o \in Scripts : At(o, "insert")' => At(o, "insert")
    BY DEF MovesQuietly, OthersKeep, Quiet, At
  <1>2. ActiveRuns' = ActiveRuns
    BY DEF MovesQuietly, ActiveRuns, IsActive
  <1> QED
    BY <1>1, <1>2, Shrinks DEF OInv

LEMMA ApiShrinks ==
  ASSUME OInv, ApiNext, UNCHANGED migratorVars
  PROVE  OneActiveRun' /\ AloneWhileInserting'
  <1>1. \A o \in Scripts : At(o, "insert")' => At(o, "insert")
    BY DEF migratorVars, At
  <1>2. ASSUME NEW r \in Runs, DeleteRun(r) PROVE ActiveRuns' \subseteq ActiveRuns
    <2>1. /\ runs'[r].status = "absent"
          /\ \A o \in Runs : o # r => runs'[o] = runs[o]
      BY <1>2 DEF DeleteRun, NoRun, OInv, RInv, TInv, MInv, StoreTypeOK
    <2> QED
      BY <2>1 DEF ActiveRuns, IsActive, ActiveStatus
  <1>3. UNCHANGED runs \/ \E r \in Runs : DeleteRun(r)
    BY InFlight DEF ApiNext, Accept, Handle, WriteFlag, Mark, Delete, Abort,
       SetControlFlag, WriteEvent, storeVars, OInv, RInv, TInv
  <1>4. UNCHANGED runs => ActiveRuns' = ActiveRuns
    BY DEF ActiveRuns, IsActive
  <1> QED
    BY <1>1, <1>2, <1>3, <1>4, Shrinks DEF OInv

LEMMA InitOInv == Init => OInv
  <1> SUFFICES ASSUME Init PROVE OneActiveRun /\ AloneWhileInserting
    BY InitRInv DEF OInv
  <1>1. ActiveRuns = {}
    BY DEF Init, StoreInit, NoRun, ActiveRuns, IsActive, ActiveStatus
  <1>2. \A o \in Scripts : ~At(o, "insert")
    BY DEF Init, MigratorInit, At
  <1> QED
    BY <1>1, <1>2 DEF OneActiveRun, AloneWhileInserting

LEMMA NextOInv == SerialDispatch /\ OInv /\ [Next]_vars => OInv'
  <1> SUFFICES ASSUME SerialDispatch, OInv, [Next]_vars
               PROVE  OneActiveRun' /\ AloneWhileInserting'
    BY NextRInv DEF OInv
  <1>1. CASE UNCHANGED <<runs, script>>
    BY <1>1, Shrinks DEF OInv, ActiveRuns, IsActive, At
  <1>2. CASE MigratorNext
    <2>1. MInv
      BY DEF OInv, RInv, TInv
    <2> QED
      BY <1>1, <1>2, <2>1, Moves, CreateRunAlone, LaunchAlone,
         StatusWritesShrink, QuietShrinks
  <1>3. CASE ApiNext /\ UNCHANGED migratorVars
    BY <1>3, ApiShrinks
  <1>4. CASE UNCHANGED vars
    BY <1>1, <1>4 DEF vars, storeVars, migratorVars
  <1> QED
    BY <1>2, <1>3, <1>4 DEF Next

\* create_run's promise, "refuses if another run is active", for any number of
\* scripts and requests: it holds as long as no two scripts are between the
\* SELECT and the INSERT of create_run at once.
THEOREM OneActiveRunHolds ==
  ASSUME SerialDispatch
  PROVE  Spec => []OneActiveRun
  <1>1. OInv => OneActiveRun
    BY DEF OInv
  <1>2. OInv /\ [Next]_vars => OInv'
    BY NextOInv
  <1> QED
    BY <1>1, <1>2, InitOInv, PTL DEF Spec

-----------------------------------------------------------------------------
(* The status follows the script *)

LInv == OInv /\ StatusFollowsScript /\ DeletesAreSafe

Status(r) == runs[r].status

\* What a step that moves script s, and no status but that of its run, has to
\* show.
LEMMA OthersFollow ==
  ASSUME FreshIds, StatusFollowsScript, NEW s \in Scripts, OthersKeep(s),
         \A r \in Runs : r # RunOf[s] => Status(r)' = Status(r),
         StatusFits(script'[s], Status(RunOf[s])')
  PROVE  StatusFollowsScript'
  <1> SUFFICES ASSUME NEW o \in Scripts
               PROVE  StatusFits(script'[o], Status(RunOf[o])')
    BY DEF StatusFollowsScript, Status
  <1>1. CASE o = s
    BY <1>1
  <1>2. CASE o # s
    <2>1. RunOf[o] \in Runs /\ RunOf[o] # RunOf[s]
      BY <1>2, MigratorAssumptions DEF FreshIds
    <2> QED
      BY <1>2, <2>1 DEF OthersKeep, StatusFollowsScript, Status
  <1> QED
    BY <1>1, <1>2

\* Requests in flight stay safe as long as no script gets back to where its run
\* does not exist, and no ended run becomes active.
LEMMA SafeStays ==
  ASSUME TInv, DeletesAreSafe, UNCHANGED apiVars,
         \A s \in Scripts : script'[s].pc \in {"new", "refused", "insert"}
                              => script[s].pc \in {"new", "refused", "insert"},
         \A r \in Runs : runs'[r].status \in ActiveStatus =>
              \/ runs[r].status \in ActiveStatus
              \/ \E s \in Scripts : RunOf[s] = r /\ script[s].pc = "insert"
  PROVE  DeletesAreSafe'
  <1>1. \A c \in Callers : request[c] # NoRequest => request[c].run \in Runs
    BY DEF TInv, ApiTypeOK, Requests
  <1> QED
    BY <1>1 DEF DeletesAreSafe, apiVars, IsActive

-----------------------------------------------------------------------------
(* Steps of a script *)

LEMMA QuietFollows ==
  ASSUME FreshIds, LInv, NEW s \in Scripts, MovesQuietly(s), UNCHANGED apiVars
  PROVE  StatusFollowsScript' /\ DeletesAreSafe'
  <1>1. StatusFits(script[s], Status(RunOf[s]))
    BY DEF LInv, StatusFollowsScript, Status
  <1>2. Quiet(script[s], script'[s]) /\ OthersKeep(s) /\ UNCHANGED runs
    BY DEF MovesQuietly
  <1>3. StatusFits(script'[s], Status(RunOf[s]))
    BY <1>1, <1>2 DEF Quiet, StatusFits, ActiveStatus
  <1>4. StatusFollowsScript'
    BY <1>2, <1>3, OthersFollow DEF LInv, Status
  <1>5. script'[s].pc \notin {"new", "refused", "insert"}
    BY <1>2 DEF Quiet
  <1>6. \A o \in Scripts : script'[o].pc \in {"new", "refused", "insert"}
                             => script[o].pc \in {"new", "refused", "insert"}
    BY <1>2, <1>5 DEF OthersKeep
  <1>7. DeletesAreSafe'
    BY <1>2, <1>6, SafeStays DEF LInv, OInv, RInv
  <1> QED
    BY <1>4, <1>7

LEMMA LaunchFollows ==
  ASSUME FreshIds, LInv, NEW s \in Scripts, Launch(s), UNCHANGED apiVars
  PROVE  StatusFollowsScript' /\ DeletesAreSafe'
  <1>1. /\ script[s].pc = "new"
        /\ script'[s].pc \in {"insert", "refused"}
        /\ OthersKeep(s)
        /\ UNCHANGED runs
    BY DEF Launch, CheckNoActiveRun, RefuseRun, At, Goto, OthersKeep, storeVars,
           LInv, OInv, RInv, TInv, MInv, MigratorTypeOK, ScriptState
  <1>2. StatusFits(script'[s], Status(RunOf[s]))
    BY <1>1 DEF LInv, StatusFollowsScript, StatusFits, Status
  <1>3. StatusFollowsScript'
    BY <1>1, <1>2, OthersFollow DEF LInv, Status
  <1>4. DeletesAreSafe'
    <2>1. \A o \in Scripts : script'[o].pc \in {"new", "refused", "insert"}
                               => script[o].pc \in {"new", "refused", "insert"}
      BY <1>1 DEF OthersKeep
    <2> QED
      BY <1>1, <2>1, SafeStays DEF LInv, OInv, RInv
  <1> QED
    BY <1>3, <1>4

\* The four transactions on the status column, as what they do to it.
LEMMA StatusWrites ==
  ASSUME LInv, NEW s \in Scripts,
         CreateRun(s) \/ FinishRun(s) \/ MarkPaused(s) \/ MarkRunning(s)
  PROVE  LET x == script[s]
             old == Status(RunOf[s])
             new == Status(RunOf[s])'
         IN /\ OthersKeep(s)
            /\ \A r \in Runs : r # RunOf[s] => Status(r)' = Status(r)
            /\ script'[s].outcome = x.outcome
            /\ \/ /\ CreateRun(s) /\ x.pc = "insert" /\ script'[s].pc = "started"
                  /\ old = "absent" /\ new = "running"
               \/ /\ FinishRun(s) /\ x.pc = "finish" /\ script'[s].pc = "sayFinished"
                  /\ x.outcome \in TerminalStatus
                  /\ new = IF old = "absent" THEN old ELSE x.outcome
               \/ /\ MarkPaused(s) /\ x.pc = "markPaused" /\ script'[s].pc = "sayPaused"
                  /\ old = "running" /\ new = "paused"
               \/ /\ MarkRunning(s) /\ x.pc = "markRunning"
                  /\ script'[s].pc = "sayResumed"
                  /\ old = "paused" /\ new = "running"
  <1> USE DEF LInv, OInv, RInv, TInv, MInv, At, Goto, Status
  <1>0. /\ script \in [Scripts -> ScriptState] /\ script[s] \in ScriptState
        /\ runs \in [Runs -> RunRow] /\ RunOf[s] \in Runs
        /\ runs[RunOf[s]] \in RunRow
        /\ runs[RunOf[s]].ended <=> IsTerminal(RunOf[s])
    BY MigratorAssumptions DEF MigratorTypeOK, StoreTypeOK, RowsAgree
  <1>1. StatusFits(script[s], runs[RunOf[s]].status)
    BY DEF StatusFollowsScript
  <1>2. CASE CreateRun(s)
    BY <1>0, <1>1, <1>2 DEF CreateRun, InsertRun, StatusFits, OthersKeep, ScriptState
  <1>3. CASE FinishRun(s)
    <2>1. script[s].outcome \in TerminalStatus
      BY <1>0, <1>3 DEF FinishRun, ScriptsOK, ScriptOK, ScriptState
    <2> QED
      BY <1>0, <1>3, <2>1
      DEF FinishRun, EndRun, RunExists, OthersKeep, ScriptState, RunRow
  <1>4. CASE MarkPaused(s)
    <2>1. runs[RunOf[s]].status = "running"
      BY <1>1, <1>4 DEF MarkPaused, StatusFits
    <2> QED
      BY <1>0, <1>4, <2>1 DEF MarkPaused, SetRunStatus, RunExists, IsTerminal,
         TerminalStatus, OthersKeep, ScriptState, RunRow
  <1>5. CASE MarkRunning(s)
    <2>1. runs[RunOf[s]].status = "paused"
      BY <1>1, <1>5 DEF MarkRunning, StatusFits
    <2> QED
      BY <1>0, <1>5, <2>1 DEF MarkRunning, SetRunStatus, RunExists, IsTerminal,
         TerminalStatus, OthersKeep, ScriptState, RunRow
  <1> QED
    BY <1>2, <1>3, <1>4, <1>5

LEMMA StatusWritesFollow ==
  ASSUME FreshIds, LInv, NEW s \in Scripts, UNCHANGED apiVars,
         CreateRun(s) \/ FinishRun(s) \/ MarkPaused(s) \/ MarkRunning(s)
  PROVE  StatusFollowsScript' /\ DeletesAreSafe'
  <1>1. StatusFits(script[s], Status(RunOf[s]))
    BY DEF LInv, StatusFollowsScript, Status
  <1>2. StatusFits(script'[s], Status(RunOf[s])')
    BY <1>1, StatusWrites DEF StatusFits, ActiveStatus, TerminalStatus
  <1>3. StatusFollowsScript'
    BY <1>2, StatusWrites, OthersFollow DEF LInv
  <1>4. DeletesAreSafe'
    <2>1. \A o \in Scripts : script'[o].pc \in {"new", "refused", "insert"}
                               => script[o].pc \in {"new", "refused", "insert"}
      BY StatusWrites DEF OthersKeep
    <2>2. ASSUME NEW r \in Runs, runs'[r].status \in ActiveStatus
          PROVE  \/ runs[r].status \in ActiveStatus
                 \/ \E o \in Scripts : RunOf[o] = r /\ script[o].pc = "insert"
      <3>1. CASE r = RunOf[s]
        BY <2>2, <3>1, StatusWrites DEF Status, ActiveStatus, TerminalStatus
      <3>2. CASE r # RunOf[s]
        BY <2>2, <3>2, StatusWrites DEF Status
      <3> QED
        BY <3>1, <3>2
    <2> QED
      BY <2>1, <2>2, SafeStays DEF LInv, OInv, RInv
  <1> QED
    BY <1>3, <1>4

-----------------------------------------------------------------------------
(* Steps of the control API *)

\* A handler that is done, with or without its write.
LEMMA RespondSafe ==
  ASSUME LInv, NEW c \in Callers, Respond(c), UNCHANGED <<runs, script>>
  PROVE  StatusFollowsScript' /\ DeletesAreSafe'
  <1>1. /\ request'[c] = NoRequest
        /\ \A d \in Callers : d # c => request'[d] = request[d]
    BY DEF Respond, LInv, OInv, RInv, TInv, ApiTypeOK
  <1>2. DeletesAreSafe'
    BY <1>1 DEF LInv, DeletesAreSafe, IsActive
  <1> QED
    BY <1>2 DEF LInv, StatusFollowsScript

\* A request is accepted for a run that exists, so its script is past the
\* insert; a delete only for one that has ended.
LEMMA AcceptSafe ==
  ASSUME LInv, NEW c \in Callers, NEW q \in Requests, Accept(c, q.op, q.run),
         UNCHANGED script
  PROVE  StatusFollowsScript' /\ DeletesAreSafe'
  <1> DEFINE new == [op |-> q.op, run |-> q.run]
  <1>1. /\ request'[c] = new
        /\ \A d \in Callers : d # c => request'[d] = request[d]
        /\ UNCHANGED runs
    BY DEF Accept, storeVars, LInv, OInv, RInv, TInv, ApiTypeOK
  <1>2. /\ q.op = "delete" => ~IsActive(q.run)
        /\ \A s \in Scripts : RunOf[s] = q.run =>
             script[s].pc \notin {"new", "refused", "insert"}
    BY DEF Accept, RunExists, LInv, StatusFollowsScript, StatusFits
  <1>3. new.op = q.op /\ new.run = q.run
    OBVIOUS
  <1> HIDE DEF new
  <1>4. DeletesAreSafe'
    BY <1>1, <1>2, <1>3 DEF LInv, DeletesAreSafe, IsActive
  <1> QED
    BY <1>1, <1>4 DEF LInv, StatusFollowsScript

\* The delete of an ended run takes the row away and nothing else happens to
\* its script.
LEMMA DeleteSafe ==
  ASSUME LInv, NEW c \in Callers, Delete(c), UNCHANGED script
  PROVE  StatusFollowsScript' /\ DeletesAreSafe'
  <1>1. PICK r \in Runs : /\ r = request[c].run
                          /\ request[c] # NoRequest /\ request[c].op = "delete"
                          /\ DeleteRun(r) /\ Respond(c)
    BY InFlight DEF Delete, NoRequest, LInv, OInv, RInv, TInv
  <1>2. /\ Status(r)' = "absent"
        /\ \A o \in Runs : o # r => Status(o)' = Status(o)
    BY <1>1 DEF DeleteRun, NoRun, Status, LInv, OInv, RInv, TInv, MInv, StoreTypeOK
  <1>3. /\ request'[c] = NoRequest
        /\ \A d \in Callers : d # c => request'[d] = request[d]
    BY <1>1 DEF Respond, LInv, OInv, RInv, TInv, ApiTypeOK
  <1>4. ASSUME NEW s \in Scripts
        PROVE  StatusFits(script'[s], Status(RunOf[s])')
    <2>0. StatusFits(script[s], Status(RunOf[s]))
      BY DEF LInv, StatusFollowsScript, Status
    <2>1. CASE RunOf[s] = r
      <3>1. /\ script[s].pc \notin {"new", "refused", "insert"}
            /\ Status(RunOf[s]) \notin ActiveStatus
        BY <1>1, <2>1 DEF LInv, DeletesAreSafe, IsActive, Status
      <3>2. StatusFits(script[s], "absent")
        BY <2>0, <3>1 DEF StatusFits, ActiveStatus
      <3> QED
        BY <1>2, <2>1, <3>2
    <2>2. CASE RunOf[s] # r
      BY <1>2, <2>0, <2>2, MigratorAssumptions
    <2> QED
      BY <2>1, <2>2
  <1>5. \A d \in Callers : request[d] # NoRequest => request[d].run \in Runs
    BY DEF LInv, OInv, RInv, TInv, ApiTypeOK, Requests
  <1>6. DeletesAreSafe'
    BY <1>2, <1>3, <1>5 DEF LInv, DeletesAreSafe, IsActive, Status, ActiveStatus
  <1> QED
    BY <1>4, <1>6 DEF StatusFollowsScript, Status

LEMMA ApiFollows ==
  ASSUME LInv, ApiNext, UNCHANGED migratorVars
  PROVE  StatusFollowsScript' /\ DeletesAreSafe'
  <1>0. UNCHANGED script
    BY DEF migratorVars
  <1>1. PICK c \in Callers :
          (\E q \in Requests : Accept(c, q.op, q.run)) \/ Handle(c) \/ Abort(c)
    BY DEF ApiNext
  <1>2. CASE WriteFlag(c) \/ Mark(c) \/ Abort(c)
    BY <1>0, <1>2, RespondSafe
    DEF WriteFlag, Mark, Abort, SetControlFlag, WriteEvent, storeVars
  <1> QED
    BY <1>0, <1>1, <1>2, AcceptSafe, DeleteSafe DEF Handle

-----------------------------------------------------------------------------
(* The invariant *)

LEMMA InitLInv == Init => LInv
  <1> SUFFICES ASSUME Init PROVE StatusFollowsScript /\ DeletesAreSafe
    BY InitOInv DEF LInv
  <1>1. \A s \in Scripts : script[s].pc = "new" /\ runs[RunOf[s]].status = "absent"
    BY MigratorAssumptions DEF Init, MigratorInit, StoreInit, NoRun
  <1>2. StatusFollowsScript
    BY <1>1 DEF StatusFollowsScript, StatusFits
  <1>3. DeletesAreSafe
    BY DEF Init, ApiInit, DeletesAreSafe
  <1> QED
    BY <1>2, <1>3

LEMMA NextLInv == SerialDispatch /\ FreshIds /\ LInv /\ [Next]_vars => LInv'
  <1> SUFFICES ASSUME SerialDispatch, FreshIds, LInv, [Next]_vars
               PROVE  StatusFollowsScript' /\ DeletesAreSafe'
    BY NextOInv DEF LInv
  <1>1. CASE MigratorNext /\ UNCHANGED apiVars
    <2>1. CASE UNCHANGED <<runs, script>>
      BY <1>1, <2>1
      DEF LInv, StatusFollowsScript, DeletesAreSafe, IsActive, apiVars
    <2>2. MInv
      BY DEF LInv, OInv, RInv, TInv
    <2> QED
      BY <1>1, <2>1, <2>2, Moves, LaunchFollows, QuietFollows, StatusWritesFollow
  <1>2. CASE ApiNext /\ UNCHANGED migratorVars
    BY <1>2, ApiFollows
  <1>3. CASE UNCHANGED vars
    BY <1>3 DEF LInv, StatusFollowsScript, DeletesAreSafe, IsActive, vars,
                storeVars, migratorVars, apiVars
  <1> QED
    BY <1>1, <1>2, <1>3 DEF Next

\* The inductive invariant, for every number of scripts, runs and requests: the
\* status column says where the script of the run is, and a delete that passed
\* its check finds the run still ended.
THEOREM InvariantHolds ==
  ASSUME SerialDispatch, FreshIds
  PROVE  Spec => []IInv
  <1>1. LInv => IInv
    BY DEF LInv, OInv, RInv, TInv, MInv, IInv, TypeOK
  <1>2. LInv /\ [Next]_vars => LInv'
    BY NextLInv
  <1> QED
    BY <1>1, <1>2, InitLInv, PTL DEF Spec

-----------------------------------------------------------------------------
(* Refinement *)

\* The column, as the refinement mapping sees it.
StatusColumn == [r \in Runs |-> runs[r].status]

\* Writing one status is Become.
LEMMA ColumnBecomes ==
  ASSUME NEW r \in Runs, NEW st, Status(r)' = st,
         \A o \in Runs : o # r => Status(o)' = Status(o)
  PROVE  /\ StatusColumn[r] = Status(r)
         /\ StatusColumn' = [StatusColumn EXCEPT ![r] = st]
  BY DEF StatusColumn, Status

LEMMA InitMaps == Init => Lifecycle!Init
  BY DEF Init, StoreInit, NoRun, Lifecycle!Init

LEMMA StatusWritesMap ==
  ASSUME LInv, NEW s \in Scripts,
         CreateRun(s) \/ FinishRun(s) \/ MarkPaused(s) \/ MarkRunning(s)
  PROVE  Lifecycle!Next \/ UNCHANGED StatusColumn
  <1> USE DEF StatusColumn, Lifecycle!Become
  <1> DEFINE r == RunOf[s]
  <1>0. r \in Runs
    BY MigratorAssumptions
  <1>1. StatusColumn[r] = Status(r)
        /\ StatusColumn' = [StatusColumn EXCEPT ![r] = Status(r)']
    BY <1>0, StatusWrites, ColumnBecomes
  <1>2. StatusFits(script[s], Status(r))
    BY DEF LInv, StatusFollowsScript, Status
  <1>3. CASE CreateRun(s) /\ script[s].pc = "insert"
             /\ Status(r) = "absent" /\ Status(r)' = "running"
    <2>1. \A o \in Runs : Status(o) \notin ActiveStatus
      BY <1>3, StatusWrites
      DEF LInv, OInv, AloneWhileInserting, At, ActiveRuns, IsActive, Status, ActiveStatus
    <2>2. Lifecycle!Create(r)
      BY <1>0, <1>1, <1>3, <2>1
      DEF Lifecycle!Create, Lifecycle!Active, ActiveStatus, Status
    <2> QED
      BY <1>0, <2>2 DEF Lifecycle!Next
  <1>4. CASE FinishRun(s) /\ script[s].pc = "finish"
             /\ script[s].outcome \in TerminalStatus
             /\ Status(r)' = IF Status(r) = "absent" THEN Status(r)
                                                    ELSE script[s].outcome
    <2>1. \/ Status(r) = "running"
          \/ Status(r) = "paused" /\ script[s].outcome # "done"
          \/ Status(r) = "done" /\ script[s].outcome = "failed"
          \/ Status(r) = "absent"
      BY <1>2, <1>4 DEF StatusFits
    <2>2. CASE \/ Status(r) = "running"
               \/ Status(r) = "paused" /\ script[s].outcome # "done"
      <3>1. PICK outcome \in TerminalStatus : outcome = script[s].outcome
        BY <1>4
      <3>2. /\ Status(r)' = outcome
            /\ Status(r) \in {"running", "paused"}
            /\ outcome = "done" => Status(r) = "running"
        BY <1>4, <2>2, <3>1
      <3>3. StatusColumn' = [StatusColumn EXCEPT ![r] = outcome]
        BY <1>1, <3>2
      <3>4. Lifecycle!End(r, outcome)
        BY <1>1, <3>2, <3>3 DEF Lifecycle!End, Lifecycle!Active
      <3> QED
        BY <1>0, <3>4 DEF Lifecycle!Next, Lifecycle!Terminal, TerminalStatus
    <2>3. CASE Status(r) = "done" /\ script[s].outcome = "failed"
      <3>1. Lifecycle!Demote(r)
        BY <1>1, <1>4, <2>3 DEF Lifecycle!Demote
      <3> QED
        BY <1>0, <3>1 DEF Lifecycle!Next
    <2>4. CASE Status(r) = "absent"
      BY <1>0, <1>1, <1>4, <2>4
    <2> QED
      BY <2>1, <2>2, <2>3, <2>4
  <1>5. CASE MarkPaused(s) /\ Status(r) = "running" /\ Status(r)' = "paused"
    <2>1. Lifecycle!Pause(r)
      BY <1>1, <1>5 DEF Lifecycle!Pause
    <2> QED
      BY <1>0, <2>1 DEF Lifecycle!Next
  <1>6. CASE MarkRunning(s) /\ Status(r) = "paused" /\ Status(r)' = "running"
    <2>1. Lifecycle!Resume(r)
      BY <1>1, <1>6 DEF Lifecycle!Resume
    <2> QED
      BY <1>0, <2>1 DEF Lifecycle!Next
  <1> QED
    BY <1>3, <1>4, <1>5, <1>6, StatusWrites

LEMMA DeleteMaps ==
  ASSUME LInv, NEW c \in Callers, Delete(c)
  PROVE  Lifecycle!Next \/ UNCHANGED StatusColumn
  <1> USE DEF StatusColumn, Lifecycle!Become
  <1>1. PICK r \in Runs : /\ r = request[c].run
                          /\ request[c] # NoRequest /\ request[c].op = "delete"
                          /\ DeleteRun(r)
    BY InFlight DEF Delete, NoRequest, LInv, OInv, RInv, TInv
  <1>2. StatusColumn[r] = Status(r)
        /\ StatusColumn' = [StatusColumn EXCEPT ![r] = "absent"]
    BY <1>1, ColumnBecomes
    DEF DeleteRun, NoRun, Status, LInv, OInv, RInv, TInv, MInv, StoreTypeOK
  <1>3. CASE Status(r) \in TerminalStatus
    <2>1. Lifecycle!Delete(r)
      BY <1>2, <1>3 DEF Lifecycle!Delete, Lifecycle!Terminal, TerminalStatus
    <2> QED
      BY <2>1 DEF Lifecycle!Next
  <1>4. CASE Status(r) = "absent"
    BY <1>2, <1>4
  <1>5. Status(r) \notin ActiveStatus /\ runs[r] \in RunRow
    BY <1>1 DEF LInv, DeletesAreSafe, IsActive, Status, OInv, RInv, TInv, MInv,
                StoreTypeOK
  <1> QED
    BY <1>3, <1>4, <1>5 DEF Status, RunRow

\* The other steps write no status.
LEMMA NextMaps ==
  ASSUME LInv, [Next]_vars
  PROVE  Lifecycle!Next \/ UNCHANGED StatusColumn
  <1>1. UNCHANGED runs => UNCHANGED StatusColumn
    BY DEF StatusColumn
  <1>2. CASE MigratorNext
    <2>1. MInv
      BY DEF LInv, OInv, RInv, TInv
    <2>2. ASSUME NEW s \in Scripts, Launch(s) \/ MovesQuietly(s) PROVE UNCHANGED runs
      BY <2>2 DEF Launch, CheckNoActiveRun, RefuseRun, MovesQuietly, storeVars
    <2> QED
      BY <1>1, <1>2, <2>1, <2>2, Moves, StatusWritesMap
  <1>3. CASE ApiNext
    <2>1. PICK c \in Callers :
            (\E q \in Requests : Accept(c, q.op, q.run)) \/ Handle(c) \/ Abort(c)
      BY <1>3 DEF ApiNext
    <2>2. Delete(c) \/ UNCHANGED runs
      BY <2>1 DEF Accept, Handle, WriteFlag, Mark, Abort, SetControlFlag, WriteEvent,
                  storeVars
    <2> QED
      BY <1>1, <2>2, DeleteMaps
  <1>4. CASE UNCHANGED vars
    BY <1>1, <1>4 DEF vars, storeVars
  <1> QED
    BY <1>2, <1>3, <1>4 DEF Next

\* The status column implements RunLifecycle: one active run, 'done' only from
\* 'running', no ended run back to life, deletes of ended runs only, and the
\* demotion of a 'done' run to 'failed' as the one surprise.
THEOREM LifecycleImplemented ==
  ASSUME SerialDispatch, FreshIds
  PROVE  Spec => ImplementsLifecycle
  <1>1. LInv /\ [Next]_vars => LInv'
    BY NextLInv
  <1>2. LInv /\ [Next]_vars => [Lifecycle!Next]_StatusColumn
    BY NextMaps
  <1> QED
    BY <1>1, <1>2, InitLInv, InitMaps, PTL
    DEF Spec, ImplementsLifecycle, Lifecycle!Spec, StatusColumn
=============================================================================
