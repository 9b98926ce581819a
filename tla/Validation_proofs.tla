--------------------------- MODULE Validation_proofs ---------------------------
(***************************************************************************)
(* Calls of validate() beside scripts and API: types, and whether their    *)
(* verdicts can be trusted.  A call writes the table validations and       *)
(* events, which no script reads, so the invariants of the scripts hold    *)
(* beside it (ValidatorKeeps).  What scripts and handlers do to a call is  *)
(* said by four lemmas: VerdictsShrink (they only take verdicts away),     *)
(* GoneForGood (a deleted run does not come back), DoneUntilGone (a done   *)
(* table stays done until its run is deleted) and LandsInItsTarget (what   *)
(* lands is counted for the run and in the target of the table).           *)
(***************************************************************************)
EXTENDS ValidationSystem, Tables_proofs

-----------------------------------------------------------------------------
(* Types *)

CInv == RInv /\ ValidatorTypeOK /\ ChecksOK

Step(v) == Discover(v) \/ Validate(v) \/ StopValidation(v)

\* What the new record of a call has to satisfy.
CheckFits(y) ==
  /\ y \in CheckState
  /\ y.pc \in {"target", "record", "sayRow"} => y.table \in y.todo
  /\ y.pc \in {"new", "clear"} => y.results = NoVerdicts

OtherCallsKeep(v) == \A o \in Validations : o # v => check'[o] = check[o]

LEMMA CheckFacts ==
  ASSUME CInv, NEW v \in Validations
  PROVE  /\ CheckFits(check[v]) /\ check[v] \in CheckState
         /\ check \in [Validations -> CheckState]
         /\ ValidationRun[v] \in Runs
         /\ check[v].pc \in {"target", "record", "sayRow"} => check[v].table \in Tables
  <1>1. check[v] \in CheckState /\ check \in [Validations -> CheckState]
    BY DEF CInv, ValidatorTypeOK
  <1>2. CheckFits(check[v])
    BY <1>1 DEF CInv, ChecksOK, CheckFits
  <1>3. check[v].todo \in SUBSET Tables
    BY <1>1 DEF CheckState
  <1> QED
    BY <1>1, <1>2, <1>3, ValidatorAssumptions DEF CheckFits

\* The location after a step of a call, and what the step makes of its variables.
LEMMA CheckMoves ==
  ASSUME CInv, NEW v \in Validations, Step(v)
  PROVE  OtherCallsKeep(v) /\ CheckFits(check'[v])
  <1> USE DEF OtherCallsKeep, CheckFits, CheckAt, CheckGoto, CheckPcs, CountPcs, FinalPcs
  <1>0. /\ CheckFits(check[v]) /\ check[v] \in CheckState
        /\ check \in [Validations -> CheckState] /\ ValidationRun[v] \in Runs
    BY CheckFacts
  <1>1. CASE Discover(v)
    <2>1. TablesToCheck(v) \in SUBSET Tables
      BY ValidatorAssumptions DEF TablesToCheck, DoneTables
    <2> QED
      BY <1>0, <1>1, <2>1 DEF Discover, CheckState
  <1>2. ASSUME NEW l \in {"next", "saySummary", "sayStep", "returned", "stopped"},
               check[v].pc \in CheckPcs, CheckGoto(v, l)
        PROVE  OtherCallsKeep(v) /\ CheckFits(check'[v])
    BY <1>0, <1>2 DEF CheckState
  <1>3. CASE CountSource(v)
    <2>1. \A t \in Tables : sourceRows[t] \in Nat
      BY DEF CInv, RInv, TInv, MInv, MigratorTypeOK
    <2>2. PICK t \in check[v].todo : \E rows \in {sourceRows[t], Unknown} :
            check' = [check EXCEPT ![v].pc = "target", ![v].table = t, ![v].source = rows]
      BY <1>3 DEF CountSource
    <2>3. PICK rows \in {sourceRows[t], Unknown} :
            check' = [check EXCEPT ![v].pc = "target", ![v].table = t, ![v].source = rows]
      BY <2>2
    <2>4. t \in Tables /\ rows \in Counts
      BY <1>0, <2>1, <2>2, <2>3 DEF CheckState, Counts
    <2> QED
      BY <1>0, <2>2, <2>3, <2>4 DEF CheckState
  <1>4. CASE CountTarget(v)
    <2>1. PICK verdict \in Verdicts :
            check' = [check EXCEPT ![v].pc = "record", ![v].results[check[v].table] = verdict]
      BY <1>4 DEF CountTarget, Verdict, Verdicts
    <2>2. check[v].table \in check[v].todo
      BY <1>0, <1>4 DEF CountTarget
    <2> QED
      BY <1>0, <2>1, <2>2 DEF CheckState
  <1>5. CASE RecordVerdict(v)
    BY <1>0, <1>5 DEF RecordVerdict, CheckState
  <1>6. CASE AnnounceVerdict(v)
    <2>1. Unknown \in Counts
      BY DEF Counts
    <2> QED
      BY <1>0, <1>6, <2>1 DEF AnnounceVerdict, CheckState
  <1> QED
    BY <1>1, <1>2, <1>3, <1>4, <1>5, <1>6
    DEF Step, Validate, ClearVerdicts, AllChecked, AnnounceSummary, AnnounceStep, StopValidation

LEMMA HistoryTyped ==
  ASSUME CInv, NEW v \in Validations, Step(v)
  PROVE  /\ author' \in [Runs -> [Tables -> Validations \cup {Unknown}]]
         /\ latest' \in [Runs -> Validations \cup {Unknown}]
  <1>0. /\ author \in [Runs -> [Tables -> Validations \cup {Unknown}]]
        /\ latest \in [Runs -> Validations \cup {Unknown}]
    BY DEF CInv, ValidatorTypeOK
  <1>1. CASE ClearVerdicts(v)
    BY <1>0, <1>1 DEF ClearVerdicts
  <1>2. CASE RecordVerdict(v)
    BY <1>0, <1>2 DEF RecordVerdict
  <1>3. CASE ~ClearVerdicts(v) /\ ~RecordVerdict(v)
    BY Zenon, <1>0, <1>3 DEF Step, Validate, Discover, CountSource, CountTarget, AnnounceVerdict,
       AllChecked, AnnounceSummary, AnnounceStep, StopValidation
  <1> QED
    BY <1>1, <1>2, <1>3

\* The store, as a call writes it.
LEMMA CheckWrites ==
  ASSUME CInv, NEW v \in Validations, Step(v)
  PROVE  /\ UNCHANGED <<runs, runTables, batches, controls>>
         /\ \/ UNCHANGED <<events, validations>>
            \/ /\ UNCHANGED validations
               /\ \E e \in EventKinds :
                    /\ e.kind \in {"validation_row", "validation_done", "step_validated"}
                    /\ WriteEvent(ValidationRun[v], e)
            \/ ClearVerdicts(v) /\ ClearValidations(ValidationRun[v])
            \/ /\ RecordVerdict(v) /\ check[v].table \in Tables
               /\ RecordValidation(ValidationRun[v], check[v].table,
                                   check[v].results[check[v].table])
  <1>1. CASE ClearVerdicts(v)
    BY <1>1 DEF ClearVerdicts, ClearValidations
  <1>2. CASE RecordVerdict(v)
    BY <1>2, CheckFacts DEF RecordVerdict, RecordValidation, CheckAt
  <1>3. CASE AnnounceVerdict(v) \/ AnnounceSummary(v) \/ AnnounceStep(v)
    <2>1. CASE AnnounceVerdict(v)
      <3> DEFINE e == [kind |-> "validation_row", table |-> check[v].table]
      <3>1. check[v].table \in Tables
        BY <2>1, CheckFacts DEF AnnounceVerdict, CheckAt
      <3>2. e \in EventKinds /\ e.kind = "validation_row"
        BY <3>1 DEF EventKinds, TableEvents
      <3> QED
        BY <2>1, <3>2 DEF AnnounceVerdict, WriteEvent
    <2>2. CASE AnnounceSummary(v)
      <3> DEFINE e == [kind |-> "validation_done"]
      <3>1. e \in EventKinds /\ e.kind = "validation_done"
        BY DEF EventKinds, RunEvents
      <3> QED
        BY <2>2, <3>1 DEF AnnounceSummary, WriteEvent
    <2>3. CASE AnnounceStep(v)
      <3> DEFINE e == [kind |-> "step_validated"]
      <3>1. e \in EventKinds /\ e.kind = "step_validated"
        BY DEF EventKinds, RunEvents
      <3> QED
        BY <2>3, <3>1 DEF AnnounceStep, WriteEvent
    <2> QED
      BY <1>3, <2>1, <2>2, <2>3
  <1>4. CASE Discover(v) \/ CountSource(v) \/ CountTarget(v) \/ AllChecked(v)
             \/ StopValidation(v)
    BY <1>4 DEF Discover, CountSource, CountTarget, AllChecked, StopValidation, storeVars
  <1> QED
    BY <1>1, <1>2, <1>3, <1>4 DEF Step, Validate

\* The types of the store and the agreement of its rows.
LEMMA CheckAgrees ==
  ASSUME CInv, NEW v \in Validations, Step(v)
  PROVE  StoreTypeOK' /\ RowsAgree'
  <1>0. StoreTypeOK /\ RowsAgree /\ ValidationRun[v] \in Runs /\ check[v] \in CheckState
    BY CheckFacts DEF CInv, RInv, TInv, MInv
  <1>1. CASE UNCHANGED storeVars
    BY <1>0, <1>1, StoreStutterType, StoreStutterAgrees
  <1>2. ASSUME NEW e \in EventKinds, WriteEvent(ValidationRun[v], e)
        PROVE  StoreTypeOK' /\ RowsAgree'
    BY <1>0, <1>2, WriteEventType, WriteEventAgrees
  <1>3. CASE ClearValidations(ValidationRun[v])
    BY <1>0, <1>3 DEF ClearValidations, StoreTypeOK, RowsAgree, RunExists, TableExists,
       IsTerminal
  <1>4. ASSUME NEW t \in Tables, NEW verdict \in Verdicts \cup {"absent"},
               RecordValidation(ValidationRun[v], t, verdict)
        PROVE  StoreTypeOK' /\ RowsAgree'
    BY <1>0, <1>4 DEF RecordValidation, StoreTypeOK, RowsAgree, RunExists, TableExists,
       IsTerminal
  <1>5. check[v].table \in Tables =>
          check[v].results[check[v].table] \in Verdicts \cup {"absent"}
    BY <1>0 DEF CheckState
  <1> QED
    BY <1>1, <1>2, <1>3, <1>4, <1>5, CheckWrites DEF storeVars

\* Only its own call is changed by a step.
LEMMA CallsFit ==
  ASSUME CInv, NEW v \in Validations, Step(v)
  PROVE  /\ check' \in [Validations -> CheckState] /\ ChecksOK'
         /\ OtherCallsKeep(v) /\ CheckFits(check'[v])
  <1>1. OtherCallsKeep(v) /\ CheckFits(check'[v])
    BY CheckMoves
  <1>2. \A o \in Validations : CheckFits(check'[o])
    BY <1>1, CheckFacts DEF OtherCallsKeep
  <1>3. \E f : check' = [check EXCEPT ![v] = f]
    <2> USE DEF CheckGoto
    <2>1. check \in [Validations -> CheckState]
      BY CheckFacts
    <2> QED
      BY <2>1 DEF Step, Validate, Discover, ClearVerdicts, CountSource, CountTarget,
         RecordVerdict, AnnounceVerdict, AllChecked, AnnounceSummary, AnnounceStep,
         StopValidation
  <1>4. check' \in [Validations -> CheckState]
    BY <1>2, <1>3, CheckFacts DEF CheckFits
  <1> QED
    BY <1>1, <1>2, <1>4 DEF ChecksOK, CheckFits

LEMMA InitCInv == SystemInit => CInv
  <1> SUFFICES ASSUME SystemInit PROVE ValidatorTypeOK /\ ChecksOK
    BY InitRInv DEF SystemInit, CInv
  <1>1. Unknown \in Counts /\ NoVerdicts \in [Tables -> Verdicts \cup {"absent"}]
    BY DEF Counts, NoVerdicts
  <1>2. check \in [Validations -> CheckState]
    BY <1>1 DEF SystemInit, ValidatorInit, CheckState
  <1> QED
    BY <1>2 DEF SystemInit, ValidatorInit, ValidatorTypeOK, ChecksOK

LEMMA NextCInv == CInv /\ [SystemNext]_systemVars => CInv'
  <1> SUFFICES ASSUME CInv, [SystemNext]_systemVars PROVE CInv'
    OBVIOUS
  <1>1. CASE [Next]_vars /\ UNCHANGED validatorVars
    <2>1. RInv'
      BY <1>1, NextRInv DEF CInv
    <2> QED
      BY <1>1, <2>1 DEF CInv, ValidatorTypeOK, ChecksOK, validatorVars
  <1>2. CASE ValidatorNext /\ UNCHANGED <<migratorVars, apiVars>>
    <2> PICK v \in Validations : Step(v)
      BY <1>2 DEF ValidatorNext, Step
    <2>1. StoreTypeOK' /\ RowsAgree'
      BY CheckAgrees
    <2>2. MigratorTypeOK' /\ ScriptsOK' /\ ApiTypeOK'
      BY <1>2 DEF CInv, RInv, TInv, MInv, MigratorTypeOK, ScriptsOK, ScriptOK, PlanLeft,
                  ApiTypeOK, migratorVars, dataVars, apiVars
    <2> QED
      BY <2>1, <2>2, CallsFit, HistoryTyped DEF CInv, RInv, TInv, MInv, ValidatorTypeOK
  <1> QED
    BY <1>1, <1>2 DEF SystemNext, systemVars

\* Every variable keeps its type beside any number of calls of validate().
THEOREM SystemTypeCorrect == SystemSpec => []SystemTypeOK
  <1>1. CInv => SystemTypeOK
    BY DEF CInv, RInv, TInv, MInv, SystemTypeOK, TypeOK
  <1> QED
    BY <1>1, InitCInv, NextCInv, PTL DEF SystemSpec

-----------------------------------------------------------------------------
(* The scripts beside a call *)

LEMMA StatusKeeps ==
  ASSUME CInv, LInv, CInv', ValidatorNext, UNCHANGED <<migratorVars, apiVars>>
  PROVE  LInv'
  <1> PICK v \in Validations : Step(v)
    BY DEF ValidatorNext, Step
  <1>1. UNCHANGED <<runs, script, request>>
    BY CheckWrites DEF migratorVars, apiVars
  <1> QED
    BY <1>1 DEF LInv, OInv, CInv, OneActiveRun, AloneWhileInserting, ActiveRuns, IsActive,
                At, StatusFollowsScript, DeletesAreSafe

LEMMA ValidatorKeeps ==
  ASSUME CInv, FInv, CInv', ValidatorNext, UNCHANGED <<migratorVars, apiVars>>
  PROVE  FInv'
  <1> PICK v \in Validations : Step(v)
    BY DEF ValidatorNext, Step
  <1>1. UNCHANGED <<runs, runTables, script, landed, staged, target, request>>
    BY CheckWrites DEF migratorVars, dataVars, apiVars
  <1>2. LInv'
    BY StatusKeeps DEF FInv
  <1>3. \A r \in Runs : \A e \in Telling : e \in Said(r)' <=> e \in Said(r)
    <2>1. CASE UNCHANGED events
      BY <2>1, SaidStays
    <2>2. ASSUME NEW e \in EventKinds, WriteEvent(ValidationRun[v], e),
                 e.kind \in {"validation_row", "validation_done", "step_validated"}
          PROVE  \A r \in Runs : \A d \in Telling : d \in Said(r)' <=> d \in Said(r)
      <3>1. e \notin Telling
        BY <2>2 DEF Telling, TableDone
      <3>2. StoreTypeOK /\ ValidationRun[v] \in Runs
        BY CheckFacts DEF CInv, RInv, TInv, MInv
      <3> QED
        BY <2>2, <3>1, <3>2, SaidAppend
    <2> QED
      BY <2>1, <2>2, CheckWrites DEF ClearValidations, RecordValidation
  <1> QED
    BY <1>1, <1>2, <1>3, NothingFollows DEF FInv

Environment == SerialDispatch /\ FreshIds /\ TablesOnce

SInv == CInv /\ FInv

LEMMA InitSInv == SystemInit => SInv
  BY InitCInv, InitFInv DEF SystemInit, SInv

LEMMA NextSInv == Environment /\ SInv /\ [SystemNext]_systemVars => SInv'
  <1> SUFFICES ASSUME Environment, SInv, [SystemNext]_systemVars PROVE FInv'
    BY NextCInv DEF SInv
  <1>1. CInv'
    BY NextCInv DEF SInv
  <1>2. CASE [Next]_vars
    BY <1>2, NextFInv DEF SInv, Environment
  <1> QED
    BY <1>1, <1>2, ValidatorKeeps DEF SystemNext, systemVars, SInv

UInv == SInv /\ BInv

LEMMA NextUInv == Environment /\ UInv /\ [SystemNext]_systemVars => UInv'
  <1> SUFFICES ASSUME Environment, UInv, [SystemNext]_systemVars PROVE BInv'
    BY NextSInv DEF UInv
  <1>1. CInv /\ BInv /\ CInv' /\ FInv'
    BY NextSInv DEF UInv, SInv
  <1>2. CASE [Next]_vars
    BY <1>1, <1>2, NextBInv DEF Environment
  <1>3. CASE ValidatorNext /\ UNCHANGED <<migratorVars, apiVars>>
    <2> PICK v \in Validations : Step(v)
      BY <1>3 DEF ValidatorNext, Step
    <2>1. UNCHANGED <<batches, runTables, script>>
      BY <1>1, <1>3, CheckWrites DEF migratorVars
    <2>2. MInv'
      BY <1>1 DEF CInv, RInv, TInv
    <2>3. BatchesFollowScripts' /\ CheckpointAddsUp'
      BY <1>1, <2>1, <2>2, StoreStays, RecordsStay
    <2> QED
      BY <1>1, <2>3 DEF BInv
  <1> QED
    BY <1>2, <1>3 DEF SystemNext, systemVars

\* Validations disturb no script: what is proved of the scripts and the API
\* alone holds beside any number of calls of validate().
THEOREM ScriptsUndisturbed ==
  ASSUME SerialDispatch, FreshIds, TablesOnce
  PROVE  SystemSpec => [](IInv /\ ItemsFollowScripts /\ CheckpointSound)
  <1>1. UInv => IInv /\ ItemsFollowScripts /\ CheckpointSound
    <2> SUFFICES ASSUME UInv PROVE IInv /\ ItemsFollowScripts /\ CheckpointSound
      OBVIOUS
    <2>1. CheckpointSound
      BY CheckpointBounds DEF UInv, SInv, BInv, CheckpointSound
    <2> QED
      BY <2>1 DEF UInv, BInv, SInv, FInv, LInv, OInv, RInv, TInv, MInv, IInv, TypeOK,
         ItemsFollowScripts
  <1>2. UInv /\ [SystemNext]_systemVars => UInv'
    BY NextUInv DEF Environment
  <1>3. SystemInit => UInv
    BY InitSInv, InitBInv DEF SystemInit, UInv
  <1> QED
    BY <1>1, <1>2, <1>3, PTL DEF SystemSpec

-----------------------------------------------------------------------------
(* Verdicts of one call *)

\* Of scripts and handlers only the insert and the delete of a run touch verdicts.
LEMMA VerdictWriters ==
  ASSUME [Next]_vars
  PROVE  \/ UNCHANGED validations
         \/ \E s \in Scripts : CreateRun(s)
         \/ (\E c \in Callers : Delete(c)) /\ UNCHANGED migratorVars
  <1>1. CASE ApiNext /\ UNCHANGED migratorVars
    <2>1. PICK c \in Callers :
            (\E q \in Requests : Accept(c, q.op, q.run)) \/ Handle(c) \/ Abort(c)
      BY <1>1 DEF ApiNext
    <2> QED
      BY <1>1, <2>1
      DEF Accept, Handle, WriteFlag, Mark, Abort, SetControlFlag, WriteEvent, storeVars
  <1>2. CASE MigratorNext
    <2>1. ASSUME NEW s \in Scripts, DirectStep(s) PROVE UNCHANGED validations
      BY <2>1 DEF DirectStep, BeginDirect, OpenCursor, FetchBatch, CursorEmpty, InsertBatch,
         RecordInserted, SetTableStatus, RecordBatch, storeVars
    <2>2. ASSUME NEW s \in Scripts, StagedStep(s) PROVE UNCHANGED validations
      BY Zenon, <2>2 DEF StagedStep, BeginStaged, RejectStrategy, EnterPhase, EnterUnloading,
         Unload,
         EnterStaged, EnterLoading, CountBaseline, LoadStaged, CountLoaded, EnterValidating,
         CountsMatch, CountsDiffer, CleanUp, RecordLoaded, LeavePhases, SetTableStatus,
         SetTablePhase, RecordStagedLoad, storeVars
    <2>3. ASSUME NEW s \in Scripts, ControlStep(s) PROVE UNCHANGED validations
      BY <2>3 DEF ControlStep, ReadFlag, MarkPaused, AnnouncePause, PollFlag, MarkRunning,
         AnnounceResume, AnnounceCancel, SetRunStatus, WriteEvent, storeVars
    <2>4. ASSUME NEW s \in Scripts, RunStep(s), ~CreateRun(s) PROVE UNCHANGED validations
      BY <2>4 DEF RunStep, AnnounceStart, Preflight, RegisterNext, AllRegistered,
         CompleteTable, AnnounceTable, PlanDone, FinishRun, AnnounceFinish, Exit,
         RegisterTable, SetTableStatus, EndRun, WriteEvent, storeVars
    <2>5. ASSUME NEW s \in Scripts,
                 Launch(s) \/ Fail(s) \/ FailTable(s) \/ LandLate(s) \/ Kill(s)
          PROVE  UNCHANGED validations
      BY <2>5 DEF Launch, CheckNoActiveRun, RefuseRun, Fail, FailTable, LandLate, Kill,
         SetTableStatus, storeVars
    <2>6. ASSUME NEW t \in Tables, SourceInsert(t) PROVE UNCHANGED validations
      BY <2>6 DEF SourceInsert, storeVars
    <2> QED
      BY <1>2, <2>1, <2>2, <2>3, <2>4, <2>5, <2>6 DEF MigratorNext, Proceed
  <1> QED
    BY <1>1, <1>2 DEF Next, vars, storeVars

\* They take verdicts away and write none.
LEMMA VerdictsShrink ==
  ASSUME StoreTypeOK, TInv, [Next]_vars
  PROVE  \A r \in Runs, t \in Tables :
           validations'[r][t] \in {validations[r][t], "absent"}
  <1>1. ASSUME NEW r \in Runs,
               validations' = [validations EXCEPT ![r] = [t \in Tables |-> "absent"]]
        PROVE  \A o \in Runs, t \in Tables :
                 validations'[o][t] \in {validations[o][t], "absent"}
    BY <1>1 DEF StoreTypeOK
  <1>2. \A c \in Callers : Delete(c) => request[c].run \in Runs
    BY InFlight DEF Delete, TInv
  <1> QED
    BY <1>1, <1>2, VerdictWriters, MigratorAssumptions
    DEF CreateRun, InsertRun, Delete, DeleteRun

VInv == CInv /\ OneCallPerRun /\ ClearedByItself /\ VerdictsOfOneCall

\* A call that begins is alone; the others move on or stop.
LEMMA CallsStayAlone ==
  ASSUME SerialValidation, VInv, NEW v \in Validations, Step(v)
  PROVE  OneCallPerRun'
  <1>1. OtherCallsKeep(v)
    BY CheckMoves DEF VInv
  <1>2. CASE Discover(v)
    BY <1>1, <1>2 DEF Discover, VInv, OneCallPerRun, OtherCallsKeep
  <1>3. check[v].pc \in CheckPcs \/ Discover(v)
    BY Zenon DEF Step, Validate, ClearVerdicts, CountSource, CountTarget, RecordVerdict,
       AnnounceVerdict, AllChecked, AnnounceSummary, AnnounceStep, StopValidation, CheckAt,
       CheckPcs, CountPcs, FinalPcs
  <1> QED
    BY <1>1, <1>2, <1>3 DEF VInv, OneCallPerRun, OtherCallsKeep

LEMMA StillCleared ==
  ASSUME SerialValidation, VInv, NEW v \in Validations, Step(v)
  PROVE  ClearedByItself'
  <1> USE DEF CountPcs, FinalPcs, CheckPcs
  <1>0. /\ OtherCallsKeep(v) /\ CInv /\ ValidationRun \in [Validations -> Runs]
        /\ latest \in [Runs -> Validations \cup {Unknown}]
        /\ check \in [Validations -> CheckState]
    BY CheckMoves, ValidatorAssumptions DEF VInv, CInv, ValidatorTypeOK
  <1>1. CASE ClearVerdicts(v)
    <2>1. \A o \in Validations : o # v /\ check[o].pc \in CheckPcs =>
            ValidationRun[o] # ValidationRun[v]
      BY <1>1 DEF ClearVerdicts, CheckAt, VInv, OneCallPerRun
    <2> QED
      BY <1>0, <1>1, <2>1 DEF ClearVerdicts, VInv, ClearedByItself, OtherCallsKeep
  <1>2. CASE ~ClearVerdicts(v)
    <2>1. UNCHANGED latest
      BY Zenon, <1>2 DEF Step, Validate, Discover, CountSource, CountTarget, RecordVerdict,
         AnnounceVerdict, AllChecked, AnnounceSummary, AnnounceStep, StopValidation
    <2>2. check'[v].pc \in CountPcs \cup FinalPcs => check[v].pc \in CountPcs \cup FinalPcs
      <3>1. CASE Discover(v)
        BY <1>0, <3>1 DEF Discover, CheckState
      <3>2. CASE StopValidation(v)
        BY <1>0, <3>2 DEF StopValidation, CheckGoto, CheckState
      <3>3. CASE ~Discover(v) /\ ~StopValidation(v)
        BY Zenon, <1>2, <3>3 DEF Step, Validate, CountSource, CountTarget, RecordVerdict,
           AnnounceVerdict, AllChecked, AnnounceSummary, AnnounceStep, CheckAt
      <3> QED
        BY <3>1, <3>2, <3>3
    <2> QED
      BY <1>0, <2>1, <2>2 DEF VInv, ClearedByItself, OtherCallsKeep
  <1> QED
    BY <1>1, <1>2

LEMMA StillOfOneCall ==
  ASSUME SerialValidation, VInv, NEW v \in Validations, Step(v)
  PROVE  VerdictsOfOneCall'
  <1>0. /\ CInv /\ ValidationRun[v] \in Runs /\ VerdictsOfOneCall
        /\ validations \in [Runs -> [Tables -> Verdicts \cup {"absent"}]]
        /\ author \in [Runs -> [Tables -> Validations \cup {Unknown}]]
        /\ latest \in [Runs -> Validations \cup {Unknown}]
    BY ValidatorAssumptions DEF VInv, CInv, RInv, TInv, MInv, StoreTypeOK, ValidatorTypeOK
  <1>1. CASE ClearVerdicts(v)
    BY <1>0, <1>1 DEF ClearVerdicts, ClearValidations, VerdictsOfOneCall
  <1>2. CASE RecordVerdict(v)
    <2>1. latest[ValidationRun[v]] = v
      BY <1>2 DEF RecordVerdict, CheckAt, VInv, ClearedByItself, CountPcs
    <2>2. check[v].table \in Tables
      BY <1>0, <1>2, CheckFacts DEF RecordVerdict, CheckAt
    <2> QED
      BY <1>0, <1>2, <2>1, <2>2 DEF RecordVerdict, RecordValidation, VerdictsOfOneCall
  <1>3. CASE ~ClearVerdicts(v) /\ ~RecordVerdict(v)
    <2>1. UNCHANGED <<latest, author>>
      BY Zenon, <1>3 DEF Step, Validate, Discover, CountSource, CountTarget,
         AnnounceVerdict, AllChecked, AnnounceSummary, AnnounceStep, StopValidation
    <2>2. UNCHANGED validations
      BY <1>0, <1>3, CheckWrites
    <2> QED
      BY <1>0, <2>1, <2>2 DEF VerdictsOfOneCall
  <1> QED
    BY <1>1, <1>2, <1>3

LEMMA InitVInv == SystemInit => VInv
  BY InitCInv DEF SystemInit, VInv, ValidatorInit, OneCallPerRun, ClearedByItself,
     VerdictsOfOneCall, CheckPcs, CountPcs, FinalPcs, Init, StoreInit

LEMMA NextVInv == SerialValidation /\ VInv /\ [SystemNext]_systemVars => VInv'
  <1> SUFFICES ASSUME SerialValidation, VInv, [SystemNext]_systemVars
               PROVE  OneCallPerRun' /\ ClearedByItself' /\ VerdictsOfOneCall'
    BY NextCInv DEF VInv
  <1>1. CASE [Next]_vars /\ UNCHANGED validatorVars
    <2>1. \A r \in Runs, t \in Tables : validations'[r][t] \in {validations[r][t], "absent"}
      BY <1>1, VerdictsShrink DEF VInv, CInv, RInv, TInv, MInv
    <2> QED
      BY <1>1, <2>1 DEF VInv, OneCallPerRun, ClearedByItself, VerdictsOfOneCall, validatorVars
  <1>2. CASE ValidatorNext
    <2> PICK v \in Validations : Step(v)
      BY <1>2 DEF ValidatorNext, Step
    <2> QED
      BY CallsStayAlone, StillCleared, StillOfOneCall
  <1> QED
    BY <1>1, <1>2 DEF SystemNext, systemVars

\* validate()'s promise of a clean start, beside scripts, deletes, failures and
\* kills: all the verdicts of a run are those of the call that cleared it last,
\* if calls for one run do not overlap.
THEOREM VerdictsAreOfOneCall ==
  ASSUME SerialValidation
  PROVE  SystemSpec => []VerdictsOfOneCall
  <1>1. VInv => VerdictsOfOneCall
    BY DEF VInv
  <1>2. VInv /\ [SystemNext]_systemVars => VInv'
    BY NextVInv
  <1> QED
    BY <1>1, <1>2, InitVInv, PTL DEF SystemSpec

-----------------------------------------------------------------------------
(* Deleted runs *)

LEMMA GoneForGood ==
  ASSUME LInv, [Next]_vars, NEW r \in Runs, Gone(r)
  PROVE  Gone(r)'
  <1> DEFINE Begun == {"new", "refused", "insert"}
  <1>0. MInv /\ StoreTypeOK
    BY DEF LInv, OInv, RInv, TInv, MInv
  <1>1. ASSUME \A s \in Scripts : script'[s].pc \in Begun => script[s].pc \in Begun,
               Status(r)' = "absent"
        PROVE  Gone(r)'
    BY <1>1 DEF Gone, RunExists, Status
  <1>2. CASE UNCHANGED <<runs, script>>
    BY <1>1, <1>2 DEF Gone, RunExists, Status
  <1>3. ASSUME NEW s \in Scripts, MovesQuietly(s) PROVE Gone(r)'
    <2>1. script'[s].pc \notin Begun
      BY <1>3 DEF MovesQuietly, Quiet, LivePcs, StoppedPcs, ConstructPcs, RunPcs, EndPcs,
         ControlPcs, DirectPcs, StagedPcs, TablePcs, PausedPcs, WorkingPcs
    <2> QED
      BY <1>1, <1>3, <2>1 DEF MovesQuietly, OthersKeep, Gone, RunExists, Status
  <1>4. ASSUME NEW s \in Scripts, Launch(s) PROVE Gone(r)'
    <2>1. script[s].pc = "new" /\ \A o \in Scripts : o # s => script'[o] = script[o]
      BY <1>0, <1>4 DEF Launch, CheckNoActiveRun, RefuseRun, At, Goto, MInv, MigratorTypeOK
    <2> QED
      BY <1>1, <1>4, <2>1
      DEF Launch, CheckNoActiveRun, RefuseRun, storeVars, Gone, RunExists, Status
  <1>5. ASSUME NEW s \in Scripts,
               CreateRun(s) \/ FinishRun(s) \/ MarkPaused(s) \/ MarkRunning(s)
        PROVE  Gone(r)'
    <2>1. ~CreateRun(s) \/ RunOf[s] # r
      BY DEF CreateRun, At, Gone
    <2>2. Status(r) = "absent"
      BY DEF Gone, RunExists, Status
    <2>3. script'[s].pc \notin Begun /\ OthersKeep(s)
      BY <1>5, StatusWrites
    <2>4. Status(r)' = "absent"
      BY <1>5, <2>1, <2>2, StatusWrites
    <2> QED
      BY <1>1, <2>3, <2>4 DEF OthersKeep
  <1>6. CASE ApiNext /\ UNCHANGED migratorVars
    <2>1. UNCHANGED runs \/ \E o \in Runs : DeleteRun(o)
      BY <1>6, InFlight DEF ApiNext, Accept, Handle, WriteFlag, Mark, Delete, Abort,
         SetControlFlag, WriteEvent, storeVars, LInv, OInv, RInv, TInv
    <2>2. ASSUME NEW o \in Runs, DeleteRun(o) PROVE Status(r)' = "absent"
      BY <1>0, <2>2 DEF DeleteRun, NoRun, StoreTypeOK, Gone, RunExists, Status
    <2>3. Status(r)' = "absent"
      BY <2>1, <2>2 DEF Gone, RunExists, Status
    <2> QED
      BY <1>1, <1>6, <2>3 DEF migratorVars
  <1> QED
    BY <1>0, <1>2, <1>3, <1>4, <1>5, <1>6, Moves DEF Next, vars, storeVars, migratorVars

\* The run that a handler deletes has been created, and its script is past that.
LEMMA DeleteMakesGone ==
  ASSUME LInv, NEW c \in Callers, Delete(c), UNCHANGED migratorVars,
         NEW r, r = request[c].run
  PROVE  r \in Runs /\ Gone(r)'
  <1>1. request[c].run \in Runs /\ request[c] # NoRequest
    BY InFlight DEF Delete, NoRequest, LInv, OInv, RInv, TInv
  <1>2. \A s \in Scripts : RunOf[s] = r => script[s].pc \notin {"new", "refused", "insert"}
    BY <1>1 DEF LInv, DeletesAreSafe
  <1>3. runs'[r].status = "absent"
    BY <1>1 DEF Delete, DeleteRun, NoRun, LInv, OInv, RInv, TInv, MInv, StoreTypeOK
  <1> QED
    BY <1>1, <1>2, <1>3 DEF Gone, RunExists, migratorVars, dataVars

\* A run that is created was not there, so it had no rows.
LEMMA CreatedFromNothing ==
  ASSUME LInv, NEW s \in Scripts, CreateRun(s)
  PROVE  /\ RunOf[s] \in Runs
         /\ \A t \in Tables : /\ runTables[RunOf[s]][t].status = "absent"
                              /\ validations[RunOf[s]][t] = "absent"
  <1>1. RunOf[s] \in Runs
    BY MigratorAssumptions
  <1>2. runs[RunOf[s]].status = "absent"
    BY DEF CreateRun, At, LInv, StatusFollowsScript, StatusFits
  <1> QED
    BY <1>1, <1>2 DEF LInv, OInv, RInv, RowsAgree, RunExists, TableExists

-----------------------------------------------------------------------------
(* The summary and the rows *)

\* Verdicts stay until their run is deleted.
LEMMA VerdictsStay ==
  ASSUME LInv, [Next]_vars, NEW r \in Runs
  PROVE  Gone(r)' \/ \A t \in Tables : validations'[r][t] = validations[r][t]
  <1>0. validations \in [Runs -> [Tables -> Verdicts \cup {"absent"}]]
    BY DEF LInv, OInv, RInv, TInv, MInv, StoreTypeOK
  <1>1. ASSUME NEW s \in Scripts, CreateRun(s)
        PROVE  \A t \in Tables : validations'[r][t] = validations[r][t]
    BY <1>0, <1>1, CreatedFromNothing DEF CreateRun, InsertRun
  <1>2. ASSUME NEW c \in Callers, Delete(c), UNCHANGED migratorVars
        PROVE  Gone(r)' \/ \A t \in Tables : validations'[r][t] = validations[r][t]
    <2>1. request[c].run \in Runs /\ (r = request[c].run => Gone(r)')
      BY <1>2, DeleteMakesGone
    <2>2. r # request[c].run => \A t \in Tables : validations'[r][t] = validations[r][t]
      BY <1>0, <1>2, <2>1 DEF Delete, DeleteRun
    <2> QED
      BY <2>1, <2>2
  <1> QED
    BY <1>1, <1>2, VerdictWriters

WInv == VInv /\ LInv /\ RowsAreResults

RowsFit(v) ==
  \/ Gone(ValidationRun[v])
  \/ \A t \in Tables :
       \/ CheckAt(v, "record") /\ t = check[v].table
       \/ validations[ValidationRun[v]][t] = check[v].results[t]

LEMMA GoneStays ==
  ASSUME CInv, NEW v \in Validations, Step(v), UNCHANGED migratorVars
  PROVE  \A r \in Runs : Gone(r)' <=> Gone(r)
  BY CheckWrites DEF Gone, RunExists, migratorVars

\* A step of the call itself.
LEMMA OwnRowsFit ==
  ASSUME WInv, NEW v \in Validations, Step(v), UNCHANGED migratorVars,
         check'[v].pc \in CountPcs \cup FinalPcs
  PROVE  RowsFit(v)'
  <1> USE DEF CountPcs, FinalPcs, CheckAt
  <1> DEFINE r == ValidationRun[v]
  <1>0. /\ CInv /\ r \in Runs /\ check \in [Validations -> CheckState]
        /\ check[v] \in CheckState
        /\ check[v].results \in [Tables -> Verdicts \cup {"absent"}]
        /\ validations \in [Runs -> [Tables -> Verdicts \cup {"absent"}]]
        /\ check[v].pc \in {"target", "record", "sayRow"} => check[v].table \in Tables
    BY CheckFacts DEF WInv, VInv, CInv, RInv, TInv, MInv, StoreTypeOK, CheckState
  <1>1. CASE ClearVerdicts(v)
    <2>1. check[v].results = NoVerdicts
      BY <1>0, <1>1, CheckFacts DEF ClearVerdicts, CheckFits
    <2>2. check'[v].results = NoVerdicts /\ \A t \in Tables : validations'[r][t] = "absent"
      BY <1>0, <1>1, <2>1 DEF ClearVerdicts, ClearValidations, CheckGoto
    <2> QED
      BY <2>2 DEF RowsFit, NoVerdicts
  <1>2. CASE RecordVerdict(v)
    <2>1. Gone(r) \/ \A t \in Tables : t = check[v].table \/ validations[r][t] = check[v].results[t]
      BY <1>2 DEF RecordVerdict, WInv, RowsAreResults
    <2>2. /\ check'[v].results = check[v].results
          /\ validations'[r][check[v].table] = check[v].results[check[v].table]
          /\ \A t \in Tables : t # check[v].table => validations'[r][t] = validations[r][t]
      BY <1>0, <1>2 DEF RecordVerdict, RecordValidation, CheckGoto
    <2> QED
      BY <1>0, <2>1, <2>2, GoneStays DEF RowsFit
  <1>3. CASE ~ClearVerdicts(v) /\ ~RecordVerdict(v)
    <2>1. UNCHANGED validations
      BY <1>0, <1>3, CheckWrites
    <2>2. ~Discover(v) /\ ~StopValidation(v) /\ ~AnnounceStep(v)
      BY <1>0 DEF Discover, StopValidation, AnnounceStep, CheckGoto, CheckState
    <2>3. /\ check[v].pc \in CountPcs \cup FinalPcs /\ check[v].pc # "record"
      BY Zenon, <1>3, <2>2 DEF Step, Validate, CountSource, CountTarget, AnnounceVerdict,
         AllChecked,
         AnnounceSummary
    <2>4. Gone(r) \/ \A t \in Tables : validations[r][t] = check[v].results[t]
      BY <2>3 DEF WInv, RowsAreResults
    <2>5. CASE CountTarget(v)
      <3>1. /\ check'[v].pc = "record" /\ check'[v].table = check[v].table
            /\ \A t \in Tables : t # check[v].table =>
                 check'[v].results[t] = check[v].results[t]
        BY <1>0, <2>5 DEF CountTarget, CheckState
      <3> QED
        BY <1>0, <2>1, <2>4, <3>1, GoneStays DEF RowsFit
    <2>6. CASE ~CountTarget(v)
      <3>1. check'[v].results = check[v].results
        <4>1. CountSource(v) \/ AnnounceVerdict(v) \/ AllChecked(v) \/ AnnounceSummary(v)
          BY <1>3, <2>2, <2>6 DEF Step, Validate
        <4>2. CASE CountSource(v)
          BY <1>0, <4>2 DEF CountSource, CheckState
        <4>3. CASE AnnounceVerdict(v)
          BY <1>0, <4>3 DEF AnnounceVerdict, CheckState
        <4>4. CASE AllChecked(v) \/ AnnounceSummary(v)
          BY <1>0, <4>4 DEF AllChecked, AnnounceSummary, CheckGoto, CheckState
        <4> QED
          BY <4>1, <4>2, <4>3, <4>4
      <3> QED
        BY <1>0, <2>1, <2>4, <3>1, GoneStays DEF RowsFit
    <2> QED
      BY <2>5, <2>6
  <1> QED
    BY <1>1, <1>2, <1>3

\* A step of another call, which is at work on another run.
LEMMA OtherRowsFit ==
  ASSUME WInv, NEW v \in Validations, Step(v), UNCHANGED migratorVars,
         NEW o \in Validations, o # v, check'[o].pc \in CountPcs \cup FinalPcs
  PROVE  RowsFit(o)'
  <1>0. /\ CInv /\ ValidationRun[o] \in Runs /\ ValidationRun[v] \in Runs
        /\ validations \in [Runs -> [Tables -> Verdicts \cup {"absent"}]]
    BY ValidatorAssumptions DEF WInv, VInv, CInv, RInv, TInv, MInv, StoreTypeOK
  <1>1. check'[o] = check[o]
    BY <1>0, CheckMoves DEF OtherCallsKeep
  <1>2. RowsFit(o)
    BY <1>1 DEF WInv, RowsAreResults, RowsFit
  <1>3. \A t \in Tables : validations'[ValidationRun[o]][t] = validations[ValidationRun[o]][t]
    <2>1. CASE ClearVerdicts(v) \/ RecordVerdict(v)
      <3>1. ValidationRun[o] # ValidationRun[v]
        BY <1>1, <2>1 DEF WInv, VInv, OneCallPerRun, ClearVerdicts, RecordVerdict, CheckAt,
           CheckPcs, CountPcs, FinalPcs
      <3> QED
        BY <1>0, <2>1, <3>1 DEF ClearVerdicts, ClearValidations, RecordVerdict, RecordValidation
    <2>2. CASE ~ClearVerdicts(v) /\ ~RecordVerdict(v)
      BY <1>0, <2>2, CheckWrites
    <2> QED
      BY <2>1, <2>2
  <1> QED
    BY <1>0, <1>1, <1>2, <1>3, GoneStays DEF RowsFit, CheckAt

LEMMA InitWInv == SystemInit => WInv
  BY InitVInv, InitLInv
  DEF SystemInit, WInv, ValidatorInit, RowsAreResults, CountPcs, FinalPcs

LEMMA NextWInv ==
  SerialDispatch /\ FreshIds /\ SerialValidation /\ WInv /\ [SystemNext]_systemVars => WInv'
  <1> SUFFICES ASSUME SerialDispatch, FreshIds, SerialValidation, WInv,
                      [SystemNext]_systemVars
               PROVE  LInv' /\ RowsAreResults'
    BY NextVInv DEF WInv
  <1>1. CASE [Next]_vars /\ UNCHANGED validatorVars
    <2>1. LInv'
      BY <1>1, NextLInv DEF WInv
    <2>2. ASSUME NEW v \in Validations, check'[v].pc \in CountPcs \cup FinalPcs
          PROVE  RowsFit(v)'
      <3>1. UNCHANGED check /\ ValidationRun[v] \in Runs /\ LInv
        BY <1>1, ValidatorAssumptions DEF validatorVars, WInv
      <3>2. RowsFit(v)
        BY <2>2, <3>1 DEF WInv, RowsAreResults, RowsFit
      <3> QED
        BY <1>1, <3>1, <3>2, GoneForGood, VerdictsStay DEF RowsFit, CheckAt
    <2> QED
      BY <2>1, <2>2 DEF RowsAreResults, RowsFit
  <1>2. CASE ValidatorNext /\ UNCHANGED <<migratorVars, apiVars>>
    <2> PICK v \in Validations : Step(v)
      BY <1>2 DEF ValidatorNext, Step
    <2>1. CInv'
      BY NextCInv DEF WInv, VInv
    <2>2. LInv'
      BY <1>2, <2>1, StatusKeeps DEF WInv, VInv
    <2>3. \A o \in Validations : check'[o].pc \in CountPcs \cup FinalPcs => RowsFit(o)'
      BY <1>2, OwnRowsFit, OtherRowsFit
    <2> QED
      BY <2>2, <2>3 DEF RowsAreResults, RowsFit
  <1> QED
    BY <1>1, <1>2 DEF SystemNext, systemVars

\* The summary that validate() announces is the one that its rows give, whatever
\* scripts, handlers and earlier calls do, unless the run has been deleted.
THEOREM SummaryIsOfItsRows ==
  ASSUME SerialDispatch, FreshIds, SerialValidation
  PROVE  SystemSpec => []SummaryMatchesRows
  <1>1. WInv => SummaryMatchesRows
    <2> SUFFICES ASSUME WInv, NEW v \in Validations, check[v].pc \in FinalPcs,
                        RunExists(ValidationRun[v])
                 PROVE  validations[ValidationRun[v]] = check[v].results
      BY DEF SummaryMatchesRows
    <2>1. \A t \in Tables : validations[ValidationRun[v]][t] = check[v].results[t]
      BY DEF WInv, RowsAreResults, Gone, CheckAt, FinalPcs
    <2>2. /\ validations[ValidationRun[v]] \in [Tables -> Verdicts \cup {"absent"}]
          /\ check[v].results \in [Tables -> Verdicts \cup {"absent"}]
      BY CheckFacts DEF WInv, VInv, CInv, RInv, TInv, MInv, StoreTypeOK, CheckState
    <2> QED
      BY <2>1, <2>2
  <1>2. WInv /\ [SystemNext]_systemVars => WInv'
    BY NextWInv
  <1> QED
    BY <1>1, <1>2, InitWInv, PTL DEF SystemSpec
-----------------------------------------------------------------------------
(* What is done stays done *)

USE DEF LivePcs, StoppedPcs, ConstructPcs, RunPcs, EndPcs, ControlPcs, DirectPcs,
        StagedPcs, TablePcs, PausedPcs, WorkingPcs, ItemPcs, BeforeRun

StatusStays ==
  \A r \in Runs, t \in Tables : runTables'[r][t].status = runTables[r][t].status

DoneStays ==
  \A r \in Runs, t \in Tables : runTables[r][t].status = "done" =>
    runTables'[r][t].status = "done"

LEMMA ProgressKeepsStatus ==
  ASSUME FInv, NEW s \in Scripts, script[s].pc \in ItemPcs,
         \/ \E ph \in {"none", "unloading", "staged", "loading", "validating"} :
              SetTablePhase(RunOf[s], Item(s).table, ph)
         \/ RecordBatch(RunOf[s], Item(s).table, script[s].n, script[s].batch)
         \/ RecordStagedLoad(RunOf[s], Item(s).table, script[s].loaded)
  PROVE  StatusStays
  <1>1. /\ RunOf[s] \in Runs /\ Item(s).table \in Tables
        /\ TableExists(RunOf[s], Item(s).table) /\ StoreTypeOK
    BY Working, AtItemFacts DEF FInv, LInv, OInv, RInv, TInv, MInv
  <1>2. /\ OtherRowsStay(RunOf[s], Item(s).table)
        /\ runTables'[RunOf[s]][Item(s).table].status
             = runTables[RunOf[s]][Item(s).table].status
    BY <1>1, PhaseWritten, BatchWritten, LoadWritten
  <1> QED
    BY <1>1, <1>2 DEF StatusStays, OtherRowsStay

\* The steps of a script that write the status of a table.
LEMMA TableSteps ==
  ASSUME FInv, MigratorNext
  PROVE  \/ StatusStays
         \/ \E s \in Scripts :
              \/ CreateRun(s) \/ RegisterNext(s) \/ BeginDirect(s) \/ BeginStaged(s)
              \/ CompleteTable(s) \/ CountsDiffer(s) \/ FailTable(s)
  <1>1. ASSUME NEW s \in Scripts, DirectStep(s), ~BeginDirect(s) PROVE StatusStays
    <2>1. CASE RecordInserted(s)
      BY <2>1, ProgressKeepsStatus DEF RecordInserted, At
    <2>2. CASE ~RecordInserted(s)
      BY <1>1, <2>2 DEF DirectStep, OpenCursor, FetchBatch, CursorEmpty, InsertBatch,
         storeVars, StatusStays
    <2> QED
      BY <2>1, <2>2
  <1>2. ASSUME NEW s \in Scripts, StagedStep(s), ~BeginStaged(s), ~CountsDiffer(s)
        PROVE  StatusStays
    <2>1. CASE \/ EnterUnloading(s) \/ EnterStaged(s) \/ EnterLoading(s) \/ EnterValidating(s)
               \/ RecordLoaded(s) \/ LeavePhases(s)
      BY <2>1, ProgressKeepsStatus
      DEF EnterUnloading, EnterStaged, EnterLoading, EnterValidating, EnterPhase,
          RecordLoaded, LeavePhases, At
    <2>2. CASE \/ RejectStrategy(s) \/ Unload(s) \/ CountBaseline(s) \/ LoadStaged(s)
               \/ CountLoaded(s) \/ CountsMatch(s) \/ CleanUp(s)
      BY <2>2 DEF RejectStrategy, Unload, CountBaseline, LoadStaged, CountLoaded, CountsMatch,
         CleanUp, storeVars, StatusStays
    <2> QED
      BY <1>2, <2>1, <2>2 DEF StagedStep
  <1>3. ASSUME NEW s \in Scripts, ControlStep(s) PROVE StatusStays
    BY <1>3 DEF ControlStep, ReadFlag, MarkPaused, AnnouncePause, PollFlag, MarkRunning,
       AnnounceResume, AnnounceCancel, SetRunStatus, WriteEvent, storeVars, StatusStays
  <1>4. ASSUME NEW s \in Scripts, RunStep(s), ~CreateRun(s), ~RegisterNext(s),
               ~CompleteTable(s)
        PROVE  StatusStays
    BY <1>4 DEF RunStep, AnnounceStart, Preflight, AllRegistered, AnnounceTable, PlanDone,
       FinishRun, AnnounceFinish, Exit, EndRun, WriteEvent, storeVars, StatusStays
  <1>5. ASSUME NEW s \in Scripts, Launch(s) \/ Fail(s) \/ LandLate(s) \/ Kill(s)
        PROVE  StatusStays
    BY <1>5 DEF Launch, CheckNoActiveRun, RefuseRun, Fail, LandLate, Kill, storeVars,
       StatusStays
  <1>6. ASSUME NEW t \in Tables, SourceInsert(t) PROVE StatusStays
    BY <1>6 DEF SourceInsert, storeVars, StatusStays
  <1> QED
    BY <1>1, <1>2, <1>3, <1>4, <1>5, <1>6 DEF MigratorNext, Proceed

\* A script that writes the status of its item does not take 'done' away.
LEMMA StatusWriteKeepsDone ==
  ASSUME FInv, NEW s \in Scripts, AtItem(s), NEW st,
         SetTableStatus(RunOf[s], Item(s).table, st),
         st = "done" \/ runTables[RunOf[s]][Item(s).table].status # "done"
  PROVE  DoneStays
  <1>1. /\ RunOf[s] \in Runs /\ Item(s).table \in Tables
        /\ TableExists(RunOf[s], Item(s).table) /\ StoreTypeOK
    BY AtItemFacts DEF FInv, LInv, OInv, RInv, TInv, MInv
  <1>2. /\ OtherRowsStay(RunOf[s], Item(s).table)
        /\ runTables'[RunOf[s]][Item(s).table].status = st
    BY <1>1, StatusWritten
  <1> QED
    BY <1>1, <1>2 DEF DoneStays, OtherRowsStay

LEMMA ScriptsKeepDone ==
  ASSUME FInv, MigratorNext
  PROVE  DoneStays
  <1>1. ASSUME NEW s \in Scripts, CreateRun(s) PROVE DoneStays
    <2>1. RunOf[s] \in Runs /\ \A t \in Tables : runTables[RunOf[s]][t].status # "done"
      BY <1>1, CreatedFromNothing DEF FInv
    <2>2. runTables \in [Runs -> [Tables -> TableRow]]
      BY DEF FInv, LInv, OInv, RInv, TInv, MInv, StoreTypeOK
    <2>3. \A r \in Runs : r # RunOf[s] => runTables'[r] = runTables[r]
      BY <1>1, <2>2 DEF CreateRun, InsertRun
    <2> QED
      BY <2>1, <2>3 DEF DoneStays
  <1>2. ASSUME NEW s \in Scripts, RegisterNext(s) PROVE DoneStays
    <2> DEFINE r == RunOf[s]
               t == Item(s).table
               i == script[s].item
    <2>1. script[s].pc = "register" /\ i <= Len(Plan[s]) /\ i \in Nat /\ i >= 1 /\ MInv
      BY <1>2 DEF RegisterNext, At, PlanLeft, FInv, LInv, OInv, RInv, TInv, MInv, ScriptsOK,
         ScriptOK, MigratorTypeOK, ScriptState
    <2>2. i \in DOMAIN Plan[s] /\ Item(s) = Plan[s][i]
      BY <2>1, MigratorAssumptions DEF Item
    <2>3. ItemFollows(s, i) /\ r \in Runs /\ t \in Tables /\ Unregistered(script[s], i)
      BY <2>1, <2>2, ItemTypes DEF FInv, TablesFollowScripts, TablesFollow, Unregistered
    <2>4. runTables[r][t].status = "absent"
      BY Zenon, <2>2, <2>3 DEF ItemFollows, ItemFits
    <2>5. runTables \in [Runs -> [Tables -> TableRow]]
      BY <2>1 DEF MInv, StoreTypeOK
    <2>6. PICK total \in {sourceRows[t], Unknown} : RegisterTable(r, t, total)
      BY <1>2 DEF RegisterNext
    <2> HIDE DEF r, t, i
    <2>7. \A o \in Runs, u \in Tables : (o # r \/ u # t) => runTables'[o][u] = runTables[o][u]
      BY <2>3, <2>5, <2>6 DEF RegisterTable
    <2> QED
      BY <2>4, <2>7 DEF DoneStays
  <1>3. ASSUME NEW s \in Scripts, BeginDirect(s) \/ BeginStaged(s) PROVE DoneStays
    <2>1. /\ script[s].pc = "table" /\ PlanLeft(s)
          /\ SetTableStatus(RunOf[s], Item(s).table, "running")
      BY <1>3 DEF BeginDirect, BeginStaged, At
    <2>2. AtItem(s)
      BY <2>1 DEF AtItem
    <2>3. Waiting(script[s], script[s].item) /\ script[s] \in ScriptState
      BY <2>1, <2>2, AtItemFacts DEF Waiting, ScriptState
    <2>4. runTables[RunOf[s]][Item(s).table].status = "pending"
      BY <2>2, <2>3, AtItemFacts DEF ItemFits
    <2> QED
      BY <2>1, <2>2, <2>4, StatusWriteKeepsDone
  <1>4. ASSUME NEW s \in Scripts, CompleteTable(s) PROVE DoneStays
    BY <1>4, Working, StatusWriteKeepsDone DEF CompleteTable, At
  <1>5. ASSUME NEW s \in Scripts, CountsDiffer(s) \/ FailTable(s) PROVE DoneStays
    <2>1. /\ script[s].pc \in ItemPcs /\ script[s].pc # "sayTableDone"
          /\ SetTableStatus(RunOf[s], Item(s).table, "failed")
      BY <1>5 DEF CountsDiffer, FailTable, At
    <2>2. AtItem(s) /\ Current(script[s], script[s].item)
      BY <2>1, Working DEF Current
    <2>3. runTables[RunOf[s]][Item(s).table].status = "running"
      BY <2>1, <2>2, AtItemFacts DEF ItemFits
    <2> QED
      BY <2>1, <2>2, <2>3, StatusWriteKeepsDone
  <1> QED
    BY <1>1, <1>2, <1>3, <1>4, <1>5, TableSteps DEF StatusStays, DoneStays

LEMMA DoneUntilGone ==
  ASSUME FInv, [Next]_vars, NEW r \in Runs
  PROVE  Gone(r)' \/ DoneTables(r) \subseteq DoneTables(r)'
  <1>1. ASSUME NEW c \in Callers, Delete(c), UNCHANGED migratorVars
        PROVE  Gone(r)' \/ DoneTables(r) \subseteq DoneTables(r)'
    <2>1. request[c].run \in Runs /\ (r = request[c].run => Gone(r)')
      BY <1>1, DeleteMakesGone DEF FInv
    <2>2. runTables \in [Runs -> [Tables -> TableRow]]
      BY DEF FInv, LInv, OInv, RInv, TInv, MInv, StoreTypeOK
    <2>3. r # request[c].run => runTables'[r] = runTables[r]
      BY <1>1, <2>1, <2>2 DEF Delete, DeleteRun
    <2> QED
      BY <2>1, <2>3 DEF DoneTables
  <1>2. CASE MigratorNext
    BY <1>2, ScriptsKeepDone DEF DoneStays, DoneTables
  <1>3. CASE ApiNext /\ UNCHANGED migratorVars /\ ~\E c \in Callers : Delete(c)
    <2>1. UNCHANGED runTables
      <3>1. PICK c \in Callers :
              (\E q \in Requests : Accept(c, q.op, q.run)) \/ Handle(c) \/ Abort(c)
        BY <1>3 DEF ApiNext
      <3> QED
        BY <1>3, <3>1 DEF Accept, Handle, WriteFlag, Mark, Abort, SetControlFlag, WriteEvent,
           storeVars
    <2> QED
      BY <2>1 DEF DoneTables
  <1>4. CASE UNCHANGED vars
    BY <1>4 DEF vars, storeVars, DoneTables
  <1> QED
    BY <1>1, <1>2, <1>3, <1>4 DEF Next

-----------------------------------------------------------------------------
(* Which tables are judged *)

JInv == SInv /\ DiscoveredStayDone /\ JudgesDoneTables

\* A step of a call takes tables off its list, once it has it.
LEMMA ListShrinks ==
  ASSUME CInv, NEW v \in Validations, Step(v)
  PROVE  /\ \A o \in Validations : check'[o].pc \in CheckPcs =>
              \/ check[o].pc \in CheckPcs /\ check'[o].todo \subseteq check[o].todo
              \/ o = v /\ check'[v].todo = TablesToCheck(v)
         /\ RecordVerdict(v) => check[v].table \in check[v].todo
  <1>0. /\ CheckFits(check[v]) /\ check[v] \in CheckState
        /\ check \in [Validations -> CheckState] /\ OtherCallsKeep(v)
    BY CheckFacts, CheckMoves
  <1>1. ASSUME NEW o \in Validations, o # v, check'[o].pc \in CheckPcs
        PROVE  check[o].pc \in CheckPcs /\ check'[o].todo \subseteq check[o].todo
    <2>1. check'[o] = check[o]
      BY <1>0, <1>1 DEF OtherCallsKeep
    <2> QED
      BY <1>1, <2>1
  <1>2. RecordVerdict(v) => check[v].table \in check[v].todo
    BY <1>0 DEF RecordVerdict, CheckAt, CheckFits
  <1>3. CASE Discover(v)
    <2>1. check'[v].todo = TablesToCheck(v)
      BY <1>0, <1>3 DEF Discover, CheckState
    <2> QED
      BY <1>1, <1>2, <2>1
  <1>4. CASE ~Discover(v)
    <2>1. check[v].pc \in CheckPcs
      BY Zenon, <1>4 DEF Step, Validate, ClearVerdicts, CountSource, CountTarget, RecordVerdict,
         AnnounceVerdict, AllChecked, AnnounceSummary, AnnounceStep, StopValidation, CheckAt,
         CheckPcs, CountPcs, FinalPcs
    <2>2. check'[v].todo \subseteq check[v].todo
      <3>1. CASE AnnounceVerdict(v)
        BY <1>0, <3>1 DEF AnnounceVerdict, CheckState
      <3>2. CASE CountSource(v)
        BY <1>0, <3>2 DEF CountSource, CheckState
      <3>3. CASE CountTarget(v)
        BY <1>0, <3>3 DEF CountTarget, CheckState
      <3>4. CASE \/ ClearVerdicts(v) \/ RecordVerdict(v) \/ AllChecked(v)
                 \/ AnnounceSummary(v) \/ AnnounceStep(v) \/ StopValidation(v)
        BY <1>0, <3>4 DEF ClearVerdicts, RecordVerdict, AllChecked, AnnounceSummary,
           AnnounceStep, StopValidation, CheckGoto, CheckState
      <3> QED
        BY <1>4, <3>1, <3>2, <3>3, <3>4 DEF Step, Validate
    <2> QED
      BY <1>1, <1>2, <2>1, <2>2
  <1> QED
    BY <1>3, <1>4

LEMMA CallKeepsJInv ==
  ASSUME JInv, NEW v \in Validations, Step(v), UNCHANGED migratorVars
  PROVE  DiscoveredStayDone' /\ JudgesDoneTables'
  <1>0. /\ CInv /\ UNCHANGED <<runs, runTables>> /\ RowsAgree
        /\ \A o \in Validations : ValidationRun[o] \in Runs
        /\ \A r \in Runs : Gone(r)' <=> Gone(r)
        /\ validations \in [Runs -> [Tables -> Verdicts \cup {"absent"}]]
        /\ author \in [Runs -> [Tables -> Validations \cup {Unknown}]]
    BY CheckWrites, GoneStays, ValidatorAssumptions
    DEF JInv, SInv, CInv, RInv, TInv, MInv, StoreTypeOK, ValidatorTypeOK
  <1>1. DiscoveredStayDone'
    <2> SUFFICES ASSUME NEW o \in Discovers, check'[o].pc \in CheckPcs, ~Gone(ValidationRun[o])
                 PROVE  check'[o].todo \subseteq DoneTables(ValidationRun[o])
      BY <1>0, ValidatorAssumptions DEF DiscoveredStayDone, DoneTables
    <2>1. o \in Validations
      BY ValidatorAssumptions
    <2>2. CASE check[o].pc \in CheckPcs /\ check'[o].todo \subseteq check[o].todo
      BY <2>2 DEF JInv, DiscoveredStayDone
    <2>3. CASE o = v /\ check'[v].todo = TablesToCheck(v)
      BY <2>3 DEF TablesToCheck
    <2> QED
      BY <1>0, <2>1, <2>2, <2>3, ListShrinks
  <1>2. JudgesDoneTables'
    <2>1. CASE RecordVerdict(v)
      <3> DEFINE r == ValidationRun[v]
                 t == check[v].table
      <3>1. r \in Runs /\ RunExists(r) /\ ~Gone(r) /\ t \in check[v].todo /\ t \in Tables
        BY <1>0, <2>1, ListShrinks, CheckFacts DEF RecordVerdict, RecordValidation, Gone, CheckAt
      <3>2. v \in Discovers => runTables[r][t].status = "done"
        BY <2>1, <3>1 DEF JInv, DiscoveredStayDone, RecordVerdict, CheckAt, CheckPcs, CountPcs,
           DoneTables
      <3>3. /\ author' = [author EXCEPT ![r][t] = v]
            /\ \A o \in Runs, u \in Tables : o # r \/ u # t =>
                 validations'[o][u] = validations[o][u]
        BY <1>0, <2>1, <3>1 DEF RecordVerdict, RecordValidation
      <3> HIDE DEF r, t
      <3> QED
        BY <1>0, <3>1, <3>2, <3>3 DEF JInv, JudgesDoneTables
    <2>2. CASE ClearVerdicts(v)
      BY <1>0, <2>2 DEF ClearVerdicts, ClearValidations, JInv, JudgesDoneTables
    <2>3. CASE ~ClearVerdicts(v) /\ ~RecordVerdict(v)
      <3>1. UNCHANGED author
        BY Zenon, <2>3 DEF Step, Validate, Discover, CountSource, CountTarget,
           AnnounceVerdict, AllChecked, AnnounceSummary, AnnounceStep, StopValidation
      <3>2. UNCHANGED validations
        BY <1>0, <2>3, CheckWrites
      <3> QED
        BY <1>0, <3>1, <3>2 DEF JInv, JudgesDoneTables
    <2> QED
      BY <2>1, <2>2, <2>3
  <1> QED
    BY <1>1, <1>2

LEMMA ScriptKeepsJInv ==
  ASSUME JInv, SInv', [Next]_vars, UNCHANGED validatorVars
  PROVE  DiscoveredStayDone' /\ JudgesDoneTables'
  <1>0. FInv /\ LInv /\ UNCHANGED <<check, author>> /\ RowsAgree'
    BY DEF JInv, SInv, FInv, CInv, RInv, TInv, validatorVars
  <1>1. DiscoveredStayDone'
    <2> SUFFICES ASSUME NEW o \in Discovers, check[o].pc \in CheckPcs
                 PROVE  \/ Gone(ValidationRun[o])'
                        \/ check[o].todo \subseteq DoneTables(ValidationRun[o])'
      BY <1>0 DEF DiscoveredStayDone
    <2>1. ValidationRun[o] \in Runs
      BY ValidatorAssumptions
    <2>2. Gone(ValidationRun[o]) \/ check[o].todo \subseteq DoneTables(ValidationRun[o])
      BY DEF JInv, DiscoveredStayDone
    <2> QED
      BY <1>0, <2>1, <2>2, GoneForGood, DoneUntilGone
  <1>2. JudgesDoneTables'
    <2> SUFFICES ASSUME NEW r \in Runs, NEW t \in Tables,
                        validations'[r][t] # "absent", author[r][t] \in Discovers
                 PROVE  runTables'[r][t].status = "done"
      BY <1>0 DEF JudgesDoneTables
    <2>1. validations'[r][t] \in {validations[r][t], "absent"}
      BY VerdictsShrink DEF JInv, SInv, CInv, RInv, TInv, MInv
    <2>2. t \in DoneTables(r)
      BY <2>1 DEF JInv, JudgesDoneTables, DoneTables
    <2>3. ~Gone(r)'
      BY <1>0 DEF RowsAgree, Gone
    <2>4. t \in DoneTables(r)'
      BY <1>0, <2>2, <2>3, DoneUntilGone
    <2> QED
      BY <2>4 DEF DoneTables
  <1> QED
    BY <1>1, <1>2

LEMMA InitJInv == SystemInit => JInv
  BY InitSInv, ValidatorAssumptions
  DEF SystemInit, JInv, ValidatorInit, DiscoveredStayDone, JudgesDoneTables,
     CheckPcs, CountPcs, FinalPcs, Init, StoreInit

LEMMA NextJInv == Environment /\ JInv /\ [SystemNext]_systemVars => JInv'
  <1> SUFFICES ASSUME Environment, JInv, [SystemNext]_systemVars
               PROVE  DiscoveredStayDone' /\ JudgesDoneTables'
    BY NextSInv DEF JInv
  <1>1. SInv'
    BY NextSInv DEF JInv
  <1>2. CASE [Next]_vars /\ UNCHANGED validatorVars
    BY <1>1, <1>2, ScriptKeepsJInv
  <1>3. CASE ValidatorNext /\ UNCHANGED <<migratorVars, apiVars>>
    BY <1>3, CallKeepsJInv DEF ValidatorNext, Step
  <1> QED
    BY <1>2, <1>3 DEF SystemNext, systemVars

\* A call that discovers its tables gives no verdict to a table that is not
\* done, whatever scripts, deletes and other calls do between its discovery, its
\* counts and its rows; overlapping calls included.
THEOREM OnlyDoneTablesJudged ==
  ASSUME SerialDispatch, FreshIds, TablesOnce
  PROVE  SystemSpec => []JudgesDoneTables
  <1>1. JInv => JudgesDoneTables
    BY DEF JInv
  <1>2. JInv /\ [SystemNext]_systemVars => JInv'
    BY NextJInv DEF Environment
  <1> QED
    BY <1>1, <1>2, InitJInv, PTL DEF SystemSpec

-----------------------------------------------------------------------------
(* What a match means *)

KInv == CInv /\ CountsAreSafe /\ MatchMeansLanded

\* The writes to a row of run_tables, but for its registration.
LEMMA UpdatesAddNoRow ==
  ASSUME StoreTypeOK, NEW r \in Runs, NEW t \in Tables, NEW a, NEW b,
         \/ SetTableStatus(r, t, a) \/ SetTablePhase(r, t, a)
         \/ RecordBatch(r, t, a, b) \/ RecordStagedLoad(r, t, a)
  PROVE  \A o \in Runs, u \in Tables : TableExists(o, u)' => TableExists(o, u)
  <1>1. OtherRowsStay(r, t)
    BY StatusWritten, PhaseWritten, BatchWritten, LoadWritten
  <1>2. ~TableExists(r, t) => runTables' = runTables
    BY DEF SetTableStatus, SetTablePhase, RecordBatch, RecordStagedLoad
  <1>3. CASE TableExists(r, t)
    BY <1>1, <1>3 DEF OtherRowsStay, TableExists
  <1>4. CASE runTables' = runTables
    BY <1>4 DEF TableExists
  <1> QED
    BY <1>2, <1>3, <1>4

LEMMA RowsArePlanned ==
  ASSUME CInv, OnlyPlanned, [Next]_vars
  PROVE  OnlyPlanned'
  <1> DEFINE NoNewRow == \A o \in Runs, u \in Tables : TableExists(o, u)' => TableExists(o, u)
  <1>0. MInv /\ StoreTypeOK /\ TInv
    BY DEF CInv, RInv, TInv, MInv
  <1>1. NoNewRow => OnlyPlanned'
    BY DEF OnlyPlanned, Migrates
  <1>2. UNCHANGED runTables => NoNewRow
    BY DEF TableExists
  <1> HIDE DEF NoNewRow
  <1>3. ASSUME NEW s \in Scripts, RegisterNext(s) PROVE OnlyPlanned'
    <2> DEFINE r == RunOf[s]
               t == Item(s).table
    <2>1. r \in Runs /\ t \in Tables
      BY <1>0, <1>3, ItemTyped DEF RegisterNext
    <2>2. script[s].item \in DOMAIN Plan[s] /\ Item(s) = Plan[s][script[s].item]
      BY <1>0, <1>3, MigratorAssumptions
      DEF RegisterNext, PlanLeft, MInv, MigratorTypeOK, ScriptsOK, ScriptOK, ScriptState, Item
    <2>3. Migrates(r, t)
      BY <2>2 DEF Migrates
    <2>4. PICK total \in {sourceRows[t], Unknown} : RegisterTable(r, t, total)
      BY <1>3 DEF RegisterNext
    <2>5. \A o \in Runs, u \in Tables : o # r \/ u # t => runTables'[o][u] = runTables[o][u]
      BY <1>0, <2>1, <2>4 DEF RegisterTable, StoreTypeOK
    <2> HIDE DEF r, t
    <2> QED
      BY <2>3, <2>5 DEF OnlyPlanned, TableExists, Migrates
  <1>4. ASSUME NEW s \in Scripts, NEW a, NEW b, script[s].pc \in ItemPcs \/ PlanLeft(s),
               \/ SetTableStatus(RunOf[s], Item(s).table, a)
               \/ SetTablePhase(RunOf[s], Item(s).table, a)
               \/ RecordBatch(RunOf[s], Item(s).table, a, b)
               \/ RecordStagedLoad(RunOf[s], Item(s).table, a)
        PROVE  NoNewRow
    <2>1. RunOf[s] \in Runs /\ Item(s).table \in Tables
      BY <1>0, <1>4, ItemTyped
    <2> QED
      BY <1>0, <1>4, <2>1, UpdatesAddNoRow DEF NoNewRow
  <1>5. ASSUME NEW s \in Scripts, DirectStep(s) PROVE NoNewRow
    <2>1. CASE BeginDirect(s) \/ RecordInserted(s)
      BY <1>4, <2>1 DEF BeginDirect, RecordInserted, At
    <2>2. CASE OpenCursor(s) \/ FetchBatch(s) \/ CursorEmpty(s) \/ InsertBatch(s)
      BY <1>2, <2>2 DEF OpenCursor, FetchBatch, CursorEmpty, InsertBatch, storeVars
    <2> QED
      BY <1>5, <2>1, <2>2 DEF DirectStep
  <1>6. ASSUME NEW s \in Scripts, StagedStep(s) PROVE NoNewRow
    <2>1. CASE \/ BeginStaged(s) \/ CountsDiffer(s) \/ RecordLoaded(s) \/ LeavePhases(s)
               \/ EnterUnloading(s) \/ EnterStaged(s) \/ EnterLoading(s) \/ EnterValidating(s)
      BY <1>4, <2>1 DEF BeginStaged, CountsDiffer, RecordLoaded, LeavePhases, EnterUnloading,
         EnterStaged, EnterLoading, EnterValidating, EnterPhase, At
    <2>2. CASE \/ RejectStrategy(s) \/ Unload(s) \/ CountBaseline(s) \/ LoadStaged(s)
               \/ CountLoaded(s) \/ CountsMatch(s) \/ CleanUp(s)
      BY <1>2, <2>2 DEF RejectStrategy, Unload, CountBaseline, LoadStaged, CountLoaded,
         CountsMatch, CleanUp, storeVars
    <2> QED
      BY <1>6, <2>1, <2>2 DEF StagedStep
  <1>7. ASSUME NEW s \in Scripts, ControlStep(s) PROVE NoNewRow
    BY <1>2, <1>7 DEF ControlStep, ReadFlag, MarkPaused, AnnouncePause, PollFlag, MarkRunning,
       AnnounceResume, AnnounceCancel, SetRunStatus, WriteEvent, storeVars
  <1>8. ASSUME NEW s \in Scripts, RunStep(s), ~RegisterNext(s) PROVE NoNewRow
    <2>1. CASE CompleteTable(s)
      BY <1>4, <2>1 DEF CompleteTable, At
    <2>2. CASE CreateRun(s)
      BY <1>0, <2>2 DEF CreateRun, InsertRun, NoTable, StoreTypeOK, NoNewRow, TableExists
    <2>3. CASE ~CompleteTable(s) /\ ~CreateRun(s)
      BY <1>2, <1>8, <2>3 DEF RunStep, AnnounceStart, Preflight, AllRegistered, AnnounceTable,
         PlanDone, FinishRun, AnnounceFinish, Exit, EndRun, WriteEvent, storeVars
    <2> QED
      BY <2>1, <2>2, <2>3
  <1>9. ASSUME NEW s \in Scripts,
               Launch(s) \/ Fail(s) \/ FailTable(s) \/ LandLate(s) \/ Kill(s)
        PROVE  NoNewRow
    <2>1. CASE FailTable(s)
      BY <1>4, <2>1 DEF FailTable
    <2>2. CASE ~FailTable(s)
      BY <1>2, <1>9, <2>2 DEF Launch, CheckNoActiveRun, RefuseRun, Fail, LandLate, Kill,
         storeVars
    <2> QED
      BY <2>1, <2>2
  <1>10. ASSUME NEW t \in Tables, SourceInsert(t) PROVE NoNewRow
    BY <1>2, <1>10 DEF SourceInsert, storeVars
  <1>11. ASSUME ApiNext PROVE NoNewRow
    <2>1. PICK c \in Callers :
            (\E q \in Requests : Accept(c, q.op, q.run)) \/ Handle(c) \/ Abort(c)
      BY <1>11 DEF ApiNext
    <2>2. CASE Delete(c)
      <3>1. request[c].run \in Runs
        BY <1>0, <2>1, <2>2, InFlight DEF Delete, TInv
      <3>2. \A o \in Runs, u \in Tables : runTables'[o][u] \in {runTables[o][u], NoTable}
        BY <1>0, <2>2, <3>1 DEF Delete, DeleteRun, StoreTypeOK
      <3> QED
        BY <3>2 DEF NoTable, NoNewRow, TableExists
    <2>3. CASE ~Delete(c)
      <3>1. UNCHANGED runTables
        BY <2>1, <2>3 DEF Accept, Handle, WriteFlag, Mark, Abort, SetControlFlag, WriteEvent,
           storeVars
      <3> QED
        BY <1>2, <3>1
    <2> QED
      BY <2>2, <2>3
  <1> QED
    BY <1>1, <1>2, <1>3, <1>5, <1>6, <1>7, <1>8, <1>9, <1>10, <1>11
    DEF Next, MigratorNext, Proceed, vars, storeVars

LEMMA SourceSteps ==
  ASSUME Next, sourceRows' # sourceRows
  PROVE  \E t \in Tables : SourceInsert(t)
  <1> SUFFICES ASSUME NEW s \in Scripts,
                      Launch(s) \/ Proceed(s) \/ Fail(s) \/ FailTable(s) \/ LandLate(s) \/ Kill(s)
               PROVE  FALSE
    BY DEF Next, MigratorNext, migratorVars, dataVars
  <1>1. ~(Launch(s) \/ Fail(s) \/ FailTable(s) \/ LandLate(s) \/ Kill(s))
    BY DEF Launch, CheckNoActiveRun, RefuseRun, Fail, FailTable, LandLate, Kill, dataVars
  <1>2. ~DirectStep(s)
    BY DEF DirectStep, BeginDirect, OpenCursor, FetchBatch, CursorEmpty, InsertBatch,
       RecordInserted, dataVars
  <1>3. ~StagedStep(s)
    BY DEF StagedStep, BeginStaged, RejectStrategy, EnterPhase, EnterUnloading, Unload,
       LoadStaged, EnterStaged, EnterLoading, CountBaseline, CountLoaded, EnterValidating,
       CountsMatch, CountsDiffer, CleanUp, RecordLoaded, LeavePhases, dataVars
  <1>4. ~ControlStep(s)
    BY DEF ControlStep, ReadFlag, MarkPaused, AnnouncePause, PollFlag, MarkRunning,
       AnnounceResume, AnnounceCancel, dataVars
  <1>5. ~RunStep(s)
    BY DEF RunStep, CreateRun, AnnounceStart, Preflight, RegisterNext, AllRegistered,
       CompleteTable, AnnounceTable, PlanDone, FinishRun, AnnounceFinish, Exit, dataVars
  <1> QED
    BY <1>1, <1>2, <1>3, <1>4, <1>5 DEF Proceed

LandedGrows == \A r \in Runs, t \in Tables : landed'[r][t] >= landed[r][t]

\* What lands, lands in the target of the table and counts for the run.
LEMMA LandsInItsTarget ==
  ASSUME OwnTargets, CInv, TargetIsLanded, NEW s \in Scripts, NEW rows \in Nat,
         PlanLeft(s), Land(s, rows)
  PROVE  TargetIsLanded' /\ LandedGrows
  <1> DEFINE r == RunOf[s]
             t == Item(s).table
             k == Item(s).target
  <1>0. /\ r \in Runs /\ t \in Tables /\ k \in TargetTables
        /\ target \in [TargetTables -> Nat] /\ landed \in [Runs -> [Tables -> Nat]]
    BY ItemTyped DEF CInv, RInv, TInv, MInv, MigratorTypeOK
  <1>1. /\ target' = [target EXCEPT ![k] = @ + rows]
        /\ landed' = [landed EXCEPT ![r][t] = @ + rows]
    BY DEF Land
  <1>2. script[s].item \in DOMAIN Plan[s] /\ Item(s) = Plan[s][script[s].item]
    BY MigratorAssumptions
    DEF PlanLeft, CInv, RInv, TInv, MInv, MigratorTypeOK, ScriptsOK, ScriptOK, ScriptState, Item
  <1>3. ASSUME NEW o \in Runs, NEW u \in Tables, Migrates(o, u), NamedTarget[u] = k
        PROVE  o = r /\ u = t
    <2>1. PICK p \in Scripts :
            RunOf[p] = o /\ \E j \in DOMAIN Plan[p] : Plan[p][j].table = u
      BY <1>3 DEF Migrates
    <2>2. PICK j \in DOMAIN Plan[p] : Plan[p][j].table = u
      BY <2>1
    <2>3. Plan[p][j].target = k
      BY <1>3, <2>2 DEF OwnTargets
    <2>4. o = r
      BY <1>2, <2>1, <2>3 DEF OwnTargets
    <2>5. u = t
      BY <1>2, <1>3 DEF OwnTargets
    <2> QED
      BY <2>4, <2>5
  <1> HIDE DEF r, t, k
  <1>4. LandedGrows
    BY <1>0, <1>1 DEF LandedGrows
  <1>5. ASSUME NEW o \in Runs, NEW u \in Tables, Migrates(o, u)
        PROVE  target'[NamedTarget[u]] <= landed'[o][u]
    <2>1. /\ NamedTarget[u] \in TargetTables /\ target[NamedTarget[u]] <= landed[o][u]
      BY <1>5, ValidatorAssumptions DEF TargetIsLanded
    <2>2. CASE NamedTarget[u] = k
      BY <1>0, <1>1, <1>3, <1>5, <2>1, <2>2
    <2>3. CASE NamedTarget[u] # k
      BY <1>0, <1>1, <1>4, <2>1, <2>3 DEF LandedGrows
    <2> QED
      BY <2>2, <2>3
  <1> QED
    BY <1>4, <1>5 DEF TargetIsLanded, Migrates

LEMMA LandingIsSafe ==
  ASSUME OwnTargets, CInv, TargetIsLanded, [Next]_vars
  PROVE  TargetIsLanded' /\ LandedGrows
  <1>0. /\ script \in [Scripts -> ScriptState] /\ staged \in [Runs -> [Tables -> Nat]]
        /\ landed \in [Runs -> [Tables -> Nat]] /\ MInv
    BY DEF CInv, RInv, TInv, MInv, MigratorTypeOK
  <1>1. CASE UNCHANGED <<target, landed>>
    BY <1>0, <1>1 DEF TargetIsLanded, LandedGrows, Migrates
  <1>2. ASSUME NEW s \in Scripts, InsertBatch(s) \/ LoadStaged(s) \/ LandLate(s)
        PROVE  PlanLeft(s) /\ \E rows \in Nat : Land(s, rows)
    <2>1. PlanLeft(s)
      BY <1>0, <1>2 DEF InsertBatch, LoadStaged, LandLate, At, MInv, ScriptsOK, ScriptOK
    <2>2. RunOf[s] \in Runs /\ Item(s).table \in Tables
      BY <1>0, <2>1, ItemTyped
    <2>3. script[s].batch \in Nat /\ staged[RunOf[s]][Item(s).table] \in Nat
      BY <1>0, <2>2 DEF ScriptState
    <2> QED
      BY <1>2, <2>1, <2>3 DEF InsertBatch, LoadStaged, LandLate
  <1>3. CASE Next /\ ~UNCHANGED <<target, landed>>
    BY <1>2, <1>3, LandingSteps, LandsInItsTarget
  <1> QED
    BY <1>1, <1>3 DEF vars, migratorVars, dataVars

\* A step of a call counts what is there.
LEMMA CountsStaySafe ==
  ASSUME OwnTargets, KInv, NEW v \in Validations, Step(v), UNCHANGED migratorVars
  PROVE  MatchInHandMeansLanded'
  <1> USE DEF CheckAt
  <1> DEFINE r == ValidationRun[v]
             Safe(y) ==
               /\ \A t \in y.todo : Migrates(r, t)
               /\ y.pc = "target" => y.source = Unknown \/ y.source >= InitialRows[y.table]
               /\ \A t \in Tables : y.results[t] = "match" => landed[r][t] >= InitialRows[t]
  <1>0. /\ CInv /\ r \in Runs /\ UNCHANGED <<landed, target, sourceRows>>
        /\ OtherCallsKeep(v) /\ check[v] \in CheckState
        /\ check \in [Validations -> CheckState]
        /\ check[v].pc \in {"target", "record", "sayRow"} =>
             check[v].table \in Tables /\ check[v].table \in check[v].todo
        /\ InitialRows \in [Tables -> Nat] /\ sourceRows \in [Tables -> Nat]
    BY CheckFacts, CheckMoves, MigratorAssumptions
    DEF KInv, migratorVars, dataVars, CheckFits, CInv, RInv, TInv, MInv, MigratorTypeOK
  <1>1. Safe(check[v])
    BY DEF KInv, CountsAreSafe, MatchInHandMeansLanded
  <1>2. Safe(check'[v])
    <2>1. CASE Discover(v)
      <3>1. /\ check'[v].todo = TablesToCheck(v) /\ check'[v].pc = "clear"
            /\ check'[v].results = check[v].results
        BY <1>0, <2>1 DEF Discover, CheckState
      <3>2. \A t \in TablesToCheck(v) : Migrates(r, t)
        <4>1. CASE v \in Discovers
          BY <1>0, <4>1 DEF TablesToCheck, DoneTables, KInv, CountsAreSafe, OnlyPlanned,
             TableExists
        <4>2. CASE v \notin Discovers
          BY <4>2 DEF TablesToCheck, OwnTargets
        <4> QED
          BY <4>1, <4>2
      <3> QED
        BY <1>1, <3>1, <3>2
    <2>2. CASE CountSource(v)
      <3>1. PICK t \in check[v].todo : \E rows \in {sourceRows[t], Unknown} :
              check' = [check EXCEPT ![v].pc = "target", ![v].table = t, ![v].source = rows]
        BY <2>2 DEF CountSource
      <3>2. PICK rows \in {sourceRows[t], Unknown} :
              check' = [check EXCEPT ![v].pc = "target", ![v].table = t, ![v].source = rows]
        BY <3>1
      <3>3. /\ check'[v].todo = check[v].todo /\ check'[v].results = check[v].results
            /\ check'[v].table = t /\ check'[v].source = rows
        BY <1>0, <3>2 DEF CheckState
      <3>4. t \in Tables
        BY <1>0, <3>1 DEF CheckState
      <3>5. rows = Unknown \/ rows >= InitialRows[t]
        BY <3>2, <3>4 DEF KInv, CountsAreSafe, SourceGrows
      <3> QED
        BY <1>1, <3>3, <3>5
    <2>3. CASE CountTarget(v)
      <3> DEFINE t == check[v].table
      <3>1. PICK rows \in {target[NamedTarget[t]], Unknown} :
              check' = [check EXCEPT ![v].pc = "record",
                                     ![v].results[t] = Verdict(check[v].source, rows)]
        BY <2>3 DEF CountTarget
      <3>2. t \in Tables /\ Migrates(r, t) /\ check[v].pc = "target"
        BY <1>0, <1>1, <2>3 DEF CountTarget
      <3>3. /\ target[NamedTarget[t]] <= landed[r][t] /\ target[NamedTarget[t]] \in Nat
            /\ landed[r][t] \in Nat /\ InitialRows[t] \in Nat
        BY <1>0, <3>2, ValidatorAssumptions
        DEF KInv, CountsAreSafe, TargetIsLanded, CInv, RInv, TInv, MInv, MigratorTypeOK
      <3>4. Verdict(check[v].source, rows) = "match" => landed[r][t] >= InitialRows[t]
        <4>1. SUFFICES ASSUME check[v].source # Unknown, rows # Unknown, check[v].source = rows
                       PROVE  landed[r][t] >= InitialRows[t]
          BY DEF Verdict
        <4>2. rows = target[NamedTarget[t]] /\ check[v].source >= InitialRows[t]
          BY <1>1, <3>1, <3>2, <4>1
        <4> QED
          BY <3>3, <4>1, <4>2
      <3>5. /\ check'[v].todo = check[v].todo /\ check'[v].pc = "record"
            /\ check'[v].results[t] = Verdict(check[v].source, rows)
            /\ \A u \in Tables : u # t => check'[v].results[u] = check[v].results[u]
        BY <1>0, <3>1, <3>2 DEF CheckState
      <3> HIDE DEF t
      <3> QED
        BY <1>1, <3>4, <3>5
    <2>4. CASE AnnounceVerdict(v)
      <3>1. /\ check'[v].todo \subseteq check[v].todo /\ check'[v].pc = "next"
            /\ check'[v].results = check[v].results
        BY <1>0, <2>4 DEF AnnounceVerdict, CheckState
      <3> QED
        BY <1>1, <3>1
    <2>5. CASE \/ ClearVerdicts(v) \/ RecordVerdict(v) \/ AllChecked(v)
               \/ AnnounceSummary(v) \/ AnnounceStep(v) \/ StopValidation(v)
      <3>1. /\ check'[v].todo = check[v].todo /\ check'[v].pc # "target"
            /\ check'[v].results = check[v].results
        BY <1>0, <2>5 DEF ClearVerdicts, RecordVerdict, AllChecked, AnnounceSummary,
           AnnounceStep, StopValidation, CheckGoto, CheckState
      <3> QED
        BY <1>1, <3>1
    <2> QED
      BY <2>1, <2>2, <2>3, <2>4, <2>5 DEF Step, Validate
  <1> QED
    BY <1>0, <1>2 DEF MatchInHandMeansLanded, OtherCallsKeep, KInv, CountsAreSafe, Migrates

LEMMA InitKInv == ASSUME OwnTargets PROVE SystemInit => KInv
  <1> SUFFICES ASSUME SystemInit PROVE CountsAreSafe /\ MatchMeansLanded
    BY InitCInv DEF KInv
  <1> USE DEF SystemInit, ValidatorInit, Init, StoreInit, MigratorInit
  <1>1. SourceGrows
    BY MigratorAssumptions DEF SourceGrows
  <1>2. OnlyPlanned
    BY DEF OnlyPlanned, TableExists, NoTable
  <1>3. TargetIsLanded
    BY ValidatorAssumptions DEF TargetIsLanded, OwnTargets
  <1>4. MatchInHandMeansLanded
    BY DEF MatchInHandMeansLanded, CheckAt, NoVerdicts
  <1>5. MatchMeansLanded
    BY DEF MatchMeansLanded
  <1> QED
    BY <1>1, <1>2, <1>3, <1>4, <1>5 DEF CountsAreSafe

LEMMA ScriptsKeepKInv ==
  ASSUME OwnTargets, KInv, [Next]_vars, UNCHANGED validatorVars
  PROVE  CountsAreSafe' /\ MatchMeansLanded'
  <1>0. /\ CInv /\ StoreTypeOK /\ TInv /\ UNCHANGED check
        /\ sourceRows \in [Tables -> Nat] /\ landed \in [Runs -> [Tables -> Nat]]
        /\ InitialRows \in [Tables -> Nat] /\ TargetIsLanded /\ OnlyPlanned
        /\ \A v \in Validations : ValidationRun[v] \in Runs
    BY MigratorAssumptions, ValidatorAssumptions
    DEF KInv, CountsAreSafe, CInv, RInv, TInv, MInv, MigratorTypeOK, validatorVars
  <1>1. SourceGrows'
    <2>1. CASE UNCHANGED sourceRows
      BY <2>1 DEF KInv, CountsAreSafe, SourceGrows
    <2>2. ASSUME NEW t \in Tables, SourceInsert(t) PROVE SourceGrows'
      BY <1>0, <2>2 DEF SourceInsert, KInv, CountsAreSafe, SourceGrows
    <2> QED
      BY <2>1, <2>2, SourceSteps DEF vars, migratorVars, dataVars
  <1>2. OnlyPlanned'
    BY <1>0, RowsArePlanned
  <1>3. TargetIsLanded' /\ LandedGrows
    BY <1>0, LandingIsSafe
  <1>4. \A r \in Runs, t \in Tables : landed'[r][t] \in Nat
    BY NextRInv DEF KInv, CInv, RInv, TInv, MInv, MigratorTypeOK
  <1>5. MatchInHandMeansLanded'
    <2> SUFFICES ASSUME NEW v \in Validations
                 PROVE  /\ \A t \in check[v].todo : Migrates(ValidationRun[v], t)
                        /\ CheckAt(v, "target") =>
                             \/ check[v].source = Unknown
                             \/ check[v].source >= InitialRows[check[v].table]
                        /\ \A t \in Tables : check[v].results[t] = "match" =>
                             landed'[ValidationRun[v]][t] >= InitialRows[t]
      BY <1>0 DEF MatchInHandMeansLanded, CheckAt, Migrates
    <2>1. \A t \in Tables : check[v].results[t] = "match" =>
            landed[ValidationRun[v]][t] >= InitialRows[t]
      BY DEF KInv, CountsAreSafe, MatchInHandMeansLanded
    <2>2. \A t \in Tables : check[v].results[t] = "match" =>
            landed'[ValidationRun[v]][t] >= InitialRows[t]
      BY <1>0, <1>3, <1>4, <2>1 DEF LandedGrows
    <2> QED
      BY <2>2 DEF KInv, CountsAreSafe, MatchInHandMeansLanded
  <1>6. MatchMeansLanded'
    <2> SUFFICES ASSUME NEW r \in Runs, NEW t \in Tables, validations'[r][t] = "match"
                 PROVE  landed'[r][t] >= InitialRows[t]
      BY DEF MatchMeansLanded
    <2>1. validations[r][t] = "match"
      BY <1>0, VerdictsShrink
    <2> QED
      BY <1>0, <1>3, <1>4, <2>1 DEF KInv, MatchMeansLanded, LandedGrows
  <1> QED
    BY <1>1, <1>2, <1>3, <1>5, <1>6 DEF CountsAreSafe

LEMMA CallsKeepKInv ==
  ASSUME OwnTargets, KInv, NEW v \in Validations, Step(v), UNCHANGED migratorVars
  PROVE  CountsAreSafe' /\ MatchMeansLanded'
  <1>0. /\ CInv /\ UNCHANGED <<landed, target, sourceRows, runTables>>
        /\ ValidationRun[v] \in Runs
        /\ validations \in [Runs -> [Tables -> Verdicts \cup {"absent"}]]
    BY CheckWrites, CheckFacts
    DEF KInv, migratorVars, dataVars, CInv, RInv, TInv, MInv, StoreTypeOK
  <1>1. SourceGrows' /\ OnlyPlanned' /\ TargetIsLanded'
    BY <1>0 DEF KInv, CountsAreSafe, SourceGrows, OnlyPlanned, TargetIsLanded, TableExists,
       Migrates
  <1>2. MatchMeansLanded'
    <2>1. CASE ClearVerdicts(v)
      BY <1>0, <2>1 DEF ClearVerdicts, ClearValidations, KInv, MatchMeansLanded
    <2>2. CASE RecordVerdict(v)
      <3> DEFINE r == ValidationRun[v]
                 t == check[v].table
      <3>1. t \in Tables /\ validations' = [validations EXCEPT ![r][t] = check[v].results[t]]
        BY <1>0, <2>2, CheckFacts DEF RecordVerdict, RecordValidation, CheckAt
      <3>2. check[v].results[t] = "match" => landed[r][t] >= InitialRows[t]
        BY <3>1 DEF KInv, CountsAreSafe, MatchInHandMeansLanded
      <3> HIDE DEF r, t
      <3> QED
        BY <1>0, <3>1, <3>2 DEF KInv, MatchMeansLanded
    <2>3. CASE ~ClearVerdicts(v) /\ ~RecordVerdict(v)
      <3>1. UNCHANGED validations
        BY <1>0, <2>3, CheckWrites
      <3> QED
        BY <1>0, <3>1 DEF KInv, MatchMeansLanded
    <2> QED
      BY <2>1, <2>2, <2>3
  <1> QED
    BY <1>1, <1>2, CountsStaySafe DEF CountsAreSafe

LEMMA NextKInv == OwnTargets /\ KInv /\ [SystemNext]_systemVars => KInv'
  <1> SUFFICES ASSUME OwnTargets, KInv, [SystemNext]_systemVars
               PROVE  CountsAreSafe' /\ MatchMeansLanded'
    BY NextCInv DEF KInv
  <1>1. CASE [Next]_vars /\ UNCHANGED validatorVars
    BY <1>1, ScriptsKeepKInv
  <1>2. CASE ValidatorNext /\ UNCHANGED <<migratorVars, apiVars>>
    BY <1>2, CallsKeepKInv DEF ValidatorNext, Step
  <1> QED
    BY <1>1, <1>2 DEF SystemNext, systemVars

\* With targets that were empty and are the run's own, a table that was judged
\* 'match' has at least the rows that its source had at the start, although both
\* counts are taken while rows arrive on either side.
THEOREM MatchIsLanded ==
  ASSUME OwnTargets
  PROVE  SystemSpec => []MatchMeansLanded
  <1>1. KInv => MatchMeansLanded
    BY DEF KInv
  <1>2. KInv /\ [SystemNext]_systemVars => KInv'
    BY NextKInv
  <1> QED
    BY <1>1, <1>2, InitKInv, PTL DEF SystemSpec
=============================================================================
