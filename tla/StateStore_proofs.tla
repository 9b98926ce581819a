-------------------------- MODULE StateStore_proofs --------------------------
(***************************************************************************)
(* What every transaction of the store preserves, whoever runs it: the     *)
(* types of the tables, and the agreement of their rows.                   *)
(***************************************************************************)
EXTENDS StateStore, WellFoundedInduction, TLAPS

-----------------------------------------------------------------------------
\* Replacing one row, or all rows of a run, keeps the type of run_tables.
LEMMA PutRow ==
  ASSUME NEW f \in [Runs -> [Tables -> TableRow]],
         NEW r \in Runs, NEW t \in Tables, NEW row \in TableRow
  PROVE  [f EXCEPT ![r][t] = row] \in [Runs -> [Tables -> TableRow]]
  OBVIOUS

LEMMA NoTablesType == [t \in Tables |-> NoTable] \in [Tables -> TableRow]
  <1>1. NoTable \in TableRow
    BY DEF NoTable, TableRow, Phases
  <1> QED
    BY <1>1

LEMMA NoRunType == NoRun \in RunRow
  BY DEF NoRun, RunRow

LEMMA StoreInitType == StoreInit => StoreTypeOK
  <1> SUFFICES ASSUME StoreInit PROVE StoreTypeOK
    OBVIOUS
  <1>1. runs \in [Runs -> RunRow]
    BY NoRunType DEF StoreInit
  <1>2. runTables \in [Runs -> [Tables -> TableRow]]
    BY NoTablesType DEF StoreInit
  <1>3. batches \in [Runs -> SUBSET BatchRow]
    BY DEF StoreInit
  <1>4. events \in [Runs -> Seq(EventKinds)]
    BY DEF StoreInit
  <1> QED
    BY <1>1, <1>2, <1>3, <1>4 DEF StoreInit, StoreTypeOK

\* A store left alone keeps its types.
LEMMA StoreStutterType ==
  ASSUME StoreTypeOK, UNCHANGED storeVars
  PROVE  StoreTypeOK'
  BY DEF StoreTypeOK, storeVars

LEMMA InsertRunType ==
  ASSUME StoreTypeOK, NEW r \in Runs, InsertRun(r)
  PROVE  StoreTypeOK'
  <1>1. [status |-> "running", ended |-> FALSE] \in RunRow
    BY DEF RunRow, ActiveStatus
  <1>2. runTables' \in [Runs -> [Tables -> TableRow]]
    BY NoTablesType DEF StoreTypeOK, InsertRun
  <1>3. controls' \in [Runs -> Flags \cup {"absent"}]
    BY DEF StoreTypeOK, InsertRun, Flags
  <1> QED
    BY <1>1, <1>2, <1>3 DEF StoreTypeOK, InsertRun

LEMMA EndRunType ==
  ASSUME StoreTypeOK, NEW r \in Runs, NEW st \in TerminalStatus, EndRun(r, st)
  PROVE  StoreTypeOK'
  BY DEF StoreTypeOK, EndRun, RunRow

LEMMA SetRunStatusType ==
  ASSUME StoreTypeOK, NEW r \in Runs, NEW st \in ActiveStatus, SetRunStatus(r, st)
  PROVE  StoreTypeOK'
  BY DEF StoreTypeOK, SetRunStatus, RunRow

LEMMA RegisterTableType ==
  ASSUME StoreTypeOK, NEW r \in Runs, NEW t \in Tables,
         NEW total \in Nat \cup {Unknown}, RegisterTable(r, t, total)
  PROVE  StoreTypeOK'
  <1>1. [status |-> "pending", total |-> total, done |-> 0, phase |-> "none"]
          \in TableRow
    BY DEF TableRow, TableStatus, Phases
  <1>2. runTables' \in [Runs -> [Tables -> TableRow]]
    BY <1>1, PutRow DEF StoreTypeOK, RegisterTable
  <1> QED
    BY <1>2 DEF StoreTypeOK, RegisterTable

LEMMA SetTableStatusType ==
  ASSUME StoreTypeOK, NEW r \in Runs, NEW t \in Tables,
         NEW st \in TableStatus, SetTableStatus(r, t, st)
  PROVE  StoreTypeOK'
  <1>1. runTables[r][t] \in TableRow
    BY DEF StoreTypeOK
  <1>2. [runTables[r][t] EXCEPT !.status = st] \in TableRow
    BY <1>1 DEF TableRow
  <1>3. runTables' \in [Runs -> [Tables -> TableRow]]
    BY <1>2, PutRow DEF StoreTypeOK, SetTableStatus
  <1> QED
    BY <1>3 DEF StoreTypeOK, SetTableStatus

LEMMA SetTablePhaseType ==
  ASSUME StoreTypeOK, NEW r \in Runs, NEW t \in Tables,
         NEW ph \in Phases, SetTablePhase(r, t, ph)
  PROVE  StoreTypeOK'
  <1>1. runTables[r][t] \in TableRow
    BY DEF StoreTypeOK
  <1>2. [runTables[r][t] EXCEPT !.phase = ph] \in TableRow
    BY <1>1 DEF TableRow
  <1>3. runTables' \in [Runs -> [Tables -> TableRow]]
    BY <1>2, PutRow DEF StoreTypeOK, SetTablePhase
  <1> QED
    BY <1>3 DEF StoreTypeOK, SetTablePhase

LEMMA RecordBatchType ==
  ASSUME StoreTypeOK, NEW r \in Runs, NEW t \in Tables,
         NEW n \in Nat, NEW rows \in Nat, RecordBatch(r, t, n, rows)
  PROVE  StoreTypeOK'
  <1>1. runTables[r][t] \in TableRow
    BY DEF StoreTypeOK
  <1>2. [runTables[r][t] EXCEPT !.done = @ + rows] \in TableRow
    BY <1>1 DEF TableRow
  <1>3. runTables' \in [Runs -> [Tables -> TableRow]]
    BY <1>2, PutRow DEF StoreTypeOK, RecordBatch
  <1>4. batches' \in [Runs -> SUBSET BatchRow]
    BY DEF StoreTypeOK, RecordBatch, ReplaceBatch, BatchRow
  <1> QED
    BY <1>3, <1>4 DEF StoreTypeOK, RecordBatch

LEMMA RecordStagedLoadType ==
  ASSUME StoreTypeOK, NEW r \in Runs, NEW t \in Tables,
         NEW rows \in Nat, RecordStagedLoad(r, t, rows)
  PROVE  StoreTypeOK'
  <1>1. runTables[r][t] \in TableRow
    BY DEF StoreTypeOK
  <1>2. [runTables[r][t] EXCEPT !.done = rows] \in TableRow
    BY <1>1 DEF TableRow
  <1>3. runTables' \in [Runs -> [Tables -> TableRow]]
    BY <1>2, PutRow DEF StoreTypeOK, RecordStagedLoad
  <1>4. batches' \in [Runs -> SUBSET BatchRow]
    BY DEF StoreTypeOK, RecordStagedLoad, ReplaceBatch, BatchRow
  <1> QED
    BY <1>3, <1>4 DEF StoreTypeOK, RecordStagedLoad

\* Writing an event, for whatever run.
LEMMA WriteEventType ==
  ASSUME StoreTypeOK, NEW r \in Runs, NEW e \in EventKinds, WriteEvent(r, e)
  PROVE  StoreTypeOK'
  <1>1. ASSUME NEW q \in Seq(EventKinds)
        PROVE  Append(q, e) \in Seq(EventKinds)
    OBVIOUS
  <1>2. events' \in [Runs -> Seq(EventKinds)]
    BY <1>1 DEF StoreTypeOK, WriteEvent
  <1> QED
    BY <1>2 DEF StoreTypeOK, WriteEvent

LEMMA SetControlFlagType ==
  ASSUME StoreTypeOK, NEW r \in Runs, NEW f \in Flags, SetControlFlag(r, f)
  PROVE  StoreTypeOK'
  BY DEF StoreTypeOK, SetControlFlag

LEMMA DeleteRunType ==
  ASSUME StoreTypeOK, NEW r \in Runs, DeleteRun(r)
  PROVE  StoreTypeOK'
  <1>1. runTables' \in [Runs -> [Tables -> TableRow]]
    BY NoTablesType DEF StoreTypeOK, DeleteRun
  <1>2. runs' \in [Runs -> RunRow]
    BY NoRunType DEF StoreTypeOK, DeleteRun
  <1> QED
    BY <1>1, <1>2 DEF StoreTypeOK, DeleteRun
-----------------------------------------------------------------------------
(* The same for the agreement of the rows. *)

LEMMA StoreInitAgrees == StoreInit => RowsAgree
  BY DEF StoreInit, RowsAgree, NoRun, NoTable, IsTerminal, RunExists,
         TableExists, TerminalStatus

LEMMA StoreStutterAgrees ==
  ASSUME RowsAgree, UNCHANGED storeVars
  PROVE  RowsAgree'
  BY DEF RowsAgree, storeVars, IsTerminal, RunExists, TableExists

LEMMA InsertRunAgrees ==
  ASSUME StoreTypeOK, RowsAgree, NEW r \in Runs, InsertRun(r)
  PROVE  RowsAgree'
  BY DEF StoreTypeOK, RowsAgree, InsertRun, IsTerminal, RunExists, TableExists,
         TableRow, RunRow, ActiveStatus, TerminalStatus, NoTable

LEMMA EndRunAgrees ==
  ASSUME StoreTypeOK, RowsAgree, NEW r \in Runs, NEW st \in TerminalStatus, EndRun(r, st)
  PROVE  RowsAgree'
  BY DEF StoreTypeOK, RowsAgree, EndRun, IsTerminal, RunExists, TableExists,
         TableRow, RunRow, TerminalStatus

LEMMA SetRunStatusAgrees ==
  ASSUME StoreTypeOK, RowsAgree, NEW r \in Runs, NEW st \in ActiveStatus, SetRunStatus(r, st)
  PROVE  RowsAgree'
  BY DEF StoreTypeOK, RowsAgree, SetRunStatus, IsTerminal, RunExists, TableExists,
         TableRow, RunRow, ActiveStatus, TerminalStatus

LEMMA RegisterTableAgrees ==
  ASSUME StoreTypeOK, RowsAgree, NEW r \in Runs, NEW t \in Tables,
         NEW total \in Nat \cup {Unknown}, RegisterTable(r, t, total)
  PROVE  RowsAgree'
  BY DEF StoreTypeOK, RowsAgree, RegisterTable, IsTerminal, RunExists, TableExists,
         TableRow, RunRow

LEMMA SetTableStatusAgrees ==
  ASSUME StoreTypeOK, RowsAgree, NEW r \in Runs, NEW t \in Tables,
         NEW st \in TableStatus, SetTableStatus(r, t, st)
  PROVE  RowsAgree'
  BY DEF StoreTypeOK, RowsAgree, SetTableStatus, IsTerminal, RunExists, TableExists,
         TableRow, RunRow, TableStatus

LEMMA SetTablePhaseAgrees ==
  ASSUME StoreTypeOK, RowsAgree, NEW r \in Runs, NEW t \in Tables,
         NEW ph \in Phases, SetTablePhase(r, t, ph)
  PROVE  RowsAgree'
  BY DEF StoreTypeOK, RowsAgree, SetTablePhase, IsTerminal, RunExists, TableExists,
         TableRow, RunRow

LEMMA RecordBatchAgrees ==
  ASSUME StoreTypeOK, RowsAgree, NEW r \in Runs, NEW t \in Tables,
         NEW n \in Nat, NEW rows \in Nat, RecordBatch(r, t, n, rows)
  PROVE  RowsAgree'
  BY DEF StoreTypeOK, RowsAgree, RecordBatch, IsTerminal, RunExists, TableExists,
         TableRow, RunRow

LEMMA RecordStagedLoadAgrees ==
  ASSUME StoreTypeOK, RowsAgree, NEW r \in Runs, NEW t \in Tables,
         NEW rows \in Nat, RecordStagedLoad(r, t, rows)
  PROVE  RowsAgree'
  BY DEF StoreTypeOK, RowsAgree, RecordStagedLoad, IsTerminal, RunExists, TableExists,
         TableRow, RunRow

LEMMA WriteEventAgrees ==
  ASSUME StoreTypeOK, RowsAgree, NEW r \in Runs, NEW e \in EventKinds, WriteEvent(r, e)
  PROVE  RowsAgree'
  BY DEF StoreTypeOK, RowsAgree, WriteEvent, IsTerminal, RunExists, TableExists,
         TableRow, RunRow

LEMMA SetControlFlagAgrees ==
  ASSUME StoreTypeOK, RowsAgree, NEW r \in Runs, NEW f \in Flags, SetControlFlag(r, f)
  PROVE  RowsAgree'
  BY DEF StoreTypeOK, RowsAgree, SetControlFlag, IsTerminal, RunExists, TableExists,
         TableRow, RunRow, Flags

LEMMA DeleteRunAgrees ==
  ASSUME StoreTypeOK, RowsAgree, NEW r \in Runs, DeleteRun(r)
  PROVE  RowsAgree'
  BY DEF StoreTypeOK, RowsAgree, DeleteRun, IsTerminal, RunExists, TableExists,
         TableRow, RunRow, NoRun, NoTable, TerminalStatus

-----------------------------------------------------------------------------
\* Induction on the numbers, for the proofs of the modules below: a set of them
\* has a least one.
LEMMA LeastNatural ==
  ASSUME NEW T \in SUBSET Nat, T # {}
  PROVE  \E x \in T : \A y \in T : x <= y
  <1> DEFINE R == {ss \in Nat \X Nat : ss[1] < ss[2]}
  <1>1. R = OpToRel(<, Nat)
    BY DEF OpToRel
  <1>2. IsWellFoundedOn(R, Nat)
    BY <1>1, NatLessThanWellFounded
  <1> HIDE DEF R
  <1>3. PICK x \in T : \A y \in T : ~(<<y, x>> \in R)
    BY <1>2, WFMin
  <1>4. ASSUME NEW y \in T PROVE x <= y
    <2>1. ~(<<y, x>> \in R) /\ x \in Nat /\ y \in Nat
      BY <1>3
    <2>2. ~(y < x)
      BY <2>1 DEF R
    <2> QED
      BY <2>1, <2>2
  <1> QED
    BY <1>4
=============================================================================
