-------------------------- MODULE SourceScripts_proofs --------------------------
(***************************************************************************)
(* What benchmark() and a transfer promise, for any number of runs, calls, *)
(* queries and objects; any of them may die or raise at any point.         *)
(*                                                                         *)
(* That no query is refused needs no assumption: execute_and_count leaves  *)
(* no failed transaction behind.  The rest of benchmark() holds if the     *)
(* calls for a run follow one another (SerialBenchmark): then the call at  *)
(* work is the one that cleared the rows last (OneAtWork), and from there  *)
(* on the rows are those of the queries that it has made so far (Filled),  *)
(* each of them told of before the next is written (ToldInTime).           *)
(*                                                                         *)
(* Of a transfer, that no row of a query is lost between its batches, and  *)
(* that no object of another table goes, needs no assumption either.  What *)
(* it is told of the bucket holds if nobody else works in the prefix of    *)
(* its run (OneTransfer): then what is still there is on the list or was   *)
(* refused (NothingForgotten), and what is not a data file was written by  *)
(* Databricks (MarksAreOfDatabricks).                                      *)
(***************************************************************************)
EXTENDS SourceScripts, StateStore_proofs, FiniteSetTheorems

AtWork(b) == bench[b].pc \in BenchPcs

LEMMA RunType == \A b \in Benchmarks : BenchmarkRun[b] \in Runs
  BY BenchmarkerAssumptions

-----------------------------------------------------------------------------
(* Types *)

LEMMA SideResultType ==
  ASSUME NEW outcome \in Outcomes, NEW timed \in BOOLEAN
  PROVE  SideResult(outcome, timed) \in SideResults
  BY DEF SideResult, SideResults

LEMMA ServerTimesType == \A kind : ServerTimes(kind) \subseteq BOOLEAN
  <1> DEFINE fast == {SnowflakeTime(a, b) : a, b \in Answers}
             slow == {DatabricksTime(a, b, t) : a, b, t \in Answers}
  <1>1. fast \subseteq BOOLEAN
    <2>1. \A a, b : SnowflakeTime(a, b) \in BOOLEAN
      BY DEF SnowflakeTime
    <2> QED
      BY <2>1
  <1>2. slow \subseteq BOOLEAN
    <2>1. \A a, b, t : DatabricksTime(a, b, t) \in BOOLEAN
      BY DEF DatabricksTime
    <2> QED
      BY <2>1
  <1> QED
    BY <1>1, <1>2 DEF ServerTimes

LEMMA SaidType ==
  \A kind \in {"benchmark_row", "benchmark_done", "step_benchmarked"} :
    [kind |-> kind] \in EventKinds
  BY DEF EventKinds, RunEvents

LEMMA TargetResultsType == \A sql : TargetResults(sql) \subseteq SideResults
  BY DEF TargetResults, SideResults

LEMMA BenchmarkerInitType == BenchmarkerInit => BenchmarkerTypeOK
  <1> SUFFICES ASSUME BenchmarkerInit PROVE BenchmarkerTypeOK
    OBVIOUS
  <1>1. runTables \in [Runs -> [Tables -> TableRow]]
    BY NoTablesType DEF BenchmarkerInit
  <1>2. StoreTypeOK
    BY <1>1 DEF BenchmarkerInit, StoreTypeOK, RunRow, TerminalStatus, Flags
  <1>3. ConnectionTypeOK
    BY DEF BenchmarkerInit, ConnectionInit, ConnectionTypeOK
  <1>4. bench \in [Benchmarks -> BenchState]
    BY DEF BenchmarkerInit, BenchState, SideResults
  <1> QED
    BY <1>2, <1>3, <1>4 DEF BenchmarkerInit, BenchmarkerTypeOK

LEMMA MovePc ==
  ASSUME BenchmarkerTypeOK, NEW b \in Benchmarks,
         NEW l \in BenchPcs \cup {"new", "returned", "stopped"}, BenchGoto(b, l)
  PROVE  bench' \in [Benchmarks -> BenchState]
  BY DEF BenchmarkerTypeOK, BenchGoto, BenchState

\* What a step of call b leaves of the calls.
LEMMA MoveFields ==
  ASSUME BenchmarkerTypeOK, NEW b \in Benchmarks, NEW l, BenchGoto(b, l)
  PROVE  /\ bench'[b].pc = l /\ bench'[b].n = bench[b].n
         /\ bench'[b].source = bench[b].source /\ bench'[b].target = bench[b].target
         /\ \A c \in Benchmarks \ {b} : bench'[c] = bench[c]
  BY DEF BenchmarkerTypeOK, BenchGoto, BenchState

LEMMA RunSourceFields ==
  ASSUME BenchmarkerTypeOK, NEW b \in Benchmarks, RunSource(b)
  PROVE  /\ bench'[b].pc = "target" /\ bench'[b].n = bench[b].n
         /\ (bench'[b].source = "omitted") = (BenchQuery(b).source = "none")
         /\ \A c \in Benchmarks \ {b} : bench'[c] = bench[c]
  <1>1. CASE /\ BenchQuery(b).source = "none"
             /\ bench' = [bench EXCEPT ![b].pc = "target", ![b].source = "omitted"]
    BY <1>1 DEF BenchmarkerTypeOK, BenchState
  <1>2. ASSUME BenchQuery(b).source # "none", NEW outcome, NEW timed,
               bench' = [bench EXCEPT ![b].pc = "target",
                                      ![b].source = SideResult(outcome, timed)]
        PROVE  /\ bench'[b].pc = "target" /\ bench'[b].n = bench[b].n
               /\ bench'[b].source # "omitted"
               /\ \A c \in Benchmarks \ {b} : bench'[c] = bench[c]
    <2>1. SideResult(outcome, timed) # "omitted"
      BY DEF SideResult
    <2> QED
      BY <1>2, <2>1 DEF BenchmarkerTypeOK, BenchState
  <1> QED
    BY <1>1, <1>2 DEF RunSource

LEMMA RunTargetFields ==
  ASSUME BenchmarkerTypeOK, NEW b \in Benchmarks, RunTarget(b)
  PROVE  /\ bench'[b].pc = "record" /\ bench'[b].n = bench[b].n
         /\ bench'[b].source = bench[b].source
         /\ bench'[b].target \in TargetResults(BenchQuery(b).target)
         /\ \A c \in Benchmarks \ {b} : bench'[c] = bench[c]
  BY DEF BenchmarkerTypeOK, RunTarget, BenchState

LEMMA AnnounceRowFields ==
  ASSUME BenchmarkerTypeOK, NEW b \in Benchmarks, AnnounceRow(b)
  PROVE  /\ bench'[b].pc = "query" /\ bench'[b].n = bench[b].n + 1
         /\ bench'[b].source = bench[b].source /\ bench'[b].target = bench[b].target
         /\ \A c \in Benchmarks \ {b} : bench'[c] = bench[c]
  BY DEF BenchmarkerTypeOK, AnnounceRow, BenchState

LEMMA NextType == BenchmarkerTypeOK /\ [BenchmarkerNext]_benchmarkerVars => BenchmarkerTypeOK'
  <1> SUFFICES ASSUME BenchmarkerTypeOK, [BenchmarkerNext]_benchmarkerVars
               PROVE  BenchmarkerTypeOK'
    OBVIOUS
  <1> USE RunType DEF BenchPcs
  <1>1. ASSUME NEW b \in Benchmarks, BeginBenchmark(b) PROVE BenchmarkerTypeOK'
    <2>1. bench' \in [Benchmarks -> BenchState]
      BY <1>1, MovePc DEF BeginBenchmark
    <2> QED
      BY <1>1, <2>1, StoreStutterType
      DEF BeginBenchmark, BenchmarkerTypeOK, ConnectionTypeOK, connectionVars
  <1>2. ASSUME NEW b \in Benchmarks, ClearBenchmarks(b) PROVE BenchmarkerTypeOK'
    <2>1. bench' \in [Benchmarks -> BenchState]
      BY <1>2, MovePc DEF ClearBenchmarks
    <2> QED
      BY <1>2, <2>1, StoreStutterType
      DEF ClearBenchmarks, BenchmarkerTypeOK, ConnectionTypeOK, connectionVars
  <1>3. ASSUME NEW b \in Benchmarks, RunSource(b) PROVE BenchmarkerTypeOK'
    <2>1. bench' \in [Benchmarks -> BenchState] /\ ConnectionTypeOK'
      <3>1. CASE /\ bench' = [bench EXCEPT ![b].pc = "target", ![b].source = "omitted"]
                 /\ UNCHANGED connectionVars
        <4>1. bench' \in [Benchmarks -> BenchState]
          BY ZenonT(30), <3>1 DEF BenchmarkerTypeOK, BenchState, SideResults
        <4>2. ConnectionTypeOK'
          BY <3>1 DEF BenchmarkerTypeOK, ConnectionTypeOK, connectionVars
        <4> QED
          BY <4>1, <4>2
      <3>2. ASSUME NEW outcome \in Outcomes, NEW timed \in ServerTimes(adapter[b]),
                   ExecuteAndCount(b, BenchQuery(b).source = "wrong", outcome),
                   bench' = [bench EXCEPT ![b].pc = "target",
                                          ![b].source = SideResult(outcome, timed)]
            PROVE  bench' \in [Benchmarks -> BenchState] /\ ConnectionTypeOK'
        <4>1. SideResult(outcome, timed) \in SideResults
          BY SideResultType, ServerTimesType
        <4>2. bench' \in [Benchmarks -> BenchState]
          BY ZenonT(30), <3>2, <4>1 DEF BenchmarkerTypeOK, BenchState
        <4>3. ConnectionTypeOK'
          BY <3>2 DEF BenchmarkerTypeOK, ConnectionTypeOK, ExecuteAndCount, RollBack
        <4> QED
          BY <4>2, <4>3
      <3> QED
        BY <1>3, <3>1, <3>2 DEF RunSource
    <2> QED
      BY <1>3, <2>1, StoreStutterType DEF RunSource, BenchmarkerTypeOK
  <1>4. ASSUME NEW b \in Benchmarks, RunTarget(b) PROVE BenchmarkerTypeOK'
    <2>1. PICK result \in TargetResults(BenchQuery(b).target) :
            bench' = [bench EXCEPT ![b].pc = "record", ![b].target = result]
      BY <1>4 DEF RunTarget
    <2>2. result \in SideResults
      BY TargetResultsType
    <2>3. bench' \in [Benchmarks -> BenchState]
      BY ZenonT(30), <2>1, <2>2 DEF BenchmarkerTypeOK, BenchState
    <2> QED
      BY <1>4, <2>3, StoreStutterType
      DEF RunTarget, BenchmarkerTypeOK, ConnectionTypeOK, connectionVars
  <1>5. ASSUME NEW b \in Benchmarks, RecordRow(b) PROVE BenchmarkerTypeOK'
    <2>1. bench' \in [Benchmarks -> BenchState]
      BY <1>5, MovePc DEF RecordRow
    <2>2. RowOf(b) \in ResultRow
      BY DEF RowOf, ResultRow, BenchmarkerTypeOK, BenchState
    <2>3. benchmarks' \in [Runs -> SUBSET ResultRow]
      BY <1>5, <2>2 DEF RecordRow, ReplaceRow, BenchmarkerTypeOK
    <2> QED
      BY <1>5, <2>1, <2>3, StoreStutterType
      DEF RecordRow, BenchmarkerTypeOK, ConnectionTypeOK, connectionVars
  <1>6. ASSUME NEW b \in Benchmarks, AnnounceRow(b) PROVE BenchmarkerTypeOK'
    <2>1. bench' \in [Benchmarks -> BenchState]
      BY <1>6 DEF AnnounceRow, BenchmarkerTypeOK, BenchState
    <2>2. StoreTypeOK'
      BY <1>6, WriteEventType, SaidType DEF AnnounceRow, BenchmarkerTypeOK
    <2> QED
      BY <1>6, <2>1, <2>2
      DEF AnnounceRow, BenchmarkerTypeOK, ConnectionTypeOK, connectionVars
  <1>7. ASSUME NEW b \in Benchmarks, AllQueriesRun(b) PROVE BenchmarkerTypeOK'
    <2>1. bench' \in [Benchmarks -> BenchState]
      BY <1>7, MovePc DEF AllQueriesRun
    <2> QED
      BY <1>7, <2>1, StoreStutterType
      DEF AllQueriesRun, BenchmarkerTypeOK, ConnectionTypeOK, connectionVars
  <1>8. ASSUME NEW b \in Benchmarks, AnnounceDone(b) PROVE BenchmarkerTypeOK'
    <2>1. bench' \in [Benchmarks -> BenchState]
      BY <1>8, MovePc DEF AnnounceDone
    <2>2. StoreTypeOK'
      BY <1>8, WriteEventType, SaidType DEF AnnounceDone, BenchmarkerTypeOK
    <2> QED
      BY <1>8, <2>1, <2>2
      DEF AnnounceDone, BenchmarkerTypeOK, ConnectionTypeOK, connectionVars
  <1>9. ASSUME NEW b \in Benchmarks, AnnounceBenchmarked(b) PROVE BenchmarkerTypeOK'
    <2>1. bench' \in [Benchmarks -> BenchState]
      BY <1>9, MovePc DEF AnnounceBenchmarked
    <2>2. StoreTypeOK'
      BY <1>9, WriteEventType, SaidType DEF AnnounceBenchmarked, BenchmarkerTypeOK
    <2> QED
      BY <1>9, <2>1, <2>2
      DEF AnnounceBenchmarked, BenchmarkerTypeOK, ConnectionTypeOK, connectionVars
  <1>10. ASSUME NEW b \in Benchmarks, StopBenchmark(b) PROVE BenchmarkerTypeOK'
    <2>1. bench' \in [Benchmarks -> BenchState]
      BY <1>10, MovePc DEF StopBenchmark
    <2> QED
      BY <1>10, <2>1, StoreStutterType
      DEF StopBenchmark, BenchmarkerTypeOK, ConnectionTypeOK, connectionVars
  <1>11. ASSUME NEW r \in Runs, DeleteRunAndBenchmarks(r) PROVE BenchmarkerTypeOK'
    <2>1. StoreTypeOK'
      BY <1>11, DeleteRunType DEF DeleteRunAndBenchmarks, BenchmarkerTypeOK
    <2> QED
      BY <1>11, <2>1
      DEF DeleteRunAndBenchmarks, BenchmarkerTypeOK, ConnectionTypeOK, connectionVars
  <1>12. CASE UNCHANGED benchmarkerVars
    BY <1>12, StoreStutterType
    DEF benchmarkerVars, benchVars, BenchmarkerTypeOK, ConnectionTypeOK, connectionVars
  <1> QED
    BY <1>1, <1>2, <1>3, <1>4, <1>5, <1>6, <1>7, <1>8, <1>9, <1>10, <1>11, <1>12
    DEF BenchmarkerNext, RunQueries

\* The tables, the connections and the calls keep their types, whatever calls
\* overlap or die.
THEOREM BenchmarkerTypeCorrect == BenchmarkerSpec => []BenchmarkerTypeOK
  BY BenchmarkerInitType, NextType, PTL DEF BenchmarkerSpec
-----------------------------------------------------------------------------
(* No query is refused. *)

NoneAborted ==
  /\ aborted = {}
  /\ \A b \in Benchmarks : bench[b].source # "refused"
  /\ NoneRefused

LEMMA InitNoneAborted == BenchmarkerInit => NoneAborted
  BY DEF BenchmarkerInit, ConnectionInit, NoneAborted, NoneRefused

LEMMA NextNoneAborted ==
  BenchmarkerTypeOK /\ NoneAborted /\ [BenchmarkerNext]_benchmarkerVars => NoneAborted'
  <1> SUFFICES ASSUME BenchmarkerTypeOK, NoneAborted, [BenchmarkerNext]_benchmarkerVars
               PROVE  NoneAborted'
    OBVIOUS
  <1> USE DEF NoneAborted, NoneRefused
  <1>1. ASSUME NEW b \in Benchmarks, RunSource(b) PROVE NoneAborted'
    <2>1. CASE /\ bench' = [bench EXCEPT ![b].pc = "target", ![b].source = "omitted"]
               /\ UNCHANGED connectionVars
      <3>1. \A c \in Benchmarks : bench'[c].source # "refused"
        BY <2>1 DEF BenchmarkerTypeOK, BenchState
      <3>2. aborted' = {} /\ benchmarks' = benchmarks
        BY <1>1, <2>1 DEF RunSource, connectionVars
      <3> QED
        BY <3>1, <3>2
    <2>2. ASSUME NEW outcome \in Outcomes, NEW timed \in ServerTimes(adapter[b]),
                 ExecuteAndCount(b, BenchQuery(b).source = "wrong", outcome),
                 bench' = [bench EXCEPT ![b].pc = "target",
                                        ![b].source = SideResult(outcome, timed)]
          PROVE  NoneAborted'
      <3>1. outcome # "refused"
        BY <2>2 DEF ExecuteAndCount, Outcome
      <3>2. SideResult(outcome, timed) # "refused"
        BY <3>1 DEF SideResult
      <3>3. \A c \in Benchmarks : bench'[c].source # "refused"
        BY <2>2, <3>2 DEF BenchmarkerTypeOK, BenchState
      <3>4. aborted' = {} /\ benchmarks' = benchmarks
        BY <1>1, <2>2 DEF RunSource, ExecuteAndCount, RollBack
      <3> QED
        BY <3>3, <3>4
    <2> QED
      BY <1>1, <2>1, <2>2 DEF RunSource
  <1>2. ASSUME NEW b \in Benchmarks, RecordRow(b) PROVE NoneAborted'
    <2>1. RowOf(b).source # "refused"
      BY DEF RowOf
    <2>2. NoneRefused'
      BY <1>2, <2>1, RunType DEF RecordRow, ReplaceRow, BenchmarkerTypeOK
    <2>3. \A c \in Benchmarks : bench'[c].source = bench[c].source
      BY <1>2 DEF RecordRow, BenchGoto, BenchmarkerTypeOK, BenchState
    <2> QED
      BY <1>2, <2>2, <2>3 DEF RecordRow, connectionVars
  <1>3. ASSUME NEW b \in Benchmarks,
               \/ BeginBenchmark(b) \/ ClearBenchmarks(b) \/ RunTarget(b)
               \/ AnnounceRow(b) \/ AllQueriesRun(b) \/ AnnounceDone(b)
               \/ AnnounceBenchmarked(b) \/ StopBenchmark(b)
        PROVE  NoneAborted'
    <2>1. \A c \in Benchmarks : bench'[c].source = bench[c].source
      <3>1. CASE RunTarget(b)
        BY <3>1, RunTargetFields
      <3>2. CASE AnnounceRow(b)
        BY <3>2, AnnounceRowFields
      <3>3. CASE \E l : BenchGoto(b, l)
        BY <3>3, MoveFields
      <3> QED
        BY <1>3, <3>1, <3>2, <3>3 DEF BeginBenchmark, ClearBenchmarks,
           AllQueriesRun, AnnounceDone, AnnounceBenchmarked, StopBenchmark
    <2>2. aborted' = {}
      BY <1>3 DEF BeginBenchmark, ClearBenchmarks, RunTarget, AnnounceRow,
         AllQueriesRun, AnnounceDone, AnnounceBenchmarked, StopBenchmark, connectionVars
    <2>3. \A r \in Runs : benchmarks'[r] \subseteq benchmarks[r]
      BY <1>3 DEF BeginBenchmark, ClearBenchmarks, RunTarget, AnnounceRow,
         AllQueriesRun, AnnounceDone, AnnounceBenchmarked, StopBenchmark, BenchmarkerTypeOK
    <2> QED
      BY <2>1, <2>2, <2>3
  <1>4. ASSUME NEW r \in Runs, DeleteRunAndBenchmarks(r) PROVE NoneAborted'
    BY <1>4 DEF DeleteRunAndBenchmarks, connectionVars, BenchmarkerTypeOK
  <1>5. CASE UNCHANGED benchmarkerVars
    BY <1>5 DEF benchmarkerVars, benchVars, connectionVars
  <1> QED
    BY <1>1, <1>2, <1>3, <1>4, <1>5 DEF BenchmarkerNext, RunQueries

\* No query of a benchmark is refused for what an earlier one has left behind, on
\* whatever connection.
THEOREM NoQueryRefused == BenchmarkerSpec => []NoneRefused
  <1>1. NoneAborted => NoneRefused
    BY DEF NoneAborted
  <1> QED
    BY <1>1, BenchmarkerInitType, NextType, InitNoneAborted, NextNoneAborted, PTL
    DEF BenchmarkerSpec
-----------------------------------------------------------------------------
(* The rows of the calls of a run that follow one another. *)

StepOf(b) == BeginBenchmark(b) \/ RunQueries(b) \/ StopBenchmark(b)

OneAtWork ==
  \A a, b \in Benchmarks :
    BenchmarkRun[a] = BenchmarkRun[b] /\ AtWork(a) /\ AtWork(b) => a = b

Filling(b) == AtWork(b) /\ bench[b].pc # "clear"

ToldInTime(b) ==
  bench[b].pc \in {"query", "target", "record"} =>
    ~untold[BenchmarkRun[b]] \/ benchmarks[BenchmarkRun[b]] = {}

\* Where the call is, and what it knows of its query.
InPlace(b) ==
  /\ bench[b].n \in 0 .. Len(Queries[b])
  /\ bench[b].pc \in {"new", "clear"} => bench[b].n = 0
  /\ bench[b].pc \in {"target", "record", "sayRow"} => bench[b].n < Len(Queries[b])
  /\ bench[b].pc \in {"sayDone", "sayStep"} => bench[b].n = Len(Queries[b])
  /\ bench[b].pc \in {"target", "record"} =>
       (bench[b].source = "omitted") = (BenchQuery(b).source = "none")
  /\ bench[b].pc = "record" =>
       (bench[b].target = "omitted") = (BenchQuery(b).target = "none")

\* How many rows the call has written.
Made(b) == bench[b].n + (IF bench[b].pc = "sayRow" THEN 1 ELSE 0)

Fits(x, query) ==
  /\ (x.source = "omitted") = (query.source = "none")
  /\ (x.target = "omitted") = (query.target = "none")

Filled(b) ==
  LET r == BenchmarkRun[b] IN
  Filling(b) /\ RunExists(r) =>
    /\ \A x \in benchmarks[r] : x.n < Made(b) /\ Fits(x, Queries[b][x.n + 1])
    /\ \A i \in 0 .. Made(b) - 1 : \E x \in benchmarks[r] : x.n = i

CallInv(b) ==
  /\ Filling(b) => cleared[BenchmarkRun[b]] = b
  /\ ToldInTime(b) /\ InPlace(b) /\ Filled(b)

SInv == OneAtWork /\ RowsOfOneCall /\ \A b \in Benchmarks : CallInv(b)

LEMMA LenType == \A b \in Benchmarks : Len(Queries[b]) \in Nat
  BY BenchmarkerAssumptions

LEMMA InitSInv == BenchmarkerInit => SInv
  BY LenType DEF BenchmarkerInit, SInv, OneAtWork, RowsOfOneCall, CallInv, ToldInTime,
     InPlace, Filled, Filling, AtWork, BenchPcs

\* A step of a call moves no other call, finds no other at work for its run, and
\* leaves what belongs to other runs.
LEMMA StepFrame ==
  ASSUME SerialBenchmark, BenchmarkerTypeOK, SInv, NEW b \in Benchmarks, StepOf(b),
         NEW c \in Benchmarks \ {b}
  PROVE  /\ bench'[c] = bench[c]
         /\ BenchmarkRun[c] = BenchmarkRun[b] => ~AtWork(c)
         /\ BenchmarkRun[c] # BenchmarkRun[b] =>
              /\ benchmarks'[BenchmarkRun[c]] = benchmarks[BenchmarkRun[c]]
              /\ cleared'[BenchmarkRun[c]] = cleared[BenchmarkRun[c]]
              /\ untold'[BenchmarkRun[c]] = untold[BenchmarkRun[c]]
  <1>1. bench'[c] = bench[c]
    <2>1. CASE RunSource(b)
      BY <2>1, RunSourceFields
    <2>2. CASE RunTarget(b)
      BY <2>2, RunTargetFields
    <2>3. CASE AnnounceRow(b)
      BY <2>3, AnnounceRowFields
    <2>4. CASE \E l : BenchGoto(b, l)
      BY <2>4, MoveFields
    <2> QED
      BY <2>1, <2>2, <2>3, <2>4 DEF StepOf, RunQueries, BeginBenchmark, ClearBenchmarks,
         RecordRow, AllQueriesRun, AnnounceDone, AnnounceBenchmarked, StopBenchmark
  <1>2. BenchmarkRun[c] = BenchmarkRun[b] => ~AtWork(c)
    <2>1. CASE BeginBenchmark(b)
      BY <2>1 DEF BeginBenchmark, AtWork
    <2>2. CASE AtWork(b)
      BY <2>2 DEF SInv, OneAtWork
    <2> QED
      BY <2>1, <2>2 DEF StepOf, RunQueries, ClearBenchmarks, RunSource, RunTarget,
         RecordRow, AnnounceRow, AllQueriesRun, AnnounceDone, AnnounceBenchmarked,
         StopBenchmark, BenchAt, AtWork, BenchPcs
  <1>3. ASSUME BenchmarkRun[c] # BenchmarkRun[b]
        PROVE  /\ benchmarks'[BenchmarkRun[c]] = benchmarks[BenchmarkRun[c]]
               /\ cleared'[BenchmarkRun[c]] = cleared[BenchmarkRun[c]]
               /\ untold'[BenchmarkRun[c]] = untold[BenchmarkRun[c]]
    BY <1>3, RunType DEF StepOf, RunQueries, BeginBenchmark, ClearBenchmarks, RunSource,
       RunTarget, RecordRow, AnnounceRow, AllQueriesRun, AnnounceDone,
       AnnounceBenchmarked, StopBenchmark, BenchmarkerTypeOK
  <1> QED
    BY <1>1, <1>2, <1>3

\* No call changes the row of a run.
LEMMA StepKeepsRuns ==
  ASSUME NEW b \in Benchmarks, StepOf(b)
  PROVE  UNCHANGED runs
  BY DEF StepOf, RunQueries, BeginBenchmark, ClearBenchmarks, RunSource, RunTarget,
     RecordRow, AnnounceRow, AllQueriesRun, AnnounceDone, AnnounceBenchmarked,
     StopBenchmark, WriteEvent, storeVars

LEMMA OthersKeepInv ==
  ASSUME SerialBenchmark, BenchmarkerTypeOK, SInv, NEW b \in Benchmarks, StepOf(b),
         NEW c \in Benchmarks \ {b}
  PROVE  CallInv(c)'
  <1>1. bench'[c] = bench[c] /\ UNCHANGED runs
    BY StepFrame, StepKeepsRuns
  <1>2. CASE AtWork(c)
    <2>1. /\ benchmarks'[BenchmarkRun[c]] = benchmarks[BenchmarkRun[c]]
          /\ cleared'[BenchmarkRun[c]] = cleared[BenchmarkRun[c]]
          /\ untold'[BenchmarkRun[c]] = untold[BenchmarkRun[c]]
      BY <1>2, StepFrame
    <2> QED
      BY <1>1, <2>1 DEF SInv, CallInv, ToldInTime, InPlace, Filled, Filling, AtWork, Made,
         RunExists, BenchQuery
  <1>3. CASE ~AtWork(c)
    BY <1>1, <1>3 DEF SInv, CallInv, ToldInTime, InPlace, Filled, Filling, AtWork,
       BenchPcs, BenchQuery
  <1> QED
    BY <1>2, <1>3

LEMMA OneAtWorkStays ==
  ASSUME SerialBenchmark, BenchmarkerTypeOK, SInv, NEW b \in Benchmarks, StepOf(b)
  PROVE  OneAtWork'
  <1>1. \A c \in Benchmarks \ {b} :
          /\ AtWork(c)' = AtWork(c)
          /\ BenchmarkRun[c] = BenchmarkRun[b] => ~AtWork(c)
    BY StepFrame DEF AtWork
  <1> QED
    BY <1>1 DEF SInv, OneAtWork
\* The steps of call b, one by one: what they do to its rows.
LEMMA ClearKeepsInv ==
  ASSUME BenchmarkerTypeOK, SInv, NEW b \in Benchmarks, ClearBenchmarks(b)
  PROVE  CallInv(b)' /\ RowsOfOneCall'
  <1> DEFINE r == BenchmarkRun[b]
  <1>1. bench'[b].pc = "query" /\ bench'[b].n = 0
    BY MoveFields DEF ClearBenchmarks, BenchAt, SInv, CallInv, InPlace
  <1>2. benchmarks'[r] = {} /\ cleared'[r] = b
    BY RunType DEF ClearBenchmarks, BenchmarkerTypeOK
  <1>3. \A q \in Runs \ {r} : benchmarks'[q] = benchmarks[q] /\ cleared'[q] = cleared[q]
    BY DEF ClearBenchmarks, BenchmarkerTypeOK
  <1>4. RowsOfOneCall'
    BY <1>2, <1>3 DEF SInv, RowsOfOneCall
  <1>5. InPlace(b)'
    BY <1>1, LenType DEF InPlace
  <1> QED
    BY <1>1, <1>2, <1>4, <1>5 DEF CallInv, ToldInTime, Filled, Made

\* A step that leaves the rows, and what is known of them, to the next.
LEMMA SameRows ==
  ASSUME SInv, UNCHANGED <<benchmarks, cleared, untold>>
  PROVE  RowsOfOneCall'
  BY DEF SInv, RowsOfOneCall

LEMMA BeginKeepsInv ==
  ASSUME BenchmarkerTypeOK, SInv, NEW b \in Benchmarks, BeginBenchmark(b)
  PROVE  CallInv(b)' /\ RowsOfOneCall'
  <1>1. bench'[b].pc = "clear" /\ bench'[b].n = 0
    BY MoveFields DEF BeginBenchmark, BenchAt, SInv, CallInv, InPlace
  <1>2. RowsOfOneCall'
    BY SameRows DEF BeginBenchmark
  <1> QED
    BY <1>1, <1>2, LenType DEF CallInv, ToldInTime, InPlace, Filled, Filling

LEMMA RunSourceKeepsInv ==
  ASSUME BenchmarkerTypeOK, SInv, NEW b \in Benchmarks, RunSource(b)
  PROVE  CallInv(b)' /\ RowsOfOneCall'
  <1>1. /\ bench[b].pc = "query" /\ bench[b].n < Len(Queries[b])
        /\ bench'[b].pc = "target" /\ bench'[b].n = bench[b].n
        /\ (bench'[b].source = "omitted") = (BenchQuery(b).source = "none")
    BY RunSourceFields DEF RunSource, BenchAt
  <1>2. UNCHANGED <<benchmarks, cleared, untold, runs>>
    BY DEF RunSource, storeVars
  <1>3. BenchQuery(b)' = BenchQuery(b)
    BY <1>1 DEF BenchQuery
  <1>4. InPlace(b)'
    BY <1>1, <1>3 DEF SInv, CallInv, InPlace
  <1> QED
    BY <1>1, <1>2, <1>4, SameRows DEF SInv, CallInv, ToldInTime, Filled, Filling, AtWork,
       BenchPcs, Made, RunExists

LEMMA RunTargetKeepsInv ==
  ASSUME BenchmarkerTypeOK, SInv, NEW b \in Benchmarks, RunTarget(b)
  PROVE  CallInv(b)' /\ RowsOfOneCall'
  <1>1. /\ bench[b].pc = "target"
        /\ bench'[b].pc = "record" /\ bench'[b].n = bench[b].n
        /\ bench'[b].source = bench[b].source
    BY RunTargetFields DEF RunTarget, BenchAt
  <1>2. (bench'[b].target = "omitted") = (BenchQuery(b).target = "none")
    BY RunTargetFields DEF TargetResults
  <1>3. UNCHANGED <<benchmarks, cleared, untold, runs>>
    BY DEF RunTarget, storeVars
  <1>4. BenchQuery(b)' = BenchQuery(b)
    BY <1>1 DEF BenchQuery
  <1>5. InPlace(b)'
    BY <1>1, <1>2, <1>4 DEF SInv, CallInv, InPlace
  <1> QED
    BY <1>1, <1>3, <1>5, SameRows DEF SInv, CallInv, ToldInTime, Filled, Filling, AtWork,
       BenchPcs, Made, RunExists

LEMMA RecordKeepsInv ==
  ASSUME BenchmarkerTypeOK, SInv, NEW b \in Benchmarks, RecordRow(b)
  PROVE  CallInv(b)' /\ RowsOfOneCall'
  <1> DEFINE r == BenchmarkRun[b]
             n == bench[b].n
  <1>1. bench[b].pc = "record" /\ n \in Nat /\ n < Len(Queries[b])
    BY LenType DEF RecordRow, BenchAt, SInv, CallInv, InPlace
  <1>2. bench'[b].pc = "sayRow" /\ bench'[b].n = n
    BY MoveFields DEF RecordRow
  <1>3. benchmarks'[r] = ReplaceRow(benchmarks[r], RowOf(b))
    BY RunType DEF RecordRow, BenchmarkerTypeOK
  <1>4. cleared[r] = b /\ UNCHANGED <<cleared, runs>> /\ RunExists(r)
    BY <1>1 DEF RecordRow, SInv, CallInv, Filling, AtWork, BenchPcs, storeVars
  <1>5. RowsOfOneCall'
    <2>1. \A q \in Runs \ {r} : benchmarks'[q] = benchmarks[q]
      BY DEF RecordRow, BenchmarkerTypeOK
    <2>2. \A x \in benchmarks'[r] : x.call = b
      BY <1>3, <1>4, RunType DEF ReplaceRow, RowOf, SInv, RowsOfOneCall
    <2> QED
      BY <1>4, <2>1, <2>2 DEF SInv, RowsOfOneCall
  <1>6. InPlace(b)'
    BY <1>1, <1>2, LenType DEF InPlace
  <1>7. /\ \A x \in benchmarks[r] : x.n \in Nat /\ x.n < n /\ Fits(x, Queries[b][x.n + 1])
        /\ \A i \in 0 .. n - 1 : \E x \in benchmarks[r] : x.n = i
    <2>1. \A x \in benchmarks[r] : x.n \in Nat
      BY RunType DEF BenchmarkerTypeOK, ResultRow
    <2> QED
      BY <1>1, <1>4, <2>1 DEF SInv, CallInv, Filled, Filling, AtWork, BenchPcs, Made
  <1>8. RowOf(b).n = n /\ Fits(RowOf(b), Queries[b][n + 1])
    BY <1>1 DEF SInv, CallInv, InPlace, RowOf, Fits, BenchQuery
  <1>9. \A x \in benchmarks'[r] : x.n < n + 1 /\ Fits(x, Queries[b][x.n + 1])
    BY <1>1, <1>3, <1>7, <1>8 DEF ReplaceRow
  <1>10. \A i \in 0 .. n : \E x \in benchmarks'[r] : x.n = i
    <2> SUFFICES ASSUME NEW i \in 0 .. n PROVE \E x \in benchmarks'[r] : x.n = i
      OBVIOUS
    <2>1. CASE i = n
      BY <1>3, <1>8, <2>1 DEF ReplaceRow
    <2>2. CASE i # n
      <3>1. i \in 0 .. n - 1
        BY <1>1, <2>2
      <3>2. PICK x \in benchmarks[r] : x.n = i
        BY <1>7, <3>1
      <3> QED
        BY <1>3, <1>8, <2>2, <3>2 DEF ReplaceRow
    <2> QED
      BY <2>1, <2>2
  <1>11. Filled(b)'
    BY <1>1, <1>2, <1>9, <1>10 DEF Filled, Made
  <1> QED
    BY <1>2, <1>4, <1>5, <1>6, <1>11 DEF CallInv, ToldInTime

LEMMA AnnounceRowKeepsInv ==
  ASSUME BenchmarkerTypeOK, SInv, NEW b \in Benchmarks, AnnounceRow(b)
  PROVE  CallInv(b)' /\ RowsOfOneCall'
  <1> DEFINE r == BenchmarkRun[b]
  <1>1. /\ bench[b].pc = "sayRow" /\ bench[b].n \in Nat
        /\ bench'[b].pc = "query" /\ bench'[b].n = bench[b].n + 1
    BY AnnounceRowFields DEF AnnounceRow, BenchAt, BenchmarkerTypeOK, BenchState
  <1>2. UNCHANGED <<benchmarks, cleared, runs>> /\ untold'[r] = FALSE
    BY RunType DEF AnnounceRow, WriteEvent, BenchmarkerTypeOK
  <1>3. InPlace(b)'
    BY <1>1, LenType DEF SInv, CallInv, InPlace
  <1>4. RowsOfOneCall'
    BY <1>2 DEF SInv, RowsOfOneCall
  <1>5. Filled(b)'
    BY <1>1, <1>2 DEF SInv, CallInv, Filled, Filling, AtWork, BenchPcs, Made, RunExists
  <1> QED
    BY <1>1, <1>2, <1>3, <1>4, <1>5 DEF SInv, CallInv, ToldInTime, Filling, AtWork, BenchPcs

LEMMA AllQueriesRunKeepsInv ==
  ASSUME BenchmarkerTypeOK, SInv, NEW b \in Benchmarks, AllQueriesRun(b)
  PROVE  CallInv(b)' /\ RowsOfOneCall'
  <1>1. /\ bench[b].pc = "query" /\ bench[b].n = Len(Queries[b])
        /\ bench'[b].pc = "sayDone" /\ bench'[b].n = bench[b].n
    BY MoveFields DEF AllQueriesRun, BenchAt
  <1>2. UNCHANGED <<benchmarks, cleared, untold, runs>>
    BY DEF AllQueriesRun, storeVars
  <1>3. InPlace(b)'
    BY <1>1, LenType DEF InPlace
  <1> QED
    BY <1>1, <1>2, <1>3, SameRows DEF SInv, CallInv, ToldInTime, Filled, Filling, AtWork,
       BenchPcs, Made, RunExists

\* The steps after the last query, and the end of a call that dies.
LEMMA LastStepsKeepInv ==
  ASSUME BenchmarkerTypeOK, SInv, NEW b \in Benchmarks,
         AnnounceDone(b) \/ AnnounceBenchmarked(b) \/ StopBenchmark(b)
  PROVE  CallInv(b)' /\ RowsOfOneCall'
  <1>1. /\ bench'[b].n = bench[b].n
        /\ \/ bench[b].pc = "sayDone" /\ bench'[b].pc = "sayStep"
           \/ bench'[b].pc \in {"returned", "stopped"}
    BY MoveFields DEF AnnounceDone, AnnounceBenchmarked, StopBenchmark, BenchAt
  <1>2. UNCHANGED <<benchmarks, cleared, runs>>
    BY DEF AnnounceDone, AnnounceBenchmarked, StopBenchmark, WriteEvent, storeVars
  <1>3. InPlace(b)'
    BY <1>1 DEF SInv, CallInv, InPlace
  <1>4. RowsOfOneCall'
    BY <1>2 DEF SInv, RowsOfOneCall
  <1> QED
    BY <1>1, <1>2, <1>3, <1>4 DEF SInv, CallInv, ToldInTime, Filled, Filling, AtWork,
       BenchPcs, Made, RunExists

LEMMA DeleteKeepsInv ==
  ASSUME BenchmarkerTypeOK, SInv, NEW r \in Runs, DeleteRunAndBenchmarks(r)
  PROVE  SInv'
  <1>1. benchmarks'[r] = {} /\ ~RunExists(r)'
    BY DEF DeleteRunAndBenchmarks, DeleteRun, BenchmarkerTypeOK, StoreTypeOK, RunExists, NoRun
  <1>2. \A q \in Runs \ {r} : benchmarks'[q] = benchmarks[q] /\ RunExists(q)' = RunExists(q)
    BY DEF DeleteRunAndBenchmarks, DeleteRun, BenchmarkerTypeOK, StoreTypeOK, RunExists
  <1>3. UNCHANGED <<bench, cleared, untold>>
    BY DEF DeleteRunAndBenchmarks
  <1>4. ASSUME NEW b \in Benchmarks PROVE CallInv(b)'
    BY <1>1, <1>2, <1>3, RunType DEF SInv, CallInv, ToldInTime, InPlace, Filled, Filling,
       AtWork, Made, BenchQuery
  <1>5. RowsOfOneCall'
    BY <1>1, <1>2, <1>3 DEF SInv, RowsOfOneCall
  <1> QED
    BY <1>3, <1>4, <1>5 DEF SInv, OneAtWork, AtWork

LEMMA NextSInv ==
  ASSUME SerialBenchmark
  PROVE  BenchmarkerTypeOK /\ SInv /\ [BenchmarkerNext]_benchmarkerVars => SInv'
  <1> SUFFICES ASSUME BenchmarkerTypeOK, SInv, [BenchmarkerNext]_benchmarkerVars
               PROVE  SInv'
    OBVIOUS
  <1>1. ASSUME NEW b \in Benchmarks, StepOf(b) PROVE SInv'
    <2>1. CallInv(b)' /\ RowsOfOneCall'
      BY <1>1, BeginKeepsInv, ClearKeepsInv, RunSourceKeepsInv, RunTargetKeepsInv,
         RecordKeepsInv, AnnounceRowKeepsInv, AllQueriesRunKeepsInv, LastStepsKeepInv
      DEF StepOf, RunQueries
    <2>2. \A c \in Benchmarks \ {b} : CallInv(c)'
      BY <1>1, OthersKeepInv
    <2>3. OneAtWork'
      BY <1>1, OneAtWorkStays
    <2> QED
      BY <2>1, <2>2, <2>3 DEF SInv
  <1>2. ASSUME NEW r \in Runs, DeleteRunAndBenchmarks(r) PROVE SInv'
    BY <1>2, DeleteKeepsInv
  <1>3. CASE UNCHANGED benchmarkerVars
    BY <1>3 DEF benchmarkerVars, benchVars, storeVars, SInv, OneAtWork, RowsOfOneCall,
       CallInv, ToldInTime, InPlace, Filled, Filling, AtWork, Made, RunExists, BenchQuery
  <1> QED
    BY <1>1, <1>2, <1>3 DEF BenchmarkerNext, StepOf
-----------------------------------------------------------------------------
\* The rows of a run are those of one call, if calls do not overlap, whatever an
\* earlier call that died has left behind.
THEOREM RowsAreOfOneCall ==
  ASSUME SerialBenchmark
  PROVE  BenchmarkerSpec => []RowsOfOneCall
  <1>1. SInv => RowsOfOneCall
    BY DEF SInv
  <1> QED
    BY <1>1, BenchmarkerInitType, NextType, InitSInv, NextSInv, PTL DEF BenchmarkerSpec

\* A call that announces its end has a row for each of its queries, if calls do
\* not overlap.
THEOREM NoQueryIsMissing ==
  ASSUME SerialBenchmark
  PROVE  BenchmarkerSpec => []EveryQueryHasARow
  <1>1. BenchmarkerTypeOK /\ SInv => EveryQueryHasARow
    <2> SUFFICES ASSUME BenchmarkerTypeOK, SInv, NEW b \in Benchmarks,
                        bench[b].pc \in {"sayDone", "sayStep"}, RunExists(BenchmarkRun[b])
                 PROVE  LET r == BenchmarkRun[b] IN
                        /\ {x.n : x \in benchmarks[r]} = 0 .. Len(Queries[b]) - 1
                        /\ \A x \in benchmarks[r] : Fits(x, Queries[b][x.n + 1])
      BY DEF EveryQueryHasARow, Fits
    <2> DEFINE r == BenchmarkRun[b]
    <2>1. Made(b) = Len(Queries[b])
      BY LenType DEF SInv, CallInv, InPlace, Made
    <2>2. /\ \A x \in benchmarks[r] : x.n < Made(b) /\ Fits(x, Queries[b][x.n + 1])
          /\ \A i \in 0 .. Made(b) - 1 : \E x \in benchmarks[r] : x.n = i
      BY DEF SInv, CallInv, Filled, Filling, AtWork, BenchPcs
    <2>3. \A x \in benchmarks[r] : x.n \in Nat
      BY RunType DEF BenchmarkerTypeOK, ResultRow
    <2>4. \A x \in benchmarks[r] : x.n \in 0 .. Len(Queries[b]) - 1
      BY <2>1, <2>2, <2>3, LenType
    <2> QED
      BY <2>1, <2>2, <2>4
  <1> QED
    BY <1>1, BenchmarkerInitType, NextType, InitSInv, NextSInv, PTL DEF BenchmarkerSpec

-----------------------------------------------------------------------------
(* The refinement. *)

LEMMA InitMaps == BenchmarkerInit => Log!LogInit
  BY DEF BenchmarkerInit, Log!LogInit

LEMMA NextMaps ==
  BenchmarkerTypeOK /\ SInv /\ [BenchmarkerNext]_benchmarkerVars
    => [Log!LogNext]_<<benchmarks, untold>>
  <1> SUFFICES ASSUME BenchmarkerTypeOK, SInv, [BenchmarkerNext]_benchmarkerVars
               PROVE  [Log!LogNext]_<<benchmarks, untold>>
    OBVIOUS
  <1> USE RunType
  <1>1. ASSUME NEW b \in Benchmarks, ClearBenchmarks(b) PROVE Log!LogNext
    <2>1. Log!Clear(BenchmarkRun[b])
      BY <1>1 DEF ClearBenchmarks, Log!Clear
    <2> QED
      BY <2>1 DEF Log!LogNext
  <1>2. ASSUME NEW b \in Benchmarks, RecordRow(b) PROVE Log!LogNext
    <2> DEFINE r == BenchmarkRun[b]
    <2>1. ~untold[r] \/ benchmarks[r] = {}
      BY <1>2 DEF RecordRow, BenchAt, SInv, CallInv, ToldInTime
    <2>2. benchmarks' = [benchmarks EXCEPT ![r] = benchmarks'[r]]
      BY <1>2 DEF RecordRow, BenchmarkerTypeOK
    <2>3. Log!Put(r, benchmarks'[r])
      BY <1>2, <2>1, <2>2 DEF RecordRow, Log!Put
    <2> QED
      BY <2>3 DEF Log!LogNext
  <1>3. ASSUME NEW b \in Benchmarks, AnnounceRow(b) \/ AnnounceDone(b) PROVE Log!LogNext
    <2>1. Log!Tell(BenchmarkRun[b])
      BY <1>3 DEF AnnounceRow, AnnounceDone, Log!Tell
    <2> QED
      BY <2>1 DEF Log!LogNext
  <1>4. ASSUME NEW b \in Benchmarks,
               \/ BeginBenchmark(b) \/ RunSource(b) \/ RunTarget(b) \/ AllQueriesRun(b)
               \/ AnnounceBenchmarked(b) \/ StopBenchmark(b)
        PROVE  UNCHANGED <<benchmarks, untold>>
    BY <1>4 DEF BeginBenchmark, RunSource, RunTarget, AllQueriesRun, AnnounceBenchmarked,
       StopBenchmark
  <1>5. ASSUME NEW r \in Runs, DeleteRunAndBenchmarks(r) PROVE Log!LogNext
    <2>1. Log!Remove(r)
      BY <1>5 DEF DeleteRunAndBenchmarks, Log!Remove
    <2> QED
      BY <2>1 DEF Log!LogNext
  <1>6. CASE UNCHANGED benchmarkerVars
    BY <1>6 DEF benchmarkerVars, benchVars
  <1> QED
    BY <1>1, <1>2, <1>3, <1>4, <1>5, <1>6 DEF BenchmarkerNext, RunQueries

\* Each write of a row is told of before the next one, if calls do not overlap:
\* initial states map to initial states, and steps to steps of RowLog or stutters.
THEOREM RowLogImplemented ==
  ASSUME SerialBenchmark
  PROVE  BenchmarkerSpec => ImplementsRowLog
  BY InitMaps, NextMaps, BenchmarkerInitType, NextType, InitSInv, NextSInv, PTL
  DEF BenchmarkerSpec, ImplementsRowLog, Log!LogSpec, Log!rowLogVars

-----------------------------------------------------------------------------
(* A transfer.  Its steps, and what they leave of the other scripts. *)

ScriptsNext == Benchmarking \/ Transferring

LEMMA AnyStep ==
  ASSUME [ScriptsNext]_scriptsVars
  PROVE  \/ \E x \in Transfers : Query(x) \/ Iterate(x) \/ Stage(x)
         \/ UNCHANGED <<adapter, bucket, ask>>
  <1>1. CASE Benchmarking
    <2>1. UNCHANGED adapter
      BY <1>1 DEF Benchmarking, BenchmarkerNext, RunQueries, DeleteRunAndBenchmarks,
         BeginBenchmark, ClearBenchmarks, RunSource, RunTarget, RecordRow, AnnounceRow,
         AllQueriesRun, AnnounceDone, AnnounceBenchmarked, StopBenchmark,
         ExecuteAndCount, RollBack, connectionVars
    <2> QED
      BY <1>1, <2>1 DEF Benchmarking
  <1>2. CASE Transferring
    BY <1>2 DEF Transferring, AdapterNext
  <1>3. CASE UNCHANGED scriptsVars
    BY <1>3 DEF scriptsVars, connectionVars
  <1> QED
    BY <1>1, <1>2, <1>3 DEF ScriptsNext

\* No script changes its adapter, and a transfer changes its own call.
LEMMA OwnCall ==
  ASSUME ask \in [Transfers -> Ask], NEW x \in Transfers,
         Query(x) \/ Iterate(x) \/ Stage(x)
  PROVE  /\ adapter' = adapter
         /\ \A y \in Transfers \ {x} : ask'[y] = ask[y]
  <1>1. CASE Query(x)
    BY <1>1 DEF Query, Count, Time, OpenQuery, CountRows, ExecuteAndCount, Leave, RollBack
  <1>2. CASE Iterate(x)
    BY <1>2 DEF Iterate, FetchPage, FetchRow, YieldLast, LoseRows, DropIterator, Leave,
       connectionVars
  <1>3. CASE Stage(x)
    BY Zenon, <1>3 DEF Stage, Unload, BeginCleanup, ListUnloaded, DeleteChunk, LoseBucket,
       connectionVars
  <1> QED
    BY <1>1, <1>2, <1>3

LEMMA MinOfTwo ==
  ASSUME NEW a \in Nat, NEW b \in Nat
  PROVE  /\ Min({a, b}) \in {a, b}
         /\ Min({a, b}) <= a /\ Min({a, b}) <= b
  <1>1. \E m \in {a, b} : \A n \in {a, b} : m <= n
    <2>1. CASE a <= b
      BY <2>1
    <2>2. CASE b <= a
      BY <2>2
    <2> QED
      BY <2>1, <2>2
  <1>2. /\ Min({a, b}) \in {a, b}
        /\ \A n \in {a, b} : Min({a, b}) <= n
    BY <1>1, Zenon DEF Min
  <1> QED
    BY <1>2

-----------------------------------------------------------------------------
(* Types.  An unload writes finitely many files, so that they can be counted. *)

LEMMA NoAskType ==
  /\ NoAsk \in Ask
  /\ \A outcome \in Outcomes : Ended(outcome) \in Ask
  <1>1. <<>> \in Seq(Nat)
    OBVIOUS
  <1>2. NoAsk \in Ask
    BY <1>1 DEF NoAsk, Ask, AskPcs, Outcomes
  <1> QED
    BY <1>2 DEF Ended, Ask

LEMMA ShardsFinite ==
  ASSUME NEW t \in StagedTables, NEW k \in 0 .. MaxFiles
  PROVE  Shards(t, k) \subseteq StagedObject /\ IsFiniteSet(Shards(t, k))
  <1> USE AdapterAssumptions
  <1> DEFINE f == [i \in 1 .. k |-> [table |-> t, n |-> i, data |-> TRUE]]
  <1>1. f \in Surjection(1 .. k, Shards(t, k))
    <2>1. \A i \in 1 .. k : f[i] \in Shards(t, k)
      BY DEF Shards
    <2>2. ASSUME NEW o \in Shards(t, k) PROVE o.n \in 1 .. k /\ f[o.n] = o
      <3>1. o.n \in 1 .. k /\ o = [table |-> t, n |-> o.n, data |-> TRUE]
        BY DEF Shards
      <3> QED
        BY <3>1
    <2> QED
      BY <2>1, <2>2 DEF Surjection
  <1>2. IsFiniteSet(1 .. k)
    BY FS_Interval
  <1>3. IsFiniteSet(Shards(t, k))
    BY <1>1, <1>2, FS_Surjection
  <1>4. ASSUME NEW o \in Shards(t, k) PROVE o \in StagedObject
    <2>1. o = [table |-> t, n |-> o.n, data |-> TRUE] /\ o.n \in 1 .. k
      BY DEF Shards
    <2>2. o.n \in 0 .. MaxFiles
      BY <2>1
    <2>3. [table |-> t, n |-> o.n, data |-> TRUE] \in StagedObject
      BY <2>2 DEF StagedObject
    <2> QED
      BY <2>1, <2>3
  <1> QED
    BY <1>3, <1>4

LEMMA UnloadsFinite ==
  ASSUME NEW kind \in Adapters, kind \in ToS3 \cup ToGCS, NEW t \in StagedTables,
         NEW files \in Unloads(kind, t)
  PROVE  files \subseteq StagedObject /\ IsFiniteSet(files)
  <1>1. CASE files = Shards(t, 1)
    BY <1>1, ShardsFinite, AdapterAssumptions
  <1>2. ASSUME NEW k \in 0 .. MaxFiles, files = Shards(t, k)
        PROVE  files \subseteq StagedObject /\ IsFiniteSet(files)
    BY <1>2, ShardsFinite
  <1>3. ASSUME NEW k \in 0 .. MaxFiles, files = Shards(t, k) \cup {Mark(t)}
        PROVE  files \subseteq StagedObject /\ IsFiniteSet(files)
    <2>1. IsFiniteSet(files)
      BY <1>3, ShardsFinite, FS_AddElement
    <2>2. Mark(t) \in StagedObject
      BY AdapterAssumptions DEF Mark, StagedObject
    <2> QED
      BY <1>3, <2>1, <2>2, ShardsFinite
  <1> QED
    BY <1>1, <1>2, <1>3 DEF Unloads, SnowflakeFiles, BigQueryFiles, DatabricksFiles,
       ClickHouseFiles, ToS3, ToGCS

TypeInv == ScriptsTypeOK /\ IsFiniteSet(bucket)

LEMMA InitTypeInv == ScriptsInit => TypeInv
  <1> SUFFICES ASSUME ScriptsInit PROVE TypeInv
    OBVIOUS
  <1>1. AdapterTypeOK
    BY NoAskType, AdapterAssumptions
    DEF ScriptsInit, AdapterInit, AdapterTypeOK, ConnectionInit, ConnectionTypeOK, NoAsk
  <1> QED
    BY <1>1, BenchmarkerInitType, FS_EmptySet
    DEF ScriptsInit, AdapterInit, TypeInv, ScriptsTypeOK

\* The call of x becomes one of its type.
Moves(x) == \E a \in Ask : a.batch < BatchSize /\ ask' = [ask EXCEPT ![x] = a]

LEMMA MovesType ==
  ASSUME AdapterTypeOK, NEW x \in Transfers, Moves(x)
  PROVE  /\ ask' \in [Transfers -> Ask]
         /\ \A y \in Transfers : ask'[y].batch < BatchSize
  BY DEF AdapterTypeOK, Moves

LEMMA FreshMoves ==
  ASSUME NEW x \in Transfers, NEW a \in Ask, a.batch = 0, ask' = [ask EXCEPT ![x] = a]
  PROVE  Moves(x)
  <1>1. a.batch < BatchSize
    BY AdapterAssumptions
  <1> QED
    BY <1>1, Zenon DEF Moves

LEMMA EndedMoves ==
  ASSUME NEW x \in Transfers, NEW outcome \in Outcomes,
         ask' = [ask EXCEPT ![x] = Ended(outcome)]
  PROVE  Moves(x)
  <1>1. Ended(outcome).batch = 0
    BY DEF Ended, NoAsk
  <1> QED
    BY <1>1, NoAskType, FreshMoves

LEMMA QueryMoves ==
  ASSUME AdapterTypeOK, NEW x \in Transfers, Query(x)
  PROVE  Moves(x) /\ ConnectionTypeOK' /\ bucket' = bucket
  <1>1. x \in Connections
    BY AdapterAssumptions
  <1>2. CASE Count(x)
    <2>1. PICK wrong \in BOOLEAN, outcome \in Outcomes :
            CountRows(x, wrong, outcome) /\ ask' = [ask EXCEPT ![x] = Ended(outcome)]
      BY <1>2 DEF Count
    <2>2. Moves(x)
      BY <2>1, EndedMoves
    <2> QED
      BY <1>1, <1>2, <2>1, <2>2
      DEF Count, CountRows, Leave, AdapterTypeOK, ConnectionTypeOK
  <1>3. CASE Time(x)
    <2>1. PICK wrong \in BOOLEAN, outcome \in Outcomes :
            ExecuteAndCount(x, wrong, outcome) /\ ask' = [ask EXCEPT ![x] = Ended(outcome)]
      BY <1>3 DEF Time
    <2>2. Moves(x)
      BY <2>1, EndedMoves
    <2> QED
      BY <1>1, <1>3, <2>1, <2>2
      DEF Time, ExecuteAndCount, RollBack, AdapterTypeOK, ConnectionTypeOK
  <1>4. CASE OpenQuery(x)
    <2>1. PICK outcome \in Outcomes, rows \in 0 .. MaxResult :
            /\ Leave(x, outcome)
            /\ ask' = [ask EXCEPT ![x] =
                 IF outcome # "rows" THEN Ended(outcome)
                 ELSE [NoAsk EXCEPT !.pc = "fetch", !.all = rows, !.left = rows]]
      BY <1>4 DEF OpenQuery
    <2>2. CASE outcome # "rows"
      BY <1>1, <1>4, <2>1, <2>2, EndedMoves
      DEF OpenQuery, Leave, AdapterTypeOK, ConnectionTypeOK
    <2>3. CASE outcome = "rows"
      <3> DEFINE a == [NoAsk EXCEPT !.pc = "fetch", !.all = rows, !.left = rows]
      <3>1. rows \in Nat
        BY AdapterAssumptions
      <3>2. a \in Ask
        BY <3>1, NoAskType DEF Ask, AskPcs
      <3>3. a.batch = 0
        BY DEF NoAsk
      <3>4. ask' = [ask EXCEPT ![x] = a]
        BY <2>1, <2>3
      <3> HIDE DEF a
      <3>5. Moves(x)
        BY <3>2, <3>3, <3>4, FreshMoves
      <3> QED
        BY <1>1, <1>4, <2>1, <3>5
        DEF OpenQuery, Leave, AdapterTypeOK, ConnectionTypeOK
    <2> QED
      BY <2>2, <2>3
  <1> QED
    BY <1>2, <1>3, <1>4 DEF Query

LEMMA YieldType ==
  ASSUME NEW a \in Ask, NEW k \in Nat
  PROVE  /\ Yield(a, k) \in Ask
         /\ Yield(a, k).batches = Append(a.batches, k)
         /\ Yield(a, k).sent = a.sent + k
         /\ Yield(a, k).all = a.all /\ Yield(a, k).left = a.left
         /\ Yield(a, k).batch = a.batch /\ Yield(a, k).pc = a.pc
         /\ Yield(a, k).table = a.table
         /\ Yield(a, k).chunks = a.chunks /\ Yield(a, k).refused = a.refused
  <1>1. Append(a.batches, k) \in Seq(Nat)
    BY DEF Ask
  <1>2. a.sent + k \in Nat
    BY DEF Ask
  <1> QED
    BY <1>1, <1>2 DEF Yield, Ask

LEMMA IterateMoves ==
  ASSUME AdapterTypeOK, NEW x \in Transfers, Iterate(x)
  PROVE  Moves(x) /\ ConnectionTypeOK' /\ bucket' = bucket
  <1> DEFINE a == ask[x]
  <1>1. /\ x \in Connections
        /\ BatchSize \in Nat \ {0}
    BY AdapterAssumptions
  <1>2. /\ a \in Ask /\ a.left \in Nat /\ a.batch \in Nat /\ a.batch < BatchSize
        /\ ask \in [Transfers -> Ask]
    BY DEF AdapterTypeOK, Ask
  <1>3. CASE FetchPage(x)
    <2> DEFINE k == Min({BatchSize, a.left})
    <2>1. k \in Nat /\ k <= a.left
      BY <1>1, <1>2, MinOfTwo
    <2>2. ask' = [ask EXCEPT ![x] =
            IF k = 0 THEN [a EXCEPT !.pc = "idle"] ELSE [Yield(a, k) EXCEPT !.left = @ - k]]
      BY <1>3 DEF FetchPage
    <2> HIDE DEF k, a
    <2>3. [a EXCEPT !.pc = "idle"] \in Ask /\ [a EXCEPT !.pc = "idle"].batch = a.batch
      BY <1>2 DEF Ask, AskPcs
    <2>4. /\ [Yield(a, k) EXCEPT !.left = @ - k] \in Ask
          /\ [Yield(a, k) EXCEPT !.left = @ - k].batch = a.batch
      <3> DEFINE y == Yield(a, k)
      <3>1. y \in Ask /\ y.left = a.left /\ y.batch = a.batch
        <4>1. a \in Ask /\ k \in Nat
          BY <1>2, <2>1
        <4> QED
          BY <4>1, YieldType
      <3> HIDE DEF y
      <3>2. y.left - k \in Nat
        BY <1>2, <2>1, <3>1
      <3>3. [y EXCEPT !.left = @ - k] \in Ask /\ [y EXCEPT !.left = @ - k].batch = a.batch
        BY <3>1, <3>2 DEF Ask
      <3> QED
        BY <3>3 DEF y
    <2>5. Moves(x)
      <3>1. CASE k = 0
        BY <1>2, <2>2, <2>3, <3>1 DEF Moves
      <3>2. CASE k # 0
        BY <1>2, <2>2, <2>4, <3>2 DEF Moves
      <3> QED
        BY <3>1, <3>2
    <2> QED
      BY <1>3, <2>5 DEF FetchPage, AdapterTypeOK, ConnectionTypeOK, connectionVars
  <1>4. CASE FetchRow(x)
    <2> DEFINE full == a.batch + 1 = BatchSize
               c == IF full THEN Yield(a, BatchSize) ELSE a
               d == [c EXCEPT !.left = @ - 1, !.batch = IF full THEN 0 ELSE @ + 1]
    <2>1. c \in Ask /\ c.left = a.left /\ c.batch = a.batch
      BY <1>1, <1>2, YieldType
    <2>2. a.left > 0 /\ ask' = [ask EXCEPT ![x] = d]
      BY <1>4 DEF FetchRow
    <2> HIDE DEF c, a
    <2>3. d \in Ask
      <3>1. c.left - 1 \in Nat /\ (IF full THEN 0 ELSE c.batch + 1) \in Nat
        BY <1>2, <2>1, <2>2
      <3> QED
        BY <2>1, <3>1 DEF Ask
    <2>4. d.batch = IF full THEN 0 ELSE a.batch + 1
      BY <2>1 DEF Ask
    <2>5. d.batch < BatchSize
      BY <1>1, <1>2, <2>4
    <2> HIDE DEF d
    <2>6. Moves(x)
      BY <2>2, <2>3, <2>5 DEF Moves
    <2> QED
      BY <1>4, <2>6 DEF FetchRow, AdapterTypeOK, ConnectionTypeOK, connectionVars
  <1>5. CASE YieldLast(x)
    <2> DEFINE c == IF a.batch > 0 THEN Yield(a, a.batch) ELSE a
               d == [c EXCEPT !.pc = "idle", !.batch = 0]
    <2>1. c \in Ask
      BY <1>1, <1>2, YieldType
    <2>2. ask' = [ask EXCEPT ![x] = d]
      BY <1>5 DEF YieldLast
    <2> HIDE DEF c
    <2>3. d \in Ask /\ d.batch = 0
      BY <2>1 DEF Ask, AskPcs
    <2> HIDE DEF d
    <2>4. Moves(x)
      BY <2>2, <2>3, FreshMoves
    <2> QED
      BY <1>5, <2>4 DEF YieldLast, AdapterTypeOK, ConnectionTypeOK, connectionVars
  <1>6. CASE LoseRows(x)
    <2>1. Moves(x)
      BY <1>6, EndedMoves DEF LoseRows, Outcomes
    <2> QED
      BY <1>1, <1>6, <2>1 DEF LoseRows, Leave, AdapterTypeOK, ConnectionTypeOK
  <1>7. CASE DropIterator(x)
    <2>1. NoAsk.batch = 0
      BY DEF NoAsk
    <2>2. Moves(x)
      BY <1>7, <2>1, NoAskType, FreshMoves DEF DropIterator
    <2> QED
      BY <1>7, <2>2 DEF DropIterator, AdapterTypeOK, ConnectionTypeOK, connectionVars
  <1> QED
    BY <1>3, <1>4, <1>5, <1>6, <1>7 DEF Iterate

LEMMA StageMoves ==
  ASSUME AdapterTypeOK, IsFiniteSet(bucket), NEW x \in Transfers, Stage(x)
  PROVE  /\ Moves(x) /\ ConnectionTypeOK'
         /\ bucket' \subseteq StagedObject /\ IsFiniteSet(bucket')
  <1> DEFINE a == ask[x]
             Room == bucket' \subseteq StagedObject /\ IsFiniteSet(bucket')
  <1>1. x \in Connections /\ BatchSize \in Nat \ {0}
    BY AdapterAssumptions
  <1>2. /\ a \in Ask /\ a.batch < BatchSize /\ a.chunks \subseteq StagedObject
        /\ a.table \in StagedTables \cup {"none"} /\ a.refused \subseteq StagedObject
        /\ ask \in [Transfers -> Ask] /\ bucket \subseteq StagedObject
    BY DEF AdapterTypeOK, Ask
  <1>3. adapter[x] \in Adapters
    BY <1>1 DEF AdapterTypeOK, ConnectionTypeOK
  <1>4. ConnectionTypeOK'
    BY Zenon DEF Stage, Unload, BeginCleanup, ListUnloaded, DeleteChunk, LoseBucket,
       AdapterTypeOK, ConnectionTypeOK, connectionVars
  <1>5. ASSUME NEW gone, bucket' = bucket \ gone PROVE Room
    BY <1>2, <1>5, FS_Subset
  <1>6. ASSUME NEW t \in StagedTables, Unload(x, t) PROVE Moves(x) /\ Room
    <2>1. PICK files \in Unloads(adapter[x], t) :
            \/ /\ bucket' = (bucket \ Overwritten(adapter[x], t)) \cup files
               /\ ask' = [ask EXCEPT ![x] = [NoAsk EXCEPT !.pc = "list", !.table = t]]
            \/ \E part \in SUBSET files, gone \in {{}, Overwritten(adapter[x], t)} :
                 /\ bucket' = (bucket \ gone) \cup part
                 /\ ask' = [ask EXCEPT ![x] = [Ended("lost") EXCEPT !.table = t]]
      BY <1>6 DEF Unload
    <2>2. files \subseteq StagedObject /\ IsFiniteSet(files)
      BY <1>3, <1>6, UnloadsFinite DEF Unload, CanUnload
    <2>3. ASSUME NEW gone, NEW part \in SUBSET files,
                 bucket' = (bucket \ gone) \cup part
          PROVE  Room
      <3>1. IsFiniteSet(bucket \ gone) /\ IsFiniteSet(part)
        BY <2>2, FS_Subset
      <3>2. IsFiniteSet(bucket')
        BY <2>3, <3>1, FS_Union
      <3> QED
        BY <1>2, <2>2, <2>3, <3>2
    <2>4. files \in SUBSET files
      OBVIOUS
    <2> HIDE DEF Room
    <2>5. Room
      <3>1. CASE bucket' = (bucket \ Overwritten(adapter[x], t)) \cup files
        BY <2>3, <2>4, <3>1
      <3>2. CASE \E part \in SUBSET files, gone \in {{}, Overwritten(adapter[x], t)} :
                   bucket' = (bucket \ gone) \cup part
        BY <2>3, <3>2
      <3> QED
        BY <2>1, <3>1, <3>2
    <2>6. /\ [NoAsk EXCEPT !.pc = "list", !.table = t] \in Ask
          /\ [NoAsk EXCEPT !.pc = "list", !.table = t].batch = 0
      BY NoAskType DEF Ask, AskPcs, NoAsk
    <2>7. /\ [Ended("lost") EXCEPT !.table = t] \in Ask
          /\ [Ended("lost") EXCEPT !.table = t].batch = 0
      BY ZenonT(30), NoAskType DEF Ask, Outcomes, Ended, NoAsk
    <2>8. Moves(x)
      BY <2>1, <2>6, <2>7, FreshMoves
    <2> QED
      BY <2>5, <2>8
  <1>7. ASSUME NEW t \in StagedTables, BeginCleanup(x, t) PROVE Moves(x) /\ Room
    <2> DEFINE b == [NoAsk EXCEPT !.pc = "delete", !.table = t, !.chunks = Under(t)]
    <2>1. Under(t) \subseteq StagedObject
      BY <1>2 DEF Under
    <2>2. b \in Ask /\ b.batch = 0
      BY <2>1, NoAskType DEF Ask, AskPcs, NoAsk
    <2>3. ask' = [ask EXCEPT ![x] = b] /\ bucket' = bucket
      BY <1>7 DEF BeginCleanup
    <2> HIDE DEF b
    <2> QED
      BY <1>2, <2>2, <2>3, FreshMoves
  <1>8. CASE ListUnloaded(x)
    <2> DEFINE k == CountFiles(adapter[x], Under(a.table))
               b == [a EXCEPT !.pc = "unloaded", !.files = k]
    <2>1. k \in Nat
      <3>1. /\ IsFiniteSet(Under(a.table))
            /\ IsFiniteSet({o \in Under(a.table) : o.data})
        BY FS_Subset DEF Under
      <3> QED
        BY <3>1, FS_CardinalityType DEF CountFiles
    <2>2. ask' = [ask EXCEPT ![x] = b] /\ bucket' = bucket
      BY <1>8 DEF ListUnloaded
    <2> HIDE DEF k, a
    <2>3. b \in Ask /\ b.batch = a.batch
      BY <1>2, <2>1 DEF Ask, AskPcs
    <2> HIDE DEF b
    <2>4. Moves(x)
      BY <1>2, <2>2, <2>3 DEF Moves
    <2> QED
      BY <1>2, <1>4, <2>2, <2>4
  <1>9. CASE DeleteChunk(x)
    <2>1. PICK chunk \in Chunks(x) : \E gone \in Deleted(adapter[x], chunk) :
            /\ bucket' = bucket \ gone
            /\ ask' = [ask EXCEPT ![x].chunks = @ \ chunk,
                                  ![x].refused = @ \cup (chunk \ gone),
                                  ![x].pc = IF ask[x].chunks = chunk THEN "cleaned" ELSE @]
      BY <1>9 DEF DeleteChunk
    <2>2. PICK gone \in Deleted(adapter[x], chunk) :
            /\ bucket' = bucket \ gone
            /\ ask' = [ask EXCEPT ![x].chunks = @ \ chunk,
                                  ![x].refused = @ \cup (chunk \ gone),
                                  ![x].pc = IF ask[x].chunks = chunk THEN "cleaned" ELSE @]
      BY <2>1
    <2>3. chunk \subseteq StagedObject
      BY <1>2 DEF Chunks
    <2> DEFINE b == [a EXCEPT !.chunks = @ \ chunk, !.refused = @ \cup (chunk \ gone),
                              !.pc = IF a.chunks = chunk THEN "cleaned" ELSE @]
    <2>4. ask' = [ask EXCEPT ![x] = b]
      BY <2>2
    <2> HIDE DEF a
    <2>5. b \in Ask /\ b.batch = a.batch
      BY <1>2, <2>3 DEF Ask, AskPcs
    <2> HIDE DEF b
    <2>6. Moves(x)
      BY <1>2, <2>4, <2>5 DEF Moves
    <2>7. Room
      BY <1>5, <2>2
    <2> QED
      BY <1>4, <2>6, <2>7
  <1>10. CASE LoseBucket(x)
    <2>1. PICK gone : bucket' = bucket \ gone
      BY <1>10 DEF LoseBucket
    <2>2. ask' = [ask EXCEPT ![x] = Ended("lost")]
      BY <1>10 DEF LoseBucket, Ended
    <2>3. Moves(x)
      BY <2>2, EndedMoves DEF Outcomes
    <2>4. Room
      BY <1>5, <2>1
    <2> QED
      BY <1>4, <2>3, <2>4
  <1> QED
    BY <1>4, <1>6, <1>7, <1>8, <1>9, <1>10 DEF Stage

LEMMA StepTypeInv ==
  TypeInv /\ [ScriptsNext]_scriptsVars => TypeInv'
  <1> SUFFICES ASSUME TypeInv, [ScriptsNext]_scriptsVars PROVE TypeInv'
    OBVIOUS
  <1>1. BenchmarkerTypeOK /\ AdapterTypeOK /\ IsFiniteSet(bucket)
    BY DEF TypeInv, ScriptsTypeOK
  <1>2. CASE Benchmarking
    <2>1. BenchmarkerTypeOK'
      BY <1>1, <1>2, NextType DEF Benchmarking
    <2> QED
      BY <1>1, <1>2, <2>1
      DEF Benchmarking, TypeInv, ScriptsTypeOK, AdapterTypeOK, BenchmarkerTypeOK
  <1>3. CASE Transferring
    <2>1. PICK x \in Transfers : Query(x) \/ Iterate(x) \/ Stage(x)
      BY <1>3 DEF Transferring, AdapterNext
    <2>2. /\ Moves(x) /\ ConnectionTypeOK'
          /\ bucket' \subseteq StagedObject /\ IsFiniteSet(bucket')
      BY <1>1, <2>1, QueryMoves, IterateMoves, StageMoves DEF AdapterTypeOK
    <2>3. AdapterTypeOK'
      BY <1>1, <2>2, MovesType DEF AdapterTypeOK
    <2>4. BenchmarkerTypeOK'
      BY <1>1, <1>3, <2>2, StoreStutterType DEF Transferring, BenchmarkerTypeOK, benchVars
    <2> QED
      BY <1>3, <2>2, <2>3, <2>4 DEF TypeInv, ScriptsTypeOK, Transferring
  <1>4. CASE UNCHANGED scriptsVars
    BY <1>1, <1>4, StoreStutterType
    DEF scriptsVars, benchVars, connectionVars, TypeInv, ScriptsTypeOK, BenchmarkerTypeOK,
        AdapterTypeOK, ConnectionTypeOK
  <1> QED
    BY <1>2, <1>3, <1>4 DEF ScriptsNext

LEMMA TypeInvCorrect == ScriptsSpec => []TypeInv
  BY InitTypeInv, StepTypeInv, PTL DEF ScriptsSpec, ScriptsNext

\* The scripts keep their types, and the bucket stays finite, whatever the queries,
\* the unloads and the removals come to.
THEOREM ScriptsTypeCorrect == ScriptsSpec => []ScriptsTypeOK
  <1>1. TypeInv => ScriptsTypeOK
    BY DEF TypeInv
  <1> QED
    BY <1>1, TypeInvCorrect, PTL

-----------------------------------------------------------------------------
(* What each step does to the bucket and to the call that makes it. *)

SameList(x) ==
  /\ ask'[x].table = ask[x].table
  /\ ask'[x].chunks = ask[x].chunks /\ ask'[x].refused = ask[x].refused

NoList(x) == ask'[x].chunks = {} /\ ask'[x].refused = {}

LEMMA EndedFields ==
  ASSUME AdapterTypeOK, NEW x \in Transfers, NEW outcome,
         ask' = [ask EXCEPT ![x] = Ended(outcome)]
  PROVE  /\ ask'[x].pc = "idle" /\ NoList(x)
         /\ ask'[x].batches = <<>> /\ ask'[x].sent = 0 /\ ask'[x].batch = 0
         /\ ask'[x].left = 0 /\ ask'[x].all = 0
  BY DEF AdapterTypeOK, Ended, NoAsk, NoList

LEMMA ReadFields ==
  ASSUME AdapterTypeOK, NEW x \in Transfers, Query(x) \/ Iterate(x)
  PROVE  /\ bucket' = bucket
         /\ ask'[x].pc \in {"idle", "fetch"}
         /\ SameList(x) \/ NoList(x)
  <1> DEFINE a == ask[x]
  <1>1. /\ a \in Ask /\ a.left \in Nat /\ a.batch \in Nat /\ BatchSize \in Nat
        /\ ask \in [Transfers -> Ask]
    BY AdapterAssumptions DEF AdapterTypeOK, Ask
  <1>2. CASE Count(x)
    BY <1>2, EndedFields DEF Count
  <1>3. CASE Time(x)
    BY <1>3, EndedFields DEF Time
  <1>4. CASE OpenQuery(x)
    <2>1. PICK outcome \in Outcomes, rows \in 0 .. MaxResult :
            /\ outcome \in Outcomes
            /\ ask' = [ask EXCEPT ![x] =
                 IF outcome # "rows" THEN Ended(outcome)
                 ELSE [NoAsk EXCEPT !.pc = "fetch", !.all = rows, !.left = rows]]
      BY <1>4 DEF OpenQuery
    <2>2. ask'[x].pc \in {"idle", "fetch"} /\ NoList(x)
      BY <1>1, <2>1 DEF Ended, NoAsk, NoList
    <2> QED
      BY <1>4, <2>2 DEF OpenQuery
  <1>5. CASE FetchPage(x)
    <2> DEFINE k == Min({BatchSize, a.left})
    <2>1. k \in Nat
      BY <1>1, MinOfTwo
    <2>2. ask'[x] = IF k = 0 THEN [a EXCEPT !.pc = "idle"]
                    ELSE [Yield(a, k) EXCEPT !.left = @ - k]
      BY <1>1, <1>5 DEF FetchPage
    <2> HIDE DEF k
    <2>3. ask'[x].pc \in {"idle", "fetch"} /\ SameList(x)
      BY <1>1, <1>5, <2>1, <2>2 DEF FetchPage, Fetching, Yield, Ask, SameList
    <2> QED
      BY <1>5, <2>3 DEF FetchPage
  <1>6. CASE FetchRow(x)
    BY <1>1, <1>6 DEF FetchRow, Fetching, Yield, Ask, SameList
  <1>7. CASE YieldLast(x)
    BY <1>1, <1>7 DEF YieldLast, Fetching, Yield, Ask, SameList
  <1>8. CASE LoseRows(x)
    BY <1>8, EndedFields DEF LoseRows
  <1>9. CASE DropIterator(x)
    BY <1>1, <1>9 DEF DropIterator, NoAsk, NoList
  <1> QED
    BY <1>2, <1>3, <1>4, <1>5, <1>6, <1>7, <1>8, <1>9 DEF Query, Iterate

LEMMA UnloadFields ==
  ASSUME AdapterTypeOK, NEW x \in Transfers, NEW t \in StagedTables, Unload(x, t)
  PROVE  /\ ask'[x].table = t /\ ask'[x].pc \in {"list", "idle"} /\ NoList(x)
         /\ \A o \in bucket \ bucket' : o.table = t
         /\ adapter[x] # "databricks" => \A o \in bucket' \ bucket : o.data
  <1>1. PICK files \in Unloads(adapter[x], t) :
          \/ /\ bucket' = (bucket \ Overwritten(adapter[x], t)) \cup files
             /\ ask' = [ask EXCEPT ![x] = [NoAsk EXCEPT !.pc = "list", !.table = t]]
          \/ \E part \in SUBSET files, gone \in {{}, Overwritten(adapter[x], t)} :
               /\ bucket' = (bucket \ gone) \cup part
               /\ ask' = [ask EXCEPT ![x] = [Ended("lost") EXCEPT !.table = t]]
    BY DEF Unload
  <1>2. ask'[x].table = t /\ ask'[x].pc \in {"list", "idle"} /\ NoList(x)
    BY ZenonT(30), <1>1 DEF AdapterTypeOK, Ended, NoAsk, NoList
  <1>3. /\ bucket' \subseteq bucket \cup files
        /\ bucket \ bucket' \subseteq Overwritten(adapter[x], t)
    BY <1>1
  <1>4. \A o \in Overwritten(adapter[x], t) : o.table = t
    BY DEF Overwritten, Under
  <1>5. adapter[x] # "databricks" => \A o \in files : o.data
    <2>1. \A k : \A o \in Shards(t, k) : o.data
      BY DEF Shards
    <2>2. adapter[x] \in ToS3 \cup ToGCS
      BY DEF Unload, CanUnload
    <2>3. adapter[x] # "databricks" => \E k : files = Shards(t, k)
      BY <2>2 DEF Unloads, SnowflakeFiles, BigQueryFiles, ClickHouseFiles, ToS3, ToGCS
    <2> QED
      BY <2>1, <2>3
  <1> QED
    BY <1>2, <1>3, <1>4, <1>5

LEMMA BeginCleanupFields ==
  ASSUME AdapterTypeOK, NEW x \in Transfers, NEW t \in StagedTables, BeginCleanup(x, t)
  PROVE  /\ bucket' = bucket
         /\ ask'[x].pc = "delete" /\ ask'[x].table = t
         /\ ask'[x].chunks = Under(t) /\ ask'[x].refused = {}
  BY DEF AdapterTypeOK, BeginCleanup, NoAsk

LEMMA ListFields ==
  ASSUME AdapterTypeOK, NEW x \in Transfers, ListUnloaded(x)
  PROVE  /\ bucket' = bucket /\ SameList(x)
         /\ ask'[x].pc = "unloaded"
         /\ ask'[x].files = CountFiles(adapter[x], Under(ask[x].table))
  <1>1. ask[x] \in Ask
    BY DEF AdapterTypeOK
  <1> QED
    BY <1>1 DEF AdapterTypeOK, Ask, ListUnloaded, SameList

LEMMA DeleteFields ==
  ASSUME AdapterTypeOK, NEW x \in Transfers, DeleteChunk(x)
  PROVE  \E chunk \in SUBSET ask[x].chunks : \E gone \in SUBSET chunk :
           /\ bucket' = bucket \ gone
           /\ ask'[x].table = ask[x].table
           /\ ask'[x].chunks = ask[x].chunks \ chunk
           /\ ask'[x].refused = ask[x].refused \cup (chunk \ gone)
           /\ ask'[x].pc = IF ask[x].chunks = chunk THEN "cleaned" ELSE "delete"
           /\ adapter[x] \in ToGCS => gone = chunk
           /\ ask[x].pc = "delete"
  <1>1. ask[x] \in Ask /\ ask[x].pc = "delete"
    BY DEF AdapterTypeOK, DeleteChunk
  <1>2. PICK chunk \in Chunks(x) : \E gone \in Deleted(adapter[x], chunk) :
          /\ bucket' = bucket \ gone
          /\ ask' = [ask EXCEPT ![x].chunks = @ \ chunk,
                                ![x].refused = @ \cup (chunk \ gone),
                                ![x].pc = IF ask[x].chunks = chunk THEN "cleaned" ELSE @]
    BY DEF DeleteChunk
  <1>3. PICK gone \in Deleted(adapter[x], chunk) :
          /\ bucket' = bucket \ gone
          /\ ask' = [ask EXCEPT ![x].chunks = @ \ chunk,
                                ![x].refused = @ \cup (chunk \ gone),
                                ![x].pc = IF ask[x].chunks = chunk THEN "cleaned" ELSE @]
    BY <1>2
  <1>4. chunk \in SUBSET ask[x].chunks /\ gone \in SUBSET chunk
    BY DEF Chunks, Deleted
  <1>5. adapter[x] \in ToGCS => gone = chunk
    BY DEF Deleted, ToGCS, ToS3
  <1>6. /\ ask'[x].table = ask[x].table
        /\ ask'[x].chunks = ask[x].chunks \ chunk
        /\ ask'[x].refused = ask[x].refused \cup (chunk \ gone)
        /\ ask'[x].pc = IF ask[x].chunks = chunk THEN "cleaned" ELSE "delete"
    BY <1>1, <1>3 DEF AdapterTypeOK, Ask
  <1> QED
    BY <1>1, <1>3, <1>4, <1>5, <1>6

LEMMA LoseBucketFields ==
  ASSUME AdapterTypeOK, NEW x \in Transfers, LoseBucket(x)
  PROVE  /\ bucket' \subseteq bucket /\ bucket \ bucket' \subseteq ask[x].chunks
         /\ ask'[x].pc = "idle" /\ NoList(x)
  <1>1. bucket' \subseteq bucket /\ bucket \ bucket' \subseteq ask[x].chunks
    BY DEF LoseBucket, Chunks
  <1>2. ask'[x].pc = "idle" /\ NoList(x)
    BY DEF AdapterTypeOK, LoseBucket, NoAsk, NoList
  <1> QED
    BY <1>1, <1>2

-----------------------------------------------------------------------------
(* Removals, by any number of transfers. *)

\* What a step of x does to its own list.
LEMMA ListStep ==
  ASSUME AdapterTypeOK, OwnList, NEW x \in Transfers, Query(x) \/ Iterate(x) \/ Stage(x)
  PROVE  /\ ask'[x].chunks \subseteq {o \in StagedObject : o.table = ask'[x].table}
         /\ adapter[x] \in ToGCS => ask'[x].refused = {}
  <1>1. /\ ask[x].chunks \subseteq {o \in StagedObject : o.table = ask[x].table}
        /\ adapter[x] \in ToGCS => ask[x].refused = {}
    BY DEF OwnList
  <1>2. CASE Query(x) \/ Iterate(x)
    BY <1>1, <1>2, ReadFields DEF SameList, NoList
  <1>3. ASSUME NEW t \in StagedTables, Unload(x, t) PROVE NoList(x)
    BY <1>3, UnloadFields
  <1>4. CASE \E t \in StagedTables : BeginCleanup(x, t)
    <2>1. PICK t \in StagedTables : BeginCleanup(x, t)
      BY <1>4
    <2>2. ask'[x].table = t /\ ask'[x].chunks = Under(t) /\ ask'[x].refused = {}
      BY <2>1, BeginCleanupFields
    <2> QED
      BY <2>2 DEF Under, AdapterTypeOK
  <1>5. CASE ListUnloaded(x)
    BY <1>1, <1>5, ListFields DEF SameList
  <1>6. CASE DeleteChunk(x)
    BY <1>1, <1>6, DeleteFields
  <1>7. CASE LoseBucket(x)
    BY <1>7, LoseBucketFields DEF NoList
  <1> QED
    BY <1>2, <1>3, <1>4, <1>5, <1>6, <1>7 DEF Stage, NoList

LEMMA StepOwnList ==
  TypeInv /\ OwnList /\ [ScriptsNext]_scriptsVars => OwnList'
  <1> SUFFICES ASSUME TypeInv, OwnList, [ScriptsNext]_scriptsVars PROVE OwnList'
    OBVIOUS
  <1>1. AdapterTypeOK /\ ask \in [Transfers -> Ask]
    BY DEF TypeInv, ScriptsTypeOK, AdapterTypeOK
  <1>2. ASSUME NEW x \in Transfers, Query(x) \/ Iterate(x) \/ Stage(x) PROVE OwnList'
    BY <1>1, <1>2, OwnCall, ListStep DEF OwnList
  <1>3. CASE UNCHANGED <<adapter, bucket, ask>>
    BY <1>3 DEF OwnList
  <1> QED
    BY <1>2, <1>3, AnyStep

LEMMA OwnListCorrect == ScriptsSpec => []OwnList
  <1>1. ScriptsInit => OwnList
    BY DEF ScriptsInit, AdapterInit, OwnList, NoAsk
  <1> QED
    BY <1>1, TypeInvCorrect, StepOwnList, PTL DEF ScriptsSpec, ScriptsNext

\* An object that goes is one of the table that a transfer unloads or removes,
\* however many transfers there are.
THEOREM OtherTablesStay == ScriptsSpec => OthersStay
  <1> DEFINE Gone == \A o \in bucket \ bucket' :
                       \E x \in Transfers : o.table \in {ask[x].table, ask'[x].table}
  <1>1. TypeInv /\ OwnList /\ [ScriptsNext]_scriptsVars => [Gone]_adapterVars
    <2> SUFFICES ASSUME TypeInv, OwnList, [ScriptsNext]_scriptsVars PROVE Gone
      OBVIOUS
    <2>1. AdapterTypeOK
      BY DEF TypeInv, ScriptsTypeOK
    <2>2. ASSUME NEW x \in Transfers, Query(x) \/ Iterate(x) \/ Stage(x),
                 NEW o \in bucket \ bucket'
          PROVE  o.table \in {ask[x].table, ask'[x].table}
      <3>1. o \in ask[x].chunks => o.table = ask[x].table
        BY DEF OwnList
      <3>2. CASE Query(x) \/ Iterate(x)
        BY <2>1, <3>2, ReadFields
      <3>3. ASSUME NEW t \in StagedTables, Unload(x, t) PROVE o.table = ask'[x].table
        BY <2>1, <3>3, UnloadFields
      <3>4. ASSUME NEW t \in StagedTables, BeginCleanup(x, t) PROVE FALSE
        BY <2>1, <3>4, BeginCleanupFields
      <3>5. CASE ListUnloaded(x)
        BY <2>1, <3>5, ListFields
      <3>6. CASE DeleteChunk(x)
        BY <2>1, <3>1, <3>6, DeleteFields
      <3>7. CASE LoseBucket(x)
        BY <2>1, <3>1, <3>7, LoseBucketFields
      <3> QED
        BY <2>2, <3>2, <3>3, <3>4, <3>5, <3>6, <3>7 DEF Stage
    <2>3. CASE UNCHANGED <<adapter, bucket, ask>>
      BY <2>3
    <2> QED
      BY <2>2, <2>3, AnyStep
  <1> QED
    BY <1>1, TypeInvCorrect, OwnListCorrect, PTL DEF ScriptsSpec, ScriptsNext, OthersStay

-----------------------------------------------------------------------------
(* What a transfer is told, if those of a run follow one another. *)

LEMMA StepNothingForgotten ==
  ASSUME OneTransfer
  PROVE  TypeInv /\ OwnList /\ NothingForgotten /\ [ScriptsNext]_scriptsVars
           => NothingForgotten'
  <1> SUFFICES ASSUME TypeInv, OwnList, NothingForgotten, [ScriptsNext]_scriptsVars
               PROVE  NothingForgotten'
    OBVIOUS
  <1>1. AdapterTypeOK
    BY DEF TypeInv, ScriptsTypeOK
  <1>2. ASSUME NEW x \in Transfers, Query(x) \/ Iterate(x) \/ Stage(x)
        PROVE  NothingForgotten'
    <2>1. CASE ask'[x].pc \notin {"delete", "cleaned"}
      BY <2>1 DEF NothingForgotten, OneTransfer
    <2>2. CASE Query(x) \/ Iterate(x)
      BY <1>1, <2>1, <2>2, ReadFields
    <2>3. ASSUME NEW t \in StagedTables, Unload(x, t) PROVE NothingForgotten'
      BY <1>1, <2>1, <2>3, UnloadFields
    <2>4. ASSUME NEW t \in StagedTables, BeginCleanup(x, t) PROVE NothingForgotten'
      BY <1>1, <2>4, BeginCleanupFields DEF NothingForgotten, OneTransfer, Under
    <2>5. CASE ListUnloaded(x)
      BY <1>1, <2>1, <2>5, ListFields
    <2>6. CASE DeleteChunk(x)
      <3>1. PICK chunk \in SUBSET ask[x].chunks : \E gone \in SUBSET chunk :
              /\ bucket' = bucket \ gone
              /\ ask'[x].table = ask[x].table
              /\ ask'[x].chunks = ask[x].chunks \ chunk
              /\ ask'[x].refused = ask[x].refused \cup (chunk \ gone)
              /\ ask'[x].pc = IF ask[x].chunks = chunk THEN "cleaned" ELSE "delete"
              /\ ask[x].pc = "delete"
        BY <1>1, <2>6, DeleteFields
      <3>2. Under(ask[x].table) \subseteq ask[x].chunks \cup ask[x].refused
        BY <3>1 DEF NothingForgotten
      <3>3. {o \in bucket' : o.table = ask'[x].table}
              \subseteq ask'[x].chunks \cup ask'[x].refused
        BY <3>1, <3>2 DEF Under
      <3>4. ask'[x].pc = "cleaned" => ask'[x].chunks = {}
        BY <3>1
      <3> QED
        BY <3>3, <3>4 DEF NothingForgotten, OneTransfer, Under
    <2>7. CASE LoseBucket(x)
      BY <1>1, <2>1, <2>7, LoseBucketFields
    <2> QED
      BY <1>2, <2>2, <2>3, <2>4, <2>5, <2>6, <2>7 DEF Stage
  <1>3. CASE UNCHANGED <<adapter, bucket, ask>>
    BY <1>3 DEF NothingForgotten, Under
  <1> QED
    BY <1>2, <1>3, AnyStep

\* A removal that returns has left nothing of its table but what S3 refused to
\* delete, however many requests it took.
THEOREM RemovalIsComplete ==
  ASSUME OneTransfer
  PROVE  ScriptsSpec => []CleanupIsComplete
  <1>1. ScriptsInit => NothingForgotten
    BY DEF ScriptsInit, AdapterInit, NothingForgotten, NoAsk
  <1>2. OwnList /\ NothingForgotten => CleanupIsComplete
    BY DEF OwnList, NothingForgotten, CleanupIsComplete
  <1> QED
    BY <1>1, <1>2, TypeInvCorrect, OwnListCorrect, StepNothingForgotten, PTL
    DEF ScriptsSpec, ScriptsNext

LEMMA StepReport ==
  ASSUME OneTransfer
  PROVE  TypeInv /\ MarksAreOfDatabricks /\ ReportIsWhatLoads /\ [ScriptsNext]_scriptsVars
           => MarksAreOfDatabricks' /\ ReportIsWhatLoads'
  <1> SUFFICES ASSUME TypeInv, MarksAreOfDatabricks, ReportIsWhatLoads,
                      [ScriptsNext]_scriptsVars
               PROVE  MarksAreOfDatabricks' /\ ReportIsWhatLoads'
    OBVIOUS
  <1>1. AdapterTypeOK
    BY DEF TypeInv, ScriptsTypeOK
  <1>2. ASSUME NEW x \in Transfers, Query(x) \/ Iterate(x) \/ Stage(x)
        PROVE  MarksAreOfDatabricks' /\ ReportIsWhatLoads'
    <2>1. adapter' = adapter
      BY <1>1, <1>2, OwnCall DEF AdapterTypeOK
    <2>2. adapter[x] # "databricks" => \A o \in bucket : o.data
      BY DEF MarksAreOfDatabricks
    <2>3. ASSUME adapter[x] # "databricks" => \A o \in bucket' \ bucket : o.data
          PROVE  MarksAreOfDatabricks'
      BY <2>1, <2>2, <2>3 DEF MarksAreOfDatabricks, OneTransfer
    <2>4. ASSUME ask'[x].pc # "unloaded" PROVE ReportIsWhatLoads'
      BY <2>4 DEF ReportIsWhatLoads, OneTransfer
    <2>5. CASE Query(x) \/ Iterate(x)
      BY <1>1, <2>3, <2>4, <2>5, ReadFields
    <2>6. ASSUME NEW t \in StagedTables, Unload(x, t)
          PROVE  MarksAreOfDatabricks' /\ ReportIsWhatLoads'
      BY <1>1, <2>3, <2>4, <2>6, UnloadFields
    <2>7. ASSUME NEW t \in StagedTables, BeginCleanup(x, t)
          PROVE  MarksAreOfDatabricks' /\ ReportIsWhatLoads'
      BY <1>1, <2>3, <2>4, <2>7, BeginCleanupFields
    <2>8. CASE ListUnloaded(x)
      <3> DEFINE t == ask[x].table
      <3>1. /\ bucket' = bucket /\ ask'[x].table = t
            /\ ask'[x].files = CountFiles(adapter[x], Under(t))
        BY <1>1, <2>8, ListFields DEF SameList
      <3>2. CountFiles(adapter[x], Under(t)) = Cardinality(Loadable(t))
        <4>1. CASE adapter[x] = "databricks"
          BY <4>1 DEF CountFiles, Loadable
        <4>2. CASE adapter[x] # "databricks"
          <5>1. Loadable(t) = Under(t)
            BY <2>2, <4>2 DEF Loadable, Under
          <5> QED
            BY <4>2, <5>1 DEF CountFiles
        <4> QED
          BY <4>1, <4>2
      <3>3. ReportIsWhatLoads'
        BY ZenonT(30), <3>1, <3>2 DEF ReportIsWhatLoads, OneTransfer, Loadable, Under
      <3> QED
        BY <2>3, <3>1, <3>3
    <2>9. CASE DeleteChunk(x)
      <3>1. bucket' \subseteq bucket /\ ask'[x].pc # "unloaded"
        BY <1>1, <2>9, DeleteFields
      <3> QED
        BY <2>3, <2>4, <3>1
    <2>10. CASE LoseBucket(x)
      BY <1>1, <2>3, <2>4, <2>10, LoseBucketFields
    <2> QED
      BY <1>2, <2>5, <2>6, <2>7, <2>8, <2>9, <2>10 DEF Stage
  <1>3. CASE UNCHANGED <<adapter, bucket, ask>>
    BY <1>3 DEF MarksAreOfDatabricks, ReportIsWhatLoads, Loadable, Under
  <1> QED
    BY <1>2, <1>3, AnyStep

\* The files that an unload reports are those that ClickHouse will load, whatever
\* an earlier unload of the table has left.
THEOREM ReportIsRight ==
  ASSUME OneTransfer
  PROVE  ScriptsSpec => []ReportIsWhatLoads
  <1>1. ScriptsInit => MarksAreOfDatabricks /\ ReportIsWhatLoads
    BY DEF ScriptsInit, AdapterInit, MarksAreOfDatabricks, ReportIsWhatLoads, NoAsk
  <1> QED
    BY <1>1, TypeInvCorrect, StepReport, PTL DEF ScriptsSpec, ScriptsNext

-----------------------------------------------------------------------------
(* The batches of a query, by any number of transfers. *)

BatchesInv == BatchesAreTheRows /\ OnlyTheLastIsShort /\ PagesAreBatches

\* The same of one call.
Reading(a, kind) ==
  LET n == Len(a.batches) IN
  /\ \A i \in 1 .. n : a.batches[i] \in 1 .. BatchSize
  /\ \A i \in 1 .. n - 1 : a.batches[i] = BatchSize
  /\ a.sent + a.batch + a.left = a.all
  /\ a.pc # "fetch" => a.sent = a.all
  /\ a.pc = "fetch" =>
       \A i \in 1 .. n : a.batches[i] = BatchSize \/ (kind \in Paging /\ a.left = 0)
  /\ kind \in Paging => a.batch = 0

LEMMA BatchesInvIsReading ==
  BatchesInv <=> \A x \in Transfers : Reading(ask[x], adapter[x])
  BY DEF BatchesInv, BatchesAreTheRows, OnlyTheLastIsShort, PagesAreBatches, Reading, Fetching

LEMMA NothingRead ==
  ASSUME NEW a, a.batches = <<>>, a.sent = 0, a.batch = 0, a.left = a.all, a.left \in Nat,
         a.pc # "fetch" => a.left = 0, NEW kind
  PROVE  Reading(a, kind)
  BY DEF Reading

\* One batch more, of k rows: the ones before it are full, and so is this one if
\* there is more to read.
LEMMA OneBatchMore ==
  ASSUME NEW a \in Ask, NEW b \in Ask, NEW kind, NEW k \in 1 .. BatchSize,
         Reading(a, kind), a.pc = "fetch", kind \in Paging => a.left > 0,
         b.batches = Append(a.batches, k), b.sent = a.sent + k, b.all = a.all,
         kind \in Paging => b.batch = 0,
         b.sent + b.batch + b.left = b.all, b.pc # "fetch" => b.batch = 0 /\ b.left = 0,
         b.pc = "fetch" => k = BatchSize \/ (kind \in Paging /\ b.left = 0)
  PROVE  Reading(b, kind)
  <1> DEFINE n == Len(a.batches)
  <1>1. a.batches \in Seq(Nat) /\ n \in Nat
    BY DEF Ask
  <1>2. Len(b.batches) = n + 1 /\ b.batches[n + 1] = k
    BY <1>1
  <1>3. \A i \in 1 .. n : b.batches[i] = a.batches[i]
    BY <1>1
  <1>4. \A i \in 1 .. n : a.batches[i] = BatchSize
    BY DEF Reading
  <1>5. BatchSize \in 1 .. BatchSize
    BY AdapterAssumptions
  <1>6. /\ \A i \in 1 .. n + 1 : i \in 1 .. n \/ i = n + 1
        /\ \A i \in 1 .. (n + 1) - 1 : i \in 1 .. n
    BY <1>1
  <1> HIDE DEF n
  <1>7. \A i \in 1 .. n + 1 : b.batches[i] \in 1 .. BatchSize
    BY <1>2, <1>3, <1>4, <1>5, <1>6
  <1>8. \A i \in 1 .. (n + 1) - 1 : b.batches[i] = BatchSize
    BY <1>3, <1>4, <1>6
  <1>9. b.pc = "fetch" =>
          \A i \in 1 .. n + 1 : b.batches[i] = BatchSize \/ (kind \in Paging /\ b.left = 0)
    BY <1>2, <1>3, <1>4, <1>6
  <1>10. b.pc # "fetch" => b.sent = b.all
    BY DEF Ask
  <1> QED
    BY <1>2, <1>7, <1>8, <1>9, <1>10 DEF Reading

LEMMA ReadStep ==
  ASSUME AdapterTypeOK, NEW x \in Transfers, Query(x) \/ Iterate(x),
         Reading(ask[x], adapter[x])
  PROVE  Reading(ask'[x], adapter[x])
  <1> DEFINE a == ask[x]
             b == ask'[x]
             kind == adapter[x]
  <1>1. /\ a \in Ask /\ a.left \in Nat /\ a.batch \in Nat /\ a.batch < BatchSize
        /\ a.sent \in Nat /\ a.all \in Nat /\ a.batches \in Seq(Nat)
        /\ BatchSize \in Nat \ {0}
        /\ ask \in [Transfers -> Ask]
    BY AdapterAssumptions DEF AdapterTypeOK, Ask
  <1>0. /\ a.left \in Nat /\ a.batch \in Nat /\ a.sent \in Nat /\ a.all \in Nat
        /\ BatchSize \in Nat \ {0}
    BY <1>1
  <1>2. b \in Ask
    BY QueryMoves, IterateMoves, MovesType
  <1>3. ASSUME NEW outcome, ask' = [ask EXCEPT ![x] = Ended(outcome)]
        PROVE  Reading(b, kind)
    <2>1. /\ b.batches = <<>> /\ b.sent = 0 /\ b.batch = 0 /\ b.left = 0 /\ b.all = 0
      BY <1>3, EndedFields
    <2> HIDE DEF b
    <2> QED
      BY <2>1, NothingRead
  <1>4. CASE Count(x) \/ Time(x) \/ LoseRows(x)
    BY <1>3, <1>4 DEF Count, Time, LoseRows
  <1>5. CASE OpenQuery(x)
    <2>1. PICK outcome \in Outcomes, rows \in 0 .. MaxResult :
            ask' = [ask EXCEPT ![x] =
              IF outcome # "rows" THEN Ended(outcome)
              ELSE [NoAsk EXCEPT !.pc = "fetch", !.all = rows, !.left = rows]]
      BY <1>5 DEF OpenQuery
    <2>2. CASE outcome = "rows"
      <3>1. /\ b.batches = <<>> /\ b.sent = 0 /\ b.batch = 0 /\ b.pc = "fetch"
            /\ b.left = rows /\ b.all = rows /\ rows \in Nat
        BY <1>1, <2>1, <2>2, AdapterAssumptions DEF NoAsk
      <3> QED
        BY <1>1, <3>1, NothingRead
    <2> QED
      BY <1>3, <2>1, <2>2
  <1>6. CASE DropIterator(x)
    <2>1. /\ b.batches = <<>> /\ b.sent = 0 /\ b.batch = 0 /\ b.left = 0 /\ b.all = 0
      BY <1>1, <1>6 DEF DropIterator, NoAsk
    <2> QED
      BY <1>1, <2>1, NothingRead
  <1>7. CASE FetchPage(x)
    <2> DEFINE k == Min({BatchSize, a.left})
    <2>1. k \in Nat /\ k <= a.left /\ k <= BatchSize /\ k \in {BatchSize, a.left}
      BY <1>1, MinOfTwo
    <2>2. /\ b = IF k = 0 THEN [a EXCEPT !.pc = "idle"] ELSE [Yield(a, k) EXCEPT !.left = @ - k]
          /\ a.pc = "fetch" /\ kind \in Paging
      BY <1>1, <1>7 DEF FetchPage, Fetching
    <2> HIDE DEF k, a, b, kind
    <2>3. CASE k = 0
      <3>1. /\ b.batches = a.batches /\ b.sent = a.sent /\ b.batch = a.batch
            /\ b.left = a.left /\ b.all = a.all /\ b.pc = "idle"
        BY <1>1, <2>2, <2>3 DEF Ask
      <3>2. Reading(a, kind) /\ a.batch = 0 /\ a.sent + a.batch + a.left = a.all
        BY <2>2 DEF Reading, a, kind
      <3>3. a.left = 0 /\ b.sent = b.all
        BY <1>1, <2>1, <2>3, <3>1, <3>2
      <3>4. Reading(b, kind)
        BY <1>1, <3>1, <3>2, <3>3 DEF Reading
      <3> QED
        BY <3>4 DEF b, kind
    <2>4. CASE k # 0
      <3>1. /\ b.batches = Append(a.batches, k) /\ b.sent = a.sent + k /\ b.batch = a.batch
            /\ b.left = a.left - k /\ b.all = a.all /\ b.pc = "fetch"
        BY <1>1, <2>1, <2>2, <2>4 DEF Yield, Ask
      <3>2. k \in 1 .. BatchSize /\ a.left > 0 /\ (k = BatchSize \/ b.left = 0)
        BY <1>1, <2>1, <2>4, <3>1
      <3>3. Reading(a, kind) /\ a.sent + a.batch + a.left = a.all
        BY DEF Reading, a, kind
      <3>4. b.sent + b.batch + b.left = b.all
        BY <1>1, <2>1, <3>1, <3>3
      <3>5. /\ a \in Ask /\ b \in Ask /\ a.pc = "fetch" /\ kind \in Paging
            /\ Reading(a, kind) /\ b.batch = 0
        BY <1>1, <1>2, <2>2, <3>1, <3>3 DEF Reading
      <3>6. Reading(b, kind)
        BY <3>1, <3>2, <3>4, <3>5, OneBatchMore
      <3> QED
        BY <3>6 DEF b, kind
    <2> QED
      BY <2>3, <2>4
  <1>8. CASE FetchRow(x)
    <2> DEFINE full == a.batch + 1 = BatchSize
    <2>1. /\ b = [(IF full THEN Yield(a, BatchSize) ELSE a)
                  EXCEPT !.left = @ - 1, !.batch = IF full THEN 0 ELSE @ + 1]
          /\ a.pc = "fetch" /\ kind \notin Paging /\ a.left > 0
      BY <1>1, <1>8 DEF FetchRow, Fetching
    <2>2. Reading(a, kind) /\ a.sent + a.batch + a.left = a.all
      BY DEF Reading
    <2> HIDE DEF a, b, kind
    <2>3. CASE full
      <3>1. /\ b.batches = Append(a.batches, BatchSize) /\ b.sent = a.sent + BatchSize
            /\ b.batch = 0 /\ b.left = a.left - 1 /\ b.all = a.all /\ b.pc = "fetch"
        BY <1>1, <2>1, <2>3 DEF Yield, Ask
      <3>2. b.sent + b.batch + b.left = b.all
        <4>1. a.batch + 1 = BatchSize
          BY <2>3
        <4>2. b.sent + b.batch + b.left = (a.sent + BatchSize) + (a.left - 1)
          BY <1>0, <3>1
        <4>3. (a.sent + BatchSize) + (a.left - 1) = a.all
          BY <1>0, <2>2, <4>1
        <4> QED
          BY <3>1, <4>2, <4>3
      <3>3. BatchSize \in 1 .. BatchSize
        BY <1>0
      <3>4. Reading(b, kind)
        BY <1>1, <1>2, <2>1, <2>2, <3>1, <3>2, <3>3, OneBatchMore
      <3> QED
        BY <3>4 DEF b, kind
    <2>4. CASE ~full
      <3>1. /\ b.batches = a.batches /\ b.sent = a.sent
            /\ b.batch = a.batch + 1 /\ b.left = a.left - 1 /\ b.all = a.all /\ b.pc = "fetch"
        BY <1>1, <2>1, <2>4 DEF Ask
      <3>2. b.sent + b.batch + b.left = b.all
        BY <1>0, <2>2, <3>1
      <3>3. Reading(b, kind)
        BY <1>1, <2>1, <2>2, <3>1, <3>2 DEF Reading
      <3> QED
        BY <3>3 DEF b, kind
    <2> QED
      BY <2>3, <2>4
  <1>9. CASE YieldLast(x)
    <2>1. /\ b = [(IF a.batch > 0 THEN Yield(a, a.batch) ELSE a)
                  EXCEPT !.pc = "idle", !.batch = 0]
          /\ a.pc = "fetch" /\ kind \notin Paging /\ a.left = 0
      BY <1>1, <1>9 DEF YieldLast, Fetching
    <2>2. Reading(a, kind) /\ a.sent + a.batch + a.left = a.all
      BY DEF Reading
    <2> HIDE DEF a, b, kind
    <2>3. CASE a.batch > 0
      <3>1. /\ b.batches = Append(a.batches, a.batch) /\ b.sent = a.sent + a.batch
            /\ b.batch = 0 /\ b.left = 0 /\ b.all = a.all /\ b.pc = "idle"
        BY <1>1, <2>1, <2>3 DEF Yield, Ask
      <3>2. b.sent + b.batch + b.left = b.all /\ a.batch \in 1 .. BatchSize
        BY <1>1, <2>1, <2>2, <2>3, <3>1
      <3>3. Reading(b, kind)
        BY <1>1, <1>2, <2>1, <2>2, <3>1, <3>2, OneBatchMore
      <3> QED
        BY <3>3 DEF b, kind
    <2>4. CASE ~(a.batch > 0)
      <3>1. /\ b.batches = a.batches /\ b.sent = a.sent
            /\ b.batch = 0 /\ b.left = 0 /\ b.all = a.all /\ b.pc = "idle"
        BY <1>1, <2>1, <2>4 DEF Ask
      <3>2. b.sent + b.batch + b.left = b.all /\ b.sent = b.all
        BY <1>1, <2>1, <2>2, <2>4, <3>1
      <3>3. Reading(b, kind)
        BY <1>1, <2>2, <3>1, <3>2 DEF Reading
      <3> QED
        BY <3>3 DEF b, kind
    <2> QED
      BY <2>3, <2>4
  <1> QED
    BY <1>4, <1>5, <1>6, <1>7, <1>8, <1>9 DEF Query, Iterate

LEMMA StageReads ==
  ASSUME AdapterTypeOK, IsFiniteSet(bucket), NEW x \in Transfers, Stage(x),
         Reading(ask[x], adapter[x])
  PROVE  Reading(ask'[x], adapter[x])
  <1> DEFINE a == ask[x]
             b == ask'[x]
             kind == adapter[x]
  <1>1. ask \in [Transfers -> Ask] /\ a \in Ask
    BY DEF AdapterTypeOK
  <1>2. ASSUME b.batches = <<>>, b.sent = 0, b.batch = 0, b.left = 0, b.all = 0
        PROVE  Reading(b, kind)
    BY <1>2, NothingRead
  <1>3. ASSUME a.pc # "fetch", b.pc # "fetch", b.batches = a.batches, b.sent = a.sent,
               b.batch = a.batch, b.left = a.left, b.all = a.all
        PROVE  Reading(b, kind)
    BY <1>3 DEF Reading
  <1>4. ASSUME NEW t \in StagedTables, Unload(x, t) PROVE Reading(b, kind)
    <2>1. \/ ask' = [ask EXCEPT ![x] = [NoAsk EXCEPT !.pc = "list", !.table = t]]
          \/ ask' = [ask EXCEPT ![x] = [Ended("lost") EXCEPT !.table = t]]
      BY <1>4 DEF Unload
    <2>2. b.batches = <<>> /\ b.sent = 0 /\ b.batch = 0 /\ b.left = 0 /\ b.all = 0
      BY ZenonT(30), <1>1, <2>1 DEF Ended, NoAsk
    <2> QED
      BY <1>2, <2>2
  <1>5. ASSUME NEW t \in StagedTables, BeginCleanup(x, t) PROVE Reading(b, kind)
    <2>1. b.batches = <<>> /\ b.sent = 0 /\ b.batch = 0 /\ b.left = 0 /\ b.all = 0
      BY <1>1, <1>5 DEF BeginCleanup, NoAsk
    <2> QED
      BY <1>2, <2>1
  <1>6. CASE ListUnloaded(x)
    <2>1. /\ a.pc # "fetch" /\ b.pc # "fetch" /\ b.batches = a.batches /\ b.sent = a.sent
          /\ b.batch = a.batch /\ b.left = a.left /\ b.all = a.all
      BY <1>1, <1>6 DEF ListUnloaded, Ask
    <2> QED
      BY <1>3, <2>1
  <1>7. CASE DeleteChunk(x)
    <2>1. PICK chunk, gone :
            ask' = [ask EXCEPT ![x].chunks = @ \ chunk,
                               ![x].refused = @ \cup (chunk \ gone),
                               ![x].pc = IF ask[x].chunks = chunk THEN "cleaned" ELSE @]
      BY <1>7 DEF DeleteChunk
    <2>2. /\ a.pc # "fetch" /\ b.pc # "fetch" /\ b.batches = a.batches /\ b.sent = a.sent
          /\ b.batch = a.batch /\ b.left = a.left /\ b.all = a.all
      BY <1>1, <1>7, <2>1 DEF DeleteChunk, Ask
    <2> QED
      BY <1>3, <2>2
  <1>8. CASE LoseBucket(x)
    <2>1. b.batches = <<>> /\ b.sent = 0 /\ b.batch = 0 /\ b.left = 0 /\ b.all = 0
      BY <1>1, <1>8 DEF LoseBucket, NoAsk
    <2> QED
      BY <1>2, <2>1
  <1> QED
    BY <1>4, <1>5, <1>6, <1>7, <1>8 DEF Stage

LEMMA StepBatches ==
  TypeInv /\ BatchesInv /\ [ScriptsNext]_scriptsVars => BatchesInv'
  <1> SUFFICES ASSUME TypeInv, BatchesInv, [ScriptsNext]_scriptsVars
               PROVE  \A y \in Transfers : Reading(ask'[y], adapter'[y])
    BY DEF BatchesInv, BatchesAreTheRows, OnlyTheLastIsShort, PagesAreBatches, Reading,
           Fetching
  <1>1. AdapterTypeOK /\ IsFiniteSet(bucket)
    BY DEF TypeInv, ScriptsTypeOK
  <1>2. \A y \in Transfers : Reading(ask[y], adapter[y])
    BY BatchesInvIsReading
  <1>3. ASSUME NEW x \in Transfers, Query(x) \/ Iterate(x) \/ Stage(x), NEW y \in Transfers
        PROVE  Reading(ask'[y], adapter'[y])
    <2>1. Reading(ask'[x], adapter[x])
      BY <1>1, <1>2, <1>3, ReadStep, StageReads
    <2>2. adapter' = adapter /\ (y # x => ask'[y] = ask[y])
      BY <1>1, <1>3, OwnCall DEF AdapterTypeOK
    <2> QED
      BY <1>2, <2>1, <2>2
  <1>4. CASE UNCHANGED <<adapter, bucket, ask>>
    BY <1>2, <1>4
  <1> QED
    BY <1>3, <1>4, AnyStep

\* The batches of a query that was read to its end have every row of it, all but
\* the last are full, and none is empty, whichever way the driver gives the rows.
THEOREM EveryRowInABatch == ScriptsSpec => []BatchesAreTheRows
  <1>1. ScriptsInit => BatchesInv
    <2>1. ASSUME ScriptsInit, NEW x \in Transfers PROVE Reading(ask[x], adapter[x])
      <3>1. /\ ask[x].batches = <<>> /\ ask[x].sent = 0 /\ ask[x].batch = 0
            /\ ask[x].left = 0 /\ ask[x].all = 0
        BY <2>1 DEF ScriptsInit, AdapterInit, NoAsk
      <3> QED
        BY <3>1, NothingRead
    <2> QED
      BY <2>1, BatchesInvIsReading
  <1>2. BatchesInv => BatchesAreTheRows
    BY DEF BatchesInv
  <1> QED
    BY <1>1, <1>2, TypeInvCorrect, StepBatches, PTL DEF ScriptsSpec, ScriptsNext
=============================================================================
