------------------------------ MODULE Benchmarker ------------------------------
(***************************************************************************)
(* Step 4: a script that constructs a Benchmarker and calls benchmark()    *)
(* (migrationkit/benchmarker.py), with the table benchmarks of the state   *)
(* store that only it writes.  Like validate() it is a process of its own, *)
(* it may be run again, and it may die at any point.  Nothing in it reads  *)
(* the status of the run: the runs here have ended, and may be deleted.    *)
(*                                                                         *)
(* Of a side of a row the kind of its result is kept: no SQL was given,    *)
(* the query raised, the connection refused it, or it was timed, by the    *)
(* server or by the wall clock.  Names, SQL texts, numbers and the log     *)
(* lines are left out.                                                     *)
(***************************************************************************)
EXTENDS StateStore, SourceConnection

CONSTANTS
  Benchmarks,        \* calls of benchmark()
  BenchmarkRun,      \* the run_id each Benchmarker is constructed with
  Queries,           \* the SQL that each query of a call has for each side
  SerialBenchmark    \* one call at a time for each run

Sql == {"none", "right", "wrong"}

ASSUME BenchmarkerAssumptions ==
  /\ Unknown \notin Benchmarks
  /\ Benchmarks \subseteq Connections
  /\ BenchmarkRun \in [Benchmarks -> Runs]
  /\ Queries \in [Benchmarks -> Seq([source : Sql, target : Sql])]
  /\ SerialBenchmark \in BOOLEAN

VARIABLES
  benchmarks,   \* the rows of table benchmarks, per run id
  bench,        \* control location and local variables of each call
  cleared,      \* history: the last call that cleared the rows of each run
  untold        \* history: a write of the run that no event has told of

benchVars == <<benchmarks, bench, cleared, untold>>
benchmarkerVars == <<storeVars, connectionVars, benchVars>>

SideResults == {"omitted", "error", "refused", "server", "wall"}

\* "call" is history: the call that wrote the row.
ResultRow == [n : Nat, source : SideResults, target : SideResults,
              call : Benchmarks]

BenchPcs == {"clear", "query", "target", "record", "sayRow", "sayDone", "sayStep"}

BenchState == [pc     : BenchPcs \cup {"new", "returned", "stopped"},
               n      : Nat,
               source : SideResults,
               target : SideResults]

BenchmarkerTypeOK ==
  /\ StoreTypeOK
  /\ ConnectionTypeOK
  /\ benchmarks \in [Runs -> SUBSET ResultRow]
  /\ bench      \in [Benchmarks -> BenchState]
  /\ cleared    \in [Runs -> Benchmarks \cup {Unknown}]
  /\ untold     \in [Runs -> BOOLEAN]

\* Every run has been migrated.
BenchmarkerInit ==
  /\ runs        = [r \in Runs |-> [status |-> "done", ended |-> TRUE]]
  /\ runTables   = [r \in Runs |-> [t \in Tables |-> NoTable]]
  /\ batches     = [r \in Runs |-> {}]
  /\ controls    = [r \in Runs |-> "run"]
  /\ events      = [r \in Runs |-> <<>>]
  /\ validations = [r \in Runs |-> [t \in Tables |-> "absent"]]
  /\ benchmarks  = [r \in Runs |-> {}]
  /\ ConnectionInit
  /\ bench = [b \in Benchmarks |->
       [pc |-> "new", n |-> 0, source |-> "omitted", target |-> "omitted"]]
  /\ cleared = [r \in Runs |-> Unknown]
  /\ untold  = [r \in Runs |-> FALSE]

BenchAt(b, l) == bench[b].pc = l
BenchGoto(b, l) == bench' = [bench EXCEPT ![b].pc = l]

-----------------------------------------------------------------------------
\* runs_delete, whose cascade reaches the rows of benchmarks too.
DeleteRunAndBenchmarks(r) ==
  /\ RunExists(r) /\ ~IsActive(r)
  /\ DeleteRun(r)
  /\ benchmarks' = [benchmarks EXCEPT ![r] = {}]
  /\ UNCHANGED <<connectionVars, bench, cleared, untold>>

\* INSERT OR REPLACE, keyed by run and query_n.
ReplaceRow(rows, row) == {x \in rows : x.n # row.n} \cup {row}

-----------------------------------------------------------------------------
BeginBenchmark(b) ==
  /\ BenchAt(b, "new")
  /\ RunExists(BenchmarkRun[b])
  /\ SerialBenchmark =>
       \A o \in Benchmarks : BenchmarkRun[o] = BenchmarkRun[b] =>
         bench[o].pc \notin BenchPcs
  /\ BenchGoto(b, "clear")
  /\ UNCHANGED <<storeVars, connectionVars, benchmarks, cleared, untold>>

\* Mutant: the rows of an earlier call are left to INSERT OR REPLACE.
KeepBenchmarks(b) ==
  /\ BenchAt(b, "clear")
  /\ cleared' = [cleared EXCEPT ![BenchmarkRun[b]] = b]
  /\ untold' = [untold EXCEPT ![BenchmarkRun[b]] = TRUE]
  /\ BenchGoto(b, "query")
  /\ UNCHANGED <<storeVars, connectionVars, benchmarks>>

\* delete_benchmarks_for_run.  No event tells of it.
ClearBenchmarks(b) ==
  /\ BenchAt(b, "clear")
  /\ benchmarks' = [benchmarks EXCEPT ![BenchmarkRun[b]] = {}]
  /\ cleared' = [cleared EXCEPT ![BenchmarkRun[b]] = b]
  /\ untold' = [untold EXCEPT ![BenchmarkRun[b]] = TRUE]
  /\ BenchGoto(b, "query")
  /\ UNCHANGED <<storeVars, connectionVars>>

BenchQuery(b) == Queries[b][bench[b].n + 1]

\* _run_side: an exception is the error of this side alone, and what has run has a
\* time, that of the wall clock where the server has none.
SideResult(outcome, timed) ==
  CASE outcome = "rows"    -> IF timed THEN "server" ELSE "wall"
    [] outcome = "refused" -> "refused"
    [] OTHER               -> "error"

\* Without SQL nothing is run.
RunSource(b) ==
  LET sql == BenchQuery(b).source IN
  /\ BenchAt(b, "query")
  /\ bench[b].n < Len(Queries[b])
  /\ \/ /\ sql = "none"
        /\ bench' = [bench EXCEPT ![b].pc = "target", ![b].source = "omitted"]
        /\ UNCHANGED connectionVars
     \/ /\ sql # "none"
        /\ \E outcome \in Outcomes, timed \in ServerTimes(adapter[b]) :
             /\ ExecuteAndCount(b, sql = "wrong", outcome)
             /\ bench' = [bench EXCEPT ![b].pc = "target",
                                      ![b].source = SideResult(outcome, timed)]
  /\ UNCHANGED <<storeVars, benchmarks, cleared, untold>>

\* ClickHouse has no transaction to abort, and the time in the summary or not.
TargetResults(sql) ==
  IF sql = "none" THEN {"omitted"}
  ELSE {"error"} \cup (IF sql = "right" THEN {"server", "wall"} ELSE {})

\* Mutant: the row is left out when the target raises.
SkipFailed(b) ==
  /\ BenchAt(b, "target")
  /\ \E result \in TargetResults(BenchQuery(b).target) :
       bench' = IF result = "error"
                THEN [bench EXCEPT ![b].pc = "query", ![b].n = @ + 1]
                ELSE [bench EXCEPT ![b].pc = "record", ![b].target = result]
  /\ UNCHANGED <<storeVars, connectionVars, benchmarks, cleared, untold>>

RunTarget(b) ==
  /\ BenchAt(b, "target")
  /\ \E result \in TargetResults(BenchQuery(b).target) :
       bench' = [bench EXCEPT ![b].pc = "record", ![b].target = result]
  /\ UNCHANGED <<storeVars, connectionVars, benchmarks, cleared, untold>>

RowOf(b) == [n |-> bench[b].n, source |-> bench[b].source,
             target |-> bench[b].target, call |-> b]

\* record_benchmark_row; the foreign key asks for the run.
RecordRow(b) ==
  /\ BenchAt(b, "record")
  /\ RunExists(BenchmarkRun[b])
  /\ benchmarks' = [benchmarks EXCEPT ![BenchmarkRun[b]] =
                      ReplaceRow(@, RowOf(b))]
  /\ untold' = [untold EXCEPT ![BenchmarkRun[b]] = TRUE]
  /\ BenchGoto(b, "sayRow")
  /\ UNCHANGED <<storeVars, connectionVars, cleared>>

\* Mutant: the rows are announced once, by benchmark_done.
AnnounceNoRow(b) ==
  /\ BenchAt(b, "sayRow")
  /\ bench' = [bench EXCEPT ![b].pc = "query", ![b].n = @ + 1]
  /\ UNCHANGED <<storeVars, connectionVars, benchmarks, cleared, untold>>

AnnounceRow(b) ==
  /\ BenchAt(b, "sayRow")
  /\ WriteEvent(BenchmarkRun[b], [kind |-> "benchmark_row"])
  /\ untold' = [untold EXCEPT ![BenchmarkRun[b]] = FALSE]
  /\ bench' = [bench EXCEPT ![b].pc = "query", ![b].n = @ + 1]
  /\ UNCHANGED <<connectionVars, benchmarks, cleared>>

AllQueriesRun(b) ==
  /\ BenchAt(b, "query")
  /\ bench[b].n = Len(Queries[b])
  /\ BenchGoto(b, "sayDone")
  /\ UNCHANGED <<storeVars, connectionVars, benchmarks, cleared, untold>>

AnnounceDone(b) ==
  /\ BenchAt(b, "sayDone")
  /\ WriteEvent(BenchmarkRun[b], [kind |-> "benchmark_done"])
  /\ untold' = [untold EXCEPT ![BenchmarkRun[b]] = FALSE]
  /\ BenchGoto(b, "sayStep")
  /\ UNCHANGED <<connectionVars, benchmarks, cleared>>

AnnounceBenchmarked(b) ==
  /\ BenchAt(b, "sayStep")
  /\ WriteEvent(BenchmarkRun[b], [kind |-> "step_benchmarked"])
  /\ BenchGoto(b, "returned")
  /\ UNCHANGED <<connectionVars, benchmarks, cleared, untold>>

\* A transaction raises (the run is gone, the database is locked) or the
\* process is killed: benchmark() has no handler around them.
StopBenchmark(b) ==
  /\ bench[b].pc \in BenchPcs
  /\ BenchGoto(b, "stopped")
  /\ UNCHANGED <<storeVars, connectionVars, benchmarks, cleared, untold>>

RunQueries(b) ==
  \/ ClearBenchmarks(b) \/ RunSource(b) \/ RunTarget(b) \/ RecordRow(b)
  \/ AnnounceRow(b) \/ AllQueriesRun(b) \/ AnnounceDone(b)
  \/ AnnounceBenchmarked(b)

BenchmarkerNext ==
  \/ \E b \in Benchmarks : BeginBenchmark(b) \/ RunQueries(b) \/ StopBenchmark(b)
  \/ \E r \in Runs : DeleteRunAndBenchmarks(r)

BenchmarkerSpec == BenchmarkerInit /\ [][BenchmarkerNext]_benchmarkerVars

-----------------------------------------------------------------------------
\* benchmarker.py:102 "so re-runs start clean": every row of a run was written by
\* the call that cleared its rows last, whatever an earlier call that died has
\* left behind.
RowsOfOneCall ==
  \A r \in Runs : \A x \in benchmarks[r] : x.call = cleared[r]

\* When a call announces its end, each of its queries has a row, in which a side is
\* without a result just when it has no SQL, unless the run has been deleted.
EveryQueryHasARow ==
  \A b \in Benchmarks :
    LET r == BenchmarkRun[b] IN
    bench[b].pc \in {"sayDone", "sayStep"} /\ RunExists(r) =>
      /\ {x.n : x \in benchmarks[r]} = 0 .. Len(Queries[b]) - 1
      /\ \A x \in benchmarks[r] :
           LET query == Queries[b][x.n + 1] IN
           /\ (x.source = "omitted") = (query.source = "none")
           /\ (x.target = "omitted") = (query.target = "none")

\* benchmarker.py:28 "one bad query doesn't abort the rest of the benchmark": no
\* query fails for what an earlier one has left on the connection.
NoneRefused ==
  \A r \in Runs : \A x \in benchmarks[r] : x.source # "refused"

Log == INSTANCE RowLog WITH rowsOf <- benchmarks, NoRows <- {}

\* A reader that looks at the rows after every event misses no more than one
\* row at a time: each write is told of before the next one.
ImplementsRowLog == Log!LogSpec
=============================================================================
