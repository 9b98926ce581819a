SPECIFICATION ScriptsSpec
CONSTANTS
  b1 = b1  b2 = b2  r1 = r1  x1 = x1  t1 = t1  t2 = t2
  Runs = {r1}
  Tables = {}
  Unknown = Unknown
  Connections = {b1, b2, x1}
  Adapters = {"snowflake", "bigquery", "postgres", "databricks", "clickhouse_oss"}
  Benchmarks = {b1, b2}
  BenchmarkRun <- OneRun
  Queries <- Again
  SerialBenchmark = TRUE
  Transfers = {x1}
  StagedTables = {t1, t2}
  NamePrefix <- OneInTwo
  BatchSize = 2
  ChunkSize = 2
  MaxResult = 4
  MaxFiles = 2
INVARIANTS RowsOfOneCall EveryQueryHasARow NoneRefused BatchesAreTheRows ReportIsWhatLoads CleanupIsComplete
PROPERTIES ImplementsRowLog OthersStay
CHECK_DEADLOCK FALSE
