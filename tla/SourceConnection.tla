--------------------------- MODULE SourceConnection ---------------------------
(***************************************************************************)
(* The connection of a script to its source, as the five adapters of       *)
(* migrationkit/sources use it: queries that count, queries that are       *)
(* timed, and what a query that fails leaves behind for the next one.      *)
(*                                                                         *)
(* psycopg2 opens a transaction with the first query, and after an error   *)
(* refuses every query until a rollback.  The other drivers have nothing   *)
(* of the kind.  A connection that is closed for good is left out.         *)
(***************************************************************************)
EXTENDS Integers, Sequences, FiniteSets

CONSTANTS
  Connections,   \* scripts, each with a connection of its own
  Adapters       \* the adapters that may be chosen

Transactional == {"postgres"}
Paging        == {"snowflake", "databricks"}
ToS3          == {"snowflake", "databricks", "clickhouse_oss"}
ToGCS         == {"bigquery"}

ASSUME ConnectionAssumptions ==
  Adapters \subseteq Transactional \cup ToS3 \cup ToGCS

VARIABLES
  adapter,   \* the adapter of each connection
  aborted    \* connections whose transaction has failed

connectionVars == <<adapter, aborted>>

ConnectionTypeOK ==
  /\ adapter \in [Connections -> Adapters]
  /\ aborted \subseteq Connections

ConnectionInit ==
  /\ adapter \in [Connections -> Adapters]
  /\ aborted = {}

\* How a query ends: with rows, with an error of its own, with one of the network
\* or the warehouse, or refused because of an earlier one.
Outcomes == {"rows", "wrong", "lost", "refused"}

Outcome(c, wrong) ==
  IF c \in aborted THEN {"refused"}
  ELSE IF wrong THEN {"wrong", "lost"} ELSE {"rows", "lost"}

\* What a query leaves behind that nobody rolls back.
Leave(c, outcome) ==
  /\ aborted' = IF adapter[c] \in Transactional /\ outcome # "rows"
                THEN aborted \cup {c} ELSE aborted
  /\ UNCHANGED adapter

\* Mutant: no rollback.
RollBackNever(c, outcome) == Leave(c, outcome)

\* The handler of execute_and_count rolls back what has failed, then or before.
RollBack(c, outcome) ==
  /\ aborted' = IF outcome # "rows" THEN aborted \ {c} ELSE aborted
  /\ UNCHANGED adapter

\* count_rows
CountRows(c, wrong, outcome) ==
  outcome \in Outcome(c, wrong) /\ Leave(c, outcome)

\* execute_and_count
ExecuteAndCount(c, wrong, outcome) ==
  outcome \in Outcome(c, wrong) /\ RollBack(c, outcome)

-----------------------------------------------------------------------------
(* The time of a query that has run: that of the server, or None.  No lookup *)
(* raises.                                                                   *)

Answers == {"time", "none", "raised"}

\* Snowflake: twice in the history of the session; an exception ends it.
SnowflakeTime(first, second) ==
  first = "time" \/ (first = "none" /\ second = "time")

\* Databricks: twice in the history API, then in the system table.
DatabricksTime(first, second, table) == "time" \in {first, second, table}

\* The others have it, or not, in the answer to the query.
ServerTimes(kind) ==
  CASE kind = "snowflake"  -> {SnowflakeTime(a, b) : a, b \in Answers}
    [] kind = "databricks" -> {DatabricksTime(a, b, t) : a, b, t \in Answers}
    [] OTHER               -> BOOLEAN
=============================================================================
