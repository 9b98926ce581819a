----------------------------- MODULE SourceAdapter -----------------------------
(***************************************************************************)
(* What a script that moves tables asks of its source adapter and of its   *)
(* staging bucket (migrationkit/sources, migrationkit/staging): counts,    *)
(* timed queries, the rows of a query in batches, unloads, and the removal *)
(* of what was unloaded.  One call follows another, in any order; what the *)
(* Migrator does with the answers is in Migrator.                          *)
(*                                                                         *)
(* A batch is the number of its rows.  Objects of the bucket are numbered  *)
(* in the prefix of their run and table; one run is looked at.             *)
(***************************************************************************)
EXTENDS SourceConnection, SequencesExt, FiniteSetsExt

CONSTANTS
  Transfers,      \* the scripts
  StagedTables,
  NamePrefix,     \* pairs of tables: the name of one begins that of the other
  BatchSize,
  ChunkSize,      \* objects deleted by one request
  MaxResult,      \* bound: rows of a query
  MaxFiles        \* bound: files of an unload

ASSUME AdapterAssumptions ==
  /\ Transfers \subseteq Connections
  /\ NamePrefix \subseteq StagedTables \X StagedTables
  /\ BatchSize \in Nat \ {0} /\ ChunkSize \in Nat \ {0}
  /\ MaxResult \in Nat /\ MaxFiles \in Nat \ {0}

VARIABLES
  bucket,   \* the objects under the prefix of the run
  ask       \* the call that each script has made last

adapterVars == <<connectionVars, bucket, ask>>

\* Data files end in .parquet; the others are marks of the warehouse.
StagedObject == [table : StagedTables, n : 0 .. MaxFiles, data : BOOLEAN]

AskPcs == {"idle", "fetch", "list", "delete", "cleaned", "unloaded"}

\* "all", "sent" and "refused" are history: the rows of the query that is iterated,
\* those in its batches, and what S3 has not deleted.
Ask == [pc : AskPcs, table : StagedTables \cup {"none"}, outcome : Outcomes,
        all : Nat, left : Nat, batch : Nat, batches : Seq(Nat), sent : Nat,
        files : Nat, chunks : SUBSET StagedObject, refused : SUBSET StagedObject]

NoAsk == [pc |-> "idle", table |-> "none", outcome |-> "rows",
          all |-> 0, left |-> 0, batch |-> 0, batches |-> <<>>, sent |-> 0,
          files |-> 0, chunks |-> {}, refused |-> {}]

AdapterTypeOK ==
  /\ ConnectionTypeOK
  /\ bucket \subseteq StagedObject
  /\ ask \in [Transfers -> Ask]
  /\ \A x \in Transfers : ask[x].batch < BatchSize

AdapterInit ==
  /\ ConnectionInit
  /\ bucket = {}
  /\ ask = [x \in Transfers |-> NoAsk]

Free(x) == ask[x].pc \in {"idle", "cleaned", "unloaded"}

Ended(outcome) == [NoAsk EXCEPT !.outcome = outcome]

Count(x) ==
  /\ Free(x)
  /\ \E wrong \in BOOLEAN, outcome \in Outcomes :
       /\ CountRows(x, wrong, outcome)
       /\ ask' = [ask EXCEPT ![x] = Ended(outcome)]
  /\ UNCHANGED bucket

Time(x) ==
  /\ Free(x)
  /\ \E wrong \in BOOLEAN, outcome \in Outcomes :
       /\ ExecuteAndCount(x, wrong, outcome)
       /\ ask' = [ask EXCEPT ![x] = Ended(outcome)]
  /\ UNCHANGED bucket

-----------------------------------------------------------------------------
(* iter_batches: the query runs when the first batch is asked for. *)

OpenQuery(x) ==
  /\ Free(x)
  /\ \E wrong \in BOOLEAN, outcome \in Outcomes, rows \in 0 .. MaxResult :
       /\ outcome \in Outcome(x, wrong) /\ Leave(x, outcome)
       /\ ask' = [ask EXCEPT ![x] =
            IF outcome # "rows" THEN Ended(outcome)
            ELSE [NoAsk EXCEPT !.pc = "fetch", !.all = rows, !.left = rows]]
  /\ UNCHANGED bucket

Fetching(x) == ask[x].pc = "fetch"
Yield(a, k) == [a EXCEPT !.batches = Append(@, k), !.sent = @ + k]

\* fetchmany, until it returns nothing.
FetchPage(x) ==
  LET k == Min({BatchSize, ask[x].left}) IN
  /\ Fetching(x) /\ adapter[x] \in Paging
  /\ ask' = [ask EXCEPT ![x] =
       IF k = 0 THEN [ask[x] EXCEPT !.pc = "idle"]
       ELSE [Yield(ask[x], k) EXCEPT !.left = @ - k]]
  /\ UNCHANGED <<connectionVars, bucket>>

\* The drivers that give row by row: a batch is yielded when it is full.
FetchRow(x) ==
  LET full == ask[x].batch + 1 = BatchSize IN
  /\ Fetching(x) /\ adapter[x] \notin Paging /\ ask[x].left > 0
  /\ ask' = [ask EXCEPT ![x] =
       [(IF full THEN Yield(ask[x], BatchSize) ELSE ask[x])
          EXCEPT !.left = @ - 1, !.batch = IF full THEN 0 ELSE @ + 1]]
  /\ UNCHANGED <<connectionVars, bucket>>

\* Mutant: what is left in the batch is forgotten.
ForgetLast(x) ==
  /\ Fetching(x) /\ adapter[x] \notin Paging /\ ask[x].left = 0
  /\ ask' = [ask EXCEPT ![x].pc = "idle", ![x].batch = 0]
  /\ UNCHANGED <<connectionVars, bucket>>

\* ... and what is left of it at the end.
YieldLast(x) ==
  LET a == ask[x] IN
  /\ Fetching(x) /\ adapter[x] \notin Paging /\ a.left = 0
  /\ ask' = [ask EXCEPT ![x] =
       [(IF a.batch > 0 THEN Yield(a, a.batch) ELSE a) EXCEPT !.pc = "idle", !.batch = 0]]
  /\ UNCHANGED <<connectionVars, bucket>>

\* The driver raises in the middle.
LoseRows(x) ==
  /\ Fetching(x)
  /\ Leave(x, "lost")
  /\ ask' = [ask EXCEPT ![x] = Ended("lost")]
  /\ UNCHANGED bucket

\* The caller drops the iterator, whose cursor is then closed.
DropIterator(x) ==
  /\ Fetching(x)
  /\ ask' = [ask EXCEPT ![x] = NoAsk]
  /\ UNCHANGED <<connectionVars, bucket>>

-----------------------------------------------------------------------------
(* The bucket.  The prefix of a table ends in a slash. *)

\* Mutant: it does not.
BeginningWith(t) == {o \in bucket : o.table = t \/ <<t, o.table>> \in NamePrefix}

\* list_s3_objects, list_gcs_objects
Under(t) == {o \in bucket : o.table = t}

\* What ClickHouse loads: the objects named *.parquet.
Loadable(t) == {o \in Under(t) : o.data}

Shards(t, k) == [table : {t}, n : 1 .. k, data : {TRUE}]
Mark(t) == [table |-> t, n |-> 0, data |-> FALSE]

\* What an unload may write: part files in Snowflake and BigQuery, part files and
\* a mark in Databricks, one file in ClickHouse.
SnowflakeFiles(t)  == {Shards(t, k) : k \in 0 .. MaxFiles}
BigQueryFiles(t)   == {Shards(t, k) : k \in 0 .. MaxFiles}
DatabricksFiles(t) == {Shards(t, k) \cup {Mark(t)} : k \in 0 .. MaxFiles}
ClickHouseFiles(t) == {Shards(t, 1)}

Unloads(kind, t) ==
  CASE kind = "snowflake"      -> SnowflakeFiles(t)
    [] kind = "bigquery"       -> BigQueryFiles(t)
    [] kind = "databricks"     -> DatabricksFiles(t)
    [] kind = "clickhouse_oss" -> ClickHouseFiles(t)

CanUnload(x) == adapter[x] \in ToS3 \cup ToGCS

\* Only INSERT OVERWRITE DIRECTORY removes what an earlier unload has left; for the
\* others a file takes the place of one that has the same name.
Overwritten(kind, t) == IF kind = "databricks" THEN Under(t) ELSE {}

Unload(x, t) ==
  /\ Free(x) /\ CanUnload(x)
  /\ \E files \in Unloads(adapter[x], t) :
       \/ /\ bucket' = (bucket \ Overwritten(adapter[x], t)) \cup files
          /\ ask' = [ask EXCEPT ![x] = [NoAsk EXCEPT !.pc = "list", !.table = t]]
       \/ \E part \in SUBSET files, gone \in {{}, Overwritten(adapter[x], t)} :
            /\ bucket' = (bucket \ gone) \cup part
            /\ ask' = [ask EXCEPT ![x] = [Ended("lost") EXCEPT !.table = t]]
  /\ UNCHANGED connectionVars

\* Mutant: the marks are counted too.
CountObjects(kind, objects) == Cardinality(objects)

\* parquet_only for Databricks; the others write nothing else.
CountFiles(kind, objects) ==
  Cardinality(IF kind = "databricks" THEN {o \in objects : o.data} ELSE objects)

\* The listing that UnloadResult is made of.
ListUnloaded(x) ==
  /\ ask[x].pc = "list"
  /\ ask' = [ask EXCEPT ![x].pc = "unloaded",
                        ![x].files = CountFiles(adapter[x], Under(ask[x].table))]
  /\ UNCHANGED <<connectionVars, bucket>>

\* delete_s3_prefix, delete_gcs_prefix: what is listed is deleted in chunks.
BeginCleanup(x, t) ==
  /\ Free(x) /\ CanUnload(x)
  /\ ask' = [ask EXCEPT ![x] = [NoAsk EXCEPT !.pc = "delete", !.table = t,
                                                !.chunks = Under(t)]]
  /\ UNCHANGED <<connectionVars, bucket>>

Chunks(x) ==
  {chunk \in SUBSET ask[x].chunks :
     Cardinality(chunk) = Min({ChunkSize, Cardinality(ask[x].chunks)})}

\* S3 answers a request with the keys that it has not deleted, and nobody looks at
\* them; in GCS the batch raises.
Deleted(kind, chunk) == IF kind \in ToS3 THEN SUBSET chunk ELSE {chunk}

\* Mutant: one request deletes them all, up to its limit.
DeleteOnce(x) ==
  /\ ask[x].pc = "delete"
  /\ \E chunk \in Chunks(x) : \E gone \in Deleted(adapter[x], chunk) :
       /\ bucket' = bucket \ gone
       /\ ask' = [ask EXCEPT ![x].pc = "cleaned", ![x].chunks = {},
                             ![x].refused = chunk \ gone]
  /\ UNCHANGED connectionVars

DeleteChunk(x) ==
  /\ ask[x].pc = "delete"
  /\ \E chunk \in Chunks(x) : \E gone \in Deleted(adapter[x], chunk) :
       /\ bucket' = bucket \ gone
       /\ ask' = [ask EXCEPT ![x].chunks = @ \ chunk,
                             ![x].refused = @ \cup (chunk \ gone),
                             ![x].pc = IF ask[x].chunks = chunk THEN "cleaned" ELSE @]
  /\ UNCHANGED connectionVars

\* A listing or a request raises: what was deleted is deleted.
LoseBucket(x) ==
  /\ ask[x].pc \in {"list", "delete"}
  /\ \E chunk \in Chunks(x) : \E gone \in SUBSET chunk : bucket' = bucket \ gone
  /\ ask' = [ask EXCEPT ![x] = [NoAsk EXCEPT !.outcome = "lost"]]
  /\ UNCHANGED connectionVars

-----------------------------------------------------------------------------
Query(x)   == Count(x) \/ Time(x) \/ OpenQuery(x)
Iterate(x) == FetchPage(x) \/ FetchRow(x) \/ YieldLast(x) \/ LoseRows(x) \/ DropIterator(x)
Stage(x)   == \/ \E t \in StagedTables : Unload(x, t) \/ BeginCleanup(x, t)
              \/ ListUnloaded(x) \/ DeleteChunk(x) \/ LoseBucket(x)

AdapterNext == \E x \in Transfers : Query(x) \/ Iterate(x) \/ Stage(x)

-----------------------------------------------------------------------------
\* The batches of a query that was read to its end have every row of it, all but
\* the last are full, and none is empty: the Migrator records a batch by its
\* number and the rows that it counts.
BatchesAreTheRows ==
  \A x \in Transfers :
    LET a == ask[x]
        n == Len(a.batches) IN
    /\ \A i \in 1 .. n : a.batches[i] \in 1 .. BatchSize
    /\ \A i \in 1 .. n - 1 : a.batches[i] = BatchSize
    /\ a.sent + a.batch + a.left = a.all
    /\ a.pc # "fetch" => a.sent = a.all

\* databricks.py:46 "Counting them would inflate the file count": the files that an
\* unload reports are those that ClickHouse will load.
ReportIsWhatLoads ==
  \A x \in Transfers :
    ask[x].pc = "unloaded" => ask[x].files = Cardinality(Loadable(ask[x].table))

\* A removal that returns has left nothing of its table, marks and the files of a
\* failed unload included, however many requests it took, except what S3 refused
\* to delete; in GCS it has left nothing.
CleanupIsComplete ==
  \A x \in Transfers : ask[x].pc = "cleaned" =>
    /\ Under(ask[x].table) \subseteq ask[x].refused
    /\ adapter[x] \in ToGCS => Under(ask[x].table) = {}

\* ... and an object that goes is one of the table that was unloaded or removed,
\* never of one whose name begins in the same way.
OthersStay ==
  [][\A o \in bucket \ bucket' :
       \E x \in Transfers : o.table \in {ask[x].table, ask'[x].table}]_adapterVars

-----------------------------------------------------------------------------
(* Why they hold *)

\* The scripts of one run follow one another.
OneTransfer == \A x, y \in Transfers : x = y

\* A query that is still read has yielded full batches, but for a page that was the
\* last.
OnlyTheLastIsShort ==
  \A x \in Transfers : Fetching(x) =>
    \A i \in 1 .. Len(ask[x].batches) :
      ask[x].batches[i] = BatchSize \/ (adapter[x] \in Paging /\ ask[x].left = 0)

\* Nothing waits in a batch where pages are fetched.
PagesAreBatches ==
  \A x \in Transfers : adapter[x] \in Paging => ask[x].batch = 0

\* What is on the list is of the table, and GCS refuses nothing of it.
OwnList ==
  \A x \in Transfers :
    /\ ask[x].chunks \subseteq {o \in StagedObject : o.table = ask[x].table}
    /\ adapter[x] \in ToGCS => ask[x].refused = {}

\* What is still there is on the list, or was refused.
NothingForgotten ==
  \A x \in Transfers :
    LET a == ask[x] IN
    /\ a.pc = "delete" => Under(a.table) \subseteq a.chunks \cup a.refused
    /\ a.pc = "cleaned" => Under(a.table) \subseteq a.refused

\* Only Databricks leaves marks.
MarksAreOfDatabricks ==
  \A x \in Transfers : adapter[x] # "databricks" => \A o \in bucket : o.data
=============================================================================
