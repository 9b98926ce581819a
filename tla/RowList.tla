-------------------------------- MODULE RowList --------------------------------
(***************************************************************************)
(* useBenchmarks and useValidations (migration-dashboard/src/hooks), which *)
(* are the same code: the rows of the selected run, fetched when it is     *)
(* selected and again after each event that tells of a row.                *)
(*                                                                         *)
(* Nothing cancels or orders the GETs that are on their way.  The rows in  *)
(* the database are those of RowLog.                                       *)
(***************************************************************************)
EXTENDS EventStream, SequencesExt

CONSTANTS
  RowValues,      \* what the rows of a run may be
  NoRows,
  MaxInFlight     \* bound: GETs on their way at once

ASSUME RowListAssumptions ==
  /\ NoRows \in RowValues
  /\ MaxInFlight \in Nat \ {0}

VARIABLES
  rowsOf,      \* the rows of each run in the database
  untold,      \* history: a write of the run that no event has told of
  rows,        \* the rows on the screen
  rowsError,   \* whether an error is shown with them
  rowsLate,    \* history: they came after the answer to a GET sent later
  fetches      \* the GETs on their way, in the order they were sent

Log == INSTANCE RowLog

listVars == <<rows, rowsError, rowsLate, fetches>>

RowKinds == {"benchmark_row", "benchmark_done"}

\* "late" is history: the answer to a GET sent later has come.
Fetch == [run : Runs, pc : {"asked", "checked", "answered"},
          rows : RowValues, ok : BOOLEAN, late : BOOLEAN]

RowListTypeOK ==
  /\ rowsOf \in [Runs -> RowValues]
  /\ untold \in [Runs -> BOOLEAN]
  /\ rows \in RowValues
  /\ rowsError \in BOOLEAN /\ rowsLate \in BOOLEAN
  /\ fetches \in Seq(Fetch)
  /\ Len(fetches) <= MaxInFlight

RowListInit ==
  rows = NoRows /\ rowsError = FALSE /\ rowsLate = FALSE /\ fetches = <<>>

\* fetchOnce
FetchOnce(r) ==
  /\ Len(fetches) < MaxInFlight
  /\ fetches' = Append(fetches, [run |-> r, pc |-> "asked", rows |-> NoRows,
                                 ok |-> FALSE, late |-> FALSE])
  /\ rowsError' = FALSE
  /\ UNCHANGED <<rows, rowsLate>>

\* The effect of a change of the run.
ResetList(r) ==
  IF r # Unknown THEN FetchOnce(r)
  ELSE rows' = NoRows /\ UNCHANGED <<rowsError, rowsLate, fetches>>

\* Mutant: the rows are fetched again when the call is done only.
FetchWhenDone(h) ==
  /\ Receive(h)
  /\ IF NextEvent(h).kind = "benchmark_done" THEN FetchOnce(stream[h].run)
     ELSE UNCHANGED listVars

ReceiveList(h) ==
  /\ Receive(h)
  /\ IF NextEvent(h).kind \in RowKinds THEN FetchOnce(stream[h].run)
     ELSE UNCHANGED listVars

\* runs_benchmarks asks for the run first; without it the answer is 404.
CheckFetch(i) ==
  /\ fetches[i].pc = "asked"
  /\ fetches' = [fetches EXCEPT ![i].pc =
       IF RunExists(fetches[i].run) THEN "checked" ELSE "answered"]
  /\ UNCHANGED <<rows, rowsError, rowsLate>>

ReadFetch(i) ==
  /\ fetches[i].pc = "checked"
  /\ fetches' = [fetches EXCEPT ![i].pc = "answered", ![i].ok = TRUE,
                                ![i].rows = rowsOf[fetches[i].run]]
  /\ UNCHANGED <<rows, rowsError, rowsLate>>

FailFetch(i) ==
  /\ fetches[i].pc = "checked"
  /\ fetches' = [fetches EXCEPT ![i].pc = "answered"]
  /\ UNCHANGED <<rows, rowsError, rowsLate>>

\* setRows or setError, in the order in which the answers come and whatever is
\* selected by now; an error leaves the rows.
ShowRows(i) ==
  /\ fetches[i].pc = "answered"
  /\ fetches' = RemoveAt([j \in DOMAIN fetches |->
                           [fetches[j] EXCEPT !.late = @ \/ j < i]], i)
  /\ IF fetches[i].ok
     THEN /\ rows' = fetches[i].rows /\ rowsLate' = fetches[i].late
          /\ UNCHANGED rowsError
     ELSE rowsError' = TRUE /\ UNCHANGED <<rows, rowsLate>>

Fetching == \E i \in DOMAIN fetches : CheckFetch(i) \/ ReadFetch(i) \/ ShowRows(i)
=============================================================================
