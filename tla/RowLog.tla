-------------------------------- MODULE RowLog --------------------------------
(***************************************************************************)
(* What a step that fills a table of the state store promises to those who *)
(* read it: the rows of a run change one write at a time, and an event     *)
(* tells of each write before the next row is written.  Only the clearing  *)
(* that begins a call is not told of by itself.                            *)
(*                                                                         *)
(* Benchmarker implements it; Dashboard has it for a writer.               *)
(***************************************************************************)
CONSTANTS
  Runs,
  NoRows     \* a run without rows

VARIABLES
  rowsOf,    \* the rows of each run
  untold     \* history: a write of the run that no event has told of

rowLogVars == <<rowsOf, untold>>

LogInit ==
  /\ rowsOf = [r \in Runs |-> NoRows]
  /\ untold = [r \in Runs |-> FALSE]

Clear(r) ==
  /\ rowsOf' = [rowsOf EXCEPT ![r] = NoRows]
  /\ untold' = [untold EXCEPT ![r] = TRUE]

Put(r, rows) ==
  /\ ~untold[r] \/ rowsOf[r] = NoRows
  /\ rowsOf' = [rowsOf EXCEPT ![r] = rows]
  /\ untold' = [untold EXCEPT ![r] = TRUE]

Tell(r) ==
  /\ untold' = [untold EXCEPT ![r] = FALSE]
  /\ UNCHANGED rowsOf

\* The run is deleted, and its rows with it.
Remove(r) ==
  /\ rowsOf' = [rowsOf EXCEPT ![r] = NoRows]
  /\ UNCHANGED untold

LogNext ==
  \E r \in Runs : Clear(r) \/ Put(r, rowsOf'[r]) \/ Tell(r) \/ Remove(r)

LogSpec == LogInit /\ [][LogNext]_rowLogVars
=============================================================================
