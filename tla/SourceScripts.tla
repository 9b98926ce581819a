---------------------------- MODULE SourceScripts ----------------------------
(***************************************************************************)
(* The scripts that ask a source adapter for something: a benchmark, which *)
(* times queries, and a transfer, which makes the other calls.  Each has a *)
(* connection of its own and they share no state, so a behaviour runs one  *)
(* of the two.                                                             *)
(***************************************************************************)
EXTENDS Benchmarker, SourceAdapter

VARIABLE user   \* the script of this behaviour

scriptsVars == <<storeVars, benchVars, connectionVars, bucket, ask, user>>

\* All are scripts for one source.
ScriptsInit ==
  /\ user \in {"benchmark", "transfer"}
  /\ BenchmarkerInit
  /\ AdapterInit
  /\ \A c, d \in Connections : adapter[c] = adapter[d]

Benchmarking == user = "benchmark" /\ BenchmarkerNext /\ UNCHANGED <<bucket, ask, user>>
Transferring == user = "transfer" /\ AdapterNext /\ UNCHANGED <<storeVars, benchVars, user>>

ScriptsSpec == ScriptsInit /\ [][Benchmarking \/ Transferring]_scriptsVars

ScriptsTypeOK ==
  BenchmarkerTypeOK /\ AdapterTypeOK /\ user \in {"benchmark", "transfer"}
==============================================================================
