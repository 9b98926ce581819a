----------------------------- MODULE MCValidation -----------------------------
(***************************************************************************)
(* Instances of ValidationSystem for TLC.                                  *)
(***************************************************************************)
EXTENDS ValidationSystem, TLC

CONSTANTS r1, s1, t1, t2, c1, k1, k2, v1, v2

RunOfOne == s1 :> r1
Direct(t, k) == [table |-> t, target |-> k, strategy |-> "direct"]
OneDirect == s1 :> <<Direct(t1, k1)>>
NoUnload  == s1 :> {}
TwoRows   == [t \in Tables |-> 2]
NoRow     == [k \in TargetTables |-> 0]
SameName  == [t \in Tables |-> IF t = t1 THEN k1 ELSE k2]
OneRun    == [v \in Validations |-> r1]
AskedAll   == [v \in Validations |-> Tables]

\* No guard reads the event log, so states that differ in it only have the same
\* successors.
BesidesEvents ==
  <<runs, runTables, batches, controls, validations, migratorVars, apiVars,
    validatorVars>>
=============================================================================
