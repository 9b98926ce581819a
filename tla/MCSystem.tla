------------------------------- MODULE MCSystem -------------------------------
(***************************************************************************)
(* Instances of MigrationSystem for TLC.                                   *)
(***************************************************************************)
EXTENDS TableProgress, TLC

CONSTANTS r1, r2, s1, s2, t1, t2, c1, c2, k1, k2

RunOfEach == s1 :> r1 @@ s2 :> r2
RunOfOne  == s1 :> r1

Item1(strategy) == [table |-> t1, target |-> k1, strategy |-> strategy]
Item2(strategy) == [table |-> t2, target |-> k2, strategy |-> strategy]

\* One script that moves a table by each path.
MixedPlan == s1 :> <<Item1("direct"), Item2("s3_stage")>>

\* Two scripts; the second asks for a strategy that its source does not have.
PairPlans == s1 :> <<Item1("direct")>> @@ s2 :> <<Item1("s3_stage")>>

DirectPlans == s1 :> <<Item1("direct")>> @@ s2 :> <<Item1("direct")>>
OneDirect   == s1 :> <<Item1("direct")>>

MixedUnload == s1 :> {"s3_stage"}
NoUnload    == [s \in Scripts |-> {}]

ThreeAndOne == t1 :> 3 @@ t2 :> 1
OneEach     == [t \in Tables |-> 1]
EmptyTargets  == [k \in TargetTables |-> 0]
K2Loaded      == k1 :> 0 @@ k2 :> 1

\* Handlers differ in nothing but their name.
SameCallers == Permutations(Callers)

\* No guard reads the event log, so states that differ in it only have the same
\* successors.
BesidesEvents ==
  <<runs, runTables, batches, controls, validations, migratorVars, apiVars>>
=============================================================================
