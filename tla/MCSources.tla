------------------------------ MODULE MCSources ------------------------------
(***************************************************************************)
(* Instances of SourceScripts for TLC.                                     *)
(***************************************************************************)
EXTENDS SourceScripts

CONSTANTS b1, b2, r1, x1, t1, t2

OneRun == [b \in Benchmarks |-> r1]

\* The call is made again, without the query that is wrong on the source.
Again ==
  b1 :> <<[source |-> "wrong", target |-> "right"], [source |-> "right", target |-> "wrong"]>>
  @@ b2 :> <<[source |-> "right", target |-> "none"]>>

OneInTwo == {<<t1, t2>>}
==============================================================================
