-------------------------------- MODULE MCJob --------------------------------
(***************************************************************************)
(* Instances of JobRunner for TLC.                                         *)
(***************************************************************************)
EXTENDS JobRunner

OneLongLine == [x \in Streams |-> IF x = "stdout" THEN {2} ELSE {}]
=============================================================================
