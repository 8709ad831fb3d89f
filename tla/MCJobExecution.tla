--------------------------- MODULE MCJobExecution ---------------------------
(* Instances of JobExecution for TLC.                                       *)
EXTENDS JobExecution, TLC

WorkerSymmetry == Permutations(Workers)
=============================================================================
