----------------------------- MODULE MCSessions -----------------------------
(* An instance of Sessions for TLC.                                         *)
EXTENDS Sessions, TLC

\* The requests, and the two roles, are interchangeable.
SessionSymmetry == Permutations(Calls) \cup Permutations(Roles)
=============================================================================
