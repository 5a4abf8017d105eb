----------------------------- MODULE MCJobManager -----------------------------
(* Instances of JobManager for TLC. *)
EXTENDS JobManager, TLC

Symmetry == Permutations(Workers) \cup Permutations(Keys) \cup Permutations(Fingerprints)
=============================================================================
