--------------------------- MODULE MCReplicatorRetry ---------------------------
(* Instances of ReplicatorRetry for TLC. *)
EXTENDS ReplicatorRetry, TLC

Symmetry == Permutations(Worker) \cup Permutations(Doc)
=============================================================================
