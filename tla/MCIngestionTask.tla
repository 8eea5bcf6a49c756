--------------------------- MODULE MCIngestionTask ---------------------------
(* Instances of IngestionTask for TLC. *)
EXTENDS IngestionTask, TLC

Symmetry == Permutations(Tasks) \cup Permutations(Workers)
=============================================================================
