-------------------------- MODULE MCIngestionQueue --------------------------
(* Instances of IngestionQueue for TLC. *)
EXTENDS IngestionQueue, TLC

Symmetry == Permutations(Tasks) \cup Permutations(Workers)
=============================================================================
