--------------------------- MODULE MCIndexRebuild ---------------------------
(* Instances of IndexRebuild for TLC. *)
EXTENDS IndexRebuild, TLC

Symmetry == Permutations(Workers) \cup Permutations(Clients)
=============================================================================
