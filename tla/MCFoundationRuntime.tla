------------------------ MODULE MCFoundationRuntime ------------------------
(* Instances of FoundationRuntime for TLC. *)
EXTENDS FoundationRuntime, TLC

\* Ids and contents are only compared for equality.
Symmetry ==
    Permutations(ObjectIds) \cup Permutations(RelIds) \cup Permutations(Contents)
=============================================================================
