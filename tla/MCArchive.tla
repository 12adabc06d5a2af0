------------------------------ MODULE MCArchive ------------------------------
(* Instances of Archive for TLC. *)
EXTENDS Archive, TLC

\* Ids and contents are only compared for equality.
Symmetry == Permutations(ObjectIds) \cup Permutations(RelIds) \cup Permutations(Contents)
=============================================================================
