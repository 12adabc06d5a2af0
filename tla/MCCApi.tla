------------------------------- MODULE MCCApi -------------------------------
(* Instances of CApi for TLC. *)
EXTENDS CApi, TLC

\* Ids and contents are only compared for equality.
Symmetry ==
    Permutations(ObjectIds) \cup Permutations(RelIds) \cup Permutations(Contents)
=============================================================================
