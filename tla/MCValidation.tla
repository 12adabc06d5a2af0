----------------------------- MODULE MCValidation -----------------------------
(* Instances of BatchFiles and Validation for TLC. *)
EXTENDS Validation, TLC

Symmetry ==
    Permutations(ObjectIds) \cup Permutations(RelIds)
        \cup Permutations(Contents) \cup Permutations(Refs)
=============================================================================
