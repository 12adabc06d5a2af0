---------------------------- MODULE MCCommandLine ----------------------------
(* Instances of CommandLine for TLC. *)
EXTENDS CommandLine, TLC

\* Ids and processes are only compared for equality.
Symmetry == Permutations(Procs) \cup Permutations(ObjectIds) \cup Permutations(RelIds)
=============================================================================
