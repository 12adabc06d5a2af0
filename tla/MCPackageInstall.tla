-------------------------- MODULE MCPackageInstall --------------------------
(* Instances of PackageInstall, PackageQueries and RuntimeViews for TLC. *)
EXTENDS RuntimeViews, TLC

NoTitles == [p \in Packages |-> Absent]

Symmetry ==
    Permutations(ObjectIds) \cup Permutations(RelIds)
        \cup Permutations(Contents) \cup Permutations(Packages)

(* What the run install tells apart of the journal.  No action reads the   *)
(* journal and only the record of the transaction tx is ever written, so   *)
(* of the older transactions only one fact can matter to any property of   *)
(* that run: whether all of them ended (NothingLeftBehind).                *)
LeftBehind == {t \in 1..tx : journal[t] \notin {"Committed", "RolledBack"}}

InstallView ==
    <<storeVars, txVars, callVars, state, issued, installVars, contributor, views,
      tx \in LeftBehind, LeftBehind \ {tx} = {}>>
=============================================================================
