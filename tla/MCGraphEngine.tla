---------------------------- MODULE MCGraphEngine ----------------------------
(* Instances of GraphEngine for TLC. *)
EXTENDS GraphEngine

\* Four objects in a square, edges in both directions of id, and a second edge beside
\* the first.
FourObjects == 1..4
FiveEdges == 1..5
FiveSource == <<1, 3, 2, 4, 2>>
FiveTarget == <<2, 1, 4, 3, 1>>
=============================================================================
