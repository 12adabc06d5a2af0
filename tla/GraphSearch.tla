----------------------------- MODULE GraphSearch -----------------------------
(***************************************************************************)
(* What a traversal of an undirected graph promises, whatever its order:   *)
(* it visits the start, then one node after another that is adjacent to a  *)
(* node already visited, and ends only when no such node is left.          *)
(***************************************************************************)
EXTENDS Naturals

CONSTANT Objects        \* the nodes a graph may have

VARIABLES
    adjacent,   \* node -> the nodes next to it
    start,      \* the node a traversal starts from
    visited,    \* the nodes visited so far
    running     \* has the traversal begun and not ended?

svars == <<adjacent, start, visited, running>>

\* A graph is (re)built and a start chosen while no traversal runs.
Choose ==
    /\ ~running
    /\ visited' = {}
    /\ running' \in BOOLEAN
    /\ running' => start' \in DOMAIN adjacent'

Visit ==
    /\ running
    /\ running' = TRUE
    /\ \E x \in DOMAIN adjacent :
          /\ x \notin visited
          /\ x = start \/ \E y \in visited : x \in adjacent[y]
          /\ visited' = visited \cup {x}
    /\ UNCHANGED <<adjacent, start>>

\* Closed: whoever is next to a visited node has been visited.
Finish ==
    /\ running
    /\ running' = FALSE
    /\ start \in visited
    /\ \A y \in visited : adjacent[y] \subseteq visited
    /\ UNCHANGED <<adjacent, start, visited>>

SearchInit == visited = {} /\ running = FALSE

SearchSpec == SearchInit /\ [][Choose \/ Visit \/ Finish]_svars
=============================================================================
