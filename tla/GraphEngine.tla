----------------------------- MODULE GraphEngine -----------------------------
(***************************************************************************)
(* GraphEngine (platform/repository): the graph of a repository's objects  *)
(* and relationships, built on request, and its two traversals.            *)
(*                                                                         *)
(* Object and relationship ids are ordered, as UUID strings are; they are  *)
(* natural numbers here.  A neighbor list is the set of its entries: it is *)
(* sorted by object id and then relationship id, so the loops over it are  *)
(* modelled one entry at a time, smallest first (largest first where the   *)
(* code goes backwards).                                                   *)
(*                                                                         *)
(*   ready   no query runs                                                 *)
(*   next    a traversal is about to take an entry of its queue or stack   *)
(*   scan    it goes through the neighbors of the entry it has visited     *)
(***************************************************************************)
EXTENDS Naturals, Sequences, FiniteSets

CONSTANTS
    Objects,        \* object ids
    Relationships,  \* relationship ids
    Source, Target, \* relationship -> its end points, which never change
    Changing        \* the objects that come and go between two queries

ASSUME GraphAssumption ==
    /\ Objects \subseteq Nat /\ IsFiniteSet(Objects)
    /\ Relationships \subseteq Nat /\ IsFiniteSet(Relationships)
    /\ Source \in [Relationships -> Objects]
    /\ Target \in [Relationships -> Objects]
    /\ \A r \in Relationships : Source[r] # Target[r]
    /\ Changing \subseteq Objects

VARIABLES
    objects,    \* the objects that load
    rels,       \* the relationships that load
    adjacency,  \* adjacency_: node -> its neighbor entries
    kind,       \* the query: "bfs", "dfs", "path"
    start,      \* the node it starts from
    target,     \* the node path_exists looks for
    order,      \* the nodes visited, in order
    seen,       \* `visited`: enqueued nodes of a bfs, visited nodes of a dfs
    frontier,   \* the queue (head first) or the stack (top last)
    todo,       \* the neighbor entries the running loop has not reached
    pc,
    answer      \* what the last query returned

stores == <<objects, rels>>
query == <<kind, start, target, order, seen, frontier, todo, pc, answer>>
gvars == <<stores, adjacency, query>>

Neighbors == [object : Objects, rel : Relationships]
Nodes == DOMAIN adjacency
Adjacent(x) == {n.object : n \in adjacency[x]}
Visited == {order[i] : i \in DOMAIN order}
Pending == {frontier[i] : i \in DOMAIN frontier}

GraphInit ==
    /\ objects \in SUBSET Objects
    /\ rels \in SUBSET Relationships
    /\ adjacency = [o \in {} |-> {}]
    /\ kind = "bfs"
    /\ start \in Objects
    /\ target = start
    /\ order = <<>>
    /\ seen = {}
    /\ frontier = <<>>
    /\ todo = {}
    /\ pc = "ready"
    /\ answer = "none"

-----------------------------------------------------------------------------
(* The stores, which other calls change between two queries. *)

Idle ==
    /\ pc = "ready"
    /\ order' = <<>>
    /\ answer' = "none"
    /\ UNCHANGED <<kind, start, target, seen, frontier, todo, pc>>

ChangeObject(o) ==
    /\ o \in Changing
    /\ objects' \in {objects \cup {o}, objects \ {o}}
    /\ Idle
    /\ UNCHANGED <<rels, adjacency>>

\* Deleting an object leaves its relationships, which then dangle.
ChangeRelationship(r) ==
    /\ {Source[r], Target[r]} \subseteq Changing
    /\ rels' \in {rels \cup {r}, rels \ {r}}
    /\ Idle
    /\ UNCHANGED <<objects, adjacency>>

-----------------------------------------------------------------------------
(* build_graph. *)

Entries(o, present) ==
    {n \in Neighbors :
        /\ n.rel \in present
        /\ {Source[n.rel], Target[n.rel]} = {o, n.object}}

BothEndsAreNodes(listed) ==
    {r \in rels : Source[r] \in listed /\ Target[r] \in listed}

\* A listing that fails leaves an empty graph, or one without edges.
BuildGraph ==
    /\ \/ adjacency' = [o \in objects |-> Entries(o, BothEndsAreNodes(objects))]
       \/ adjacency' = [o \in objects |-> {}]
       \/ adjacency' = [o \in {} |-> {}]
    /\ Idle
    /\ UNCHANGED stores

ClearGraph ==
    /\ adjacency' = [o \in {} |-> {}]
    /\ Idle
    /\ UNCHANGED stores

-----------------------------------------------------------------------------
(* traverse_breadth_first, traverse_depth_first, path_exists. *)

\* The node has to be in the graph, and both nodes of a path.  Only a path has a
\* target.
Refuse(k, s, t) ==
    /\ pc = "ready"
    /\ \/ s \notin Nodes
       \/ k = "path" /\ t \notin Nodes
    /\ k = "path" \/ s = t
    /\ kind' = k /\ start' = s /\ target' = t
    /\ order' = <<>>
    /\ answer' = "error"
    /\ UNCHANGED <<stores, adjacency, seen, frontier, todo, pc>>

\* A path from a node to itself is answered without a traversal.
SameNode(s) ==
    /\ pc = "ready"
    /\ s \in Nodes
    /\ kind' = "path" /\ start' = s /\ target' = s
    /\ order' = <<>>
    /\ answer' = "yes"
    /\ UNCHANGED <<stores, adjacency, seen, frontier, todo, pc>>

Begin(k, s, t) ==
    /\ pc = "ready"
    /\ s \in Nodes
    /\ IF k = "path" THEN t \in Nodes /\ s # t ELSE s = t
    /\ kind' = k /\ start' = s /\ target' = t
    /\ order' = <<>>
    /\ frontier' = <<s>>
    /\ seen' = IF k = "dfs" THEN {} ELSE {s}
    /\ todo' = {}
    /\ pc' = "next"
    /\ answer' = "none"
    /\ UNCHANGED <<stores, adjacency>>

\* neighbor_less, or the same entry.
NotAfter(m, n) == m.object < n.object \/ (m.object = n.object /\ m.rel <= n.rel)
Smallest(n) == \A m \in todo : NotAfter(n, m)
Largest(n) == \A m \in todo : NotAfter(m, n)

Take(x) ==
    /\ order' = Append(order, x)
    /\ todo' = adjacency[x]
    /\ pc' = "scan"

Query == UNCHANGED <<stores, adjacency, kind, start, target>>

Dequeue ==
    /\ pc = "next" /\ kind # "dfs" /\ frontier # <<>>
    /\ frontier' = Tail(frontier)
    /\ Take(Head(frontier))
    /\ Query /\ UNCHANGED <<seen, answer>>

\* Faulty variant: a node is marked when it is taken from the queue, not when it
\* is put there.
EnqueueUnmarked ==
    /\ pc = "scan" /\ kind # "dfs"
    /\ \E n \in todo :
          /\ Smallest(n)
          /\ todo' = todo \ {n}
          /\ IF n.object \in Visited
             THEN UNCHANGED <<seen, frontier>>
             ELSE /\ seen' = seen \cup {n.object}
                  /\ frontier' = Append(frontier, n.object)
    /\ Query /\ UNCHANGED <<order, pc, answer>>

\* Faulty variant: the loop does not advance past a node already seen.
EnqueueStays ==
    /\ pc = "scan" /\ kind # "dfs"
    /\ \E n \in todo :
          /\ Smallest(n)
          /\ IF n.object \in seen
             THEN UNCHANGED <<todo, seen, frontier>>
             ELSE /\ todo' = todo \ {n}
                  /\ seen' = seen \cup {n.object}
                  /\ frontier' = Append(frontier, n.object)
    /\ Query /\ UNCHANGED <<order, pc, answer>>

\* One turn of the loop over the neighbors: a node not seen yet is marked and
\* put at the end of the queue.
Enqueue ==
    /\ pc = "scan" /\ kind # "dfs"
    /\ \E n \in todo :
          /\ Smallest(n)
          /\ todo' = todo \ {n}
          /\ IF n.object \in seen
             THEN UNCHANGED <<seen, frontier>>
             ELSE /\ seen' = seen \cup {n.object}
                  /\ frontier' = Append(frontier, n.object)
    /\ Query /\ UNCHANGED <<order, pc, answer>>

\* Faulty variant: the entry at the bottom is taken.
PopBottom ==
    /\ pc = "next" /\ kind = "dfs" /\ frontier # <<>>
    /\ frontier' = Tail(frontier)
    /\ seen' = seen \cup {Head(frontier)}
    /\ IF Head(frontier) \in seen
       THEN UNCHANGED <<order, todo, pc>> ELSE Take(Head(frontier))
    /\ Query /\ UNCHANGED answer

\* The top of the stack may have been visited since it was pushed.
Pop ==
    /\ pc = "next" /\ kind = "dfs" /\ frontier # <<>>
    /\ LET top == frontier[Len(frontier)]
       IN  /\ frontier' = SubSeq(frontier, 1, Len(frontier) - 1)
           /\ seen' = seen \cup {top}
           /\ IF top \in seen THEN UNCHANGED <<order, todo, pc>> ELSE Take(top)
    /\ Query /\ UNCHANGED answer

\* Largest first, so that the smallest ends on top.
Push ==
    /\ pc = "scan" /\ kind = "dfs"
    /\ \E n \in todo :
          /\ Largest(n)
          /\ todo' = todo \ {n}
          /\ frontier' = IF n.object \in seen THEN frontier ELSE Append(frontier, n.object)
    /\ Query /\ UNCHANGED <<order, seen, pc, answer>>

ScanDone ==
    /\ pc = "scan" /\ todo = {}
    /\ pc' = "next"
    /\ Query /\ UNCHANGED <<order, seen, frontier, todo, answer>>

\* Faulty variant: a traversal ends as soon as every node of the graph is waiting or
\* visited, the last ones unvisited.
ReturnEarly ==
    /\ pc = "next"
    /\ frontier = <<>> \/ Nodes = Visited \cup Pending
    /\ pc' = "ready"
    /\ answer' = IF kind = "path" /\ target \notin Visited THEN "no" ELSE "yes"
    /\ seen' = {} /\ frontier' = <<>>
    /\ Query /\ UNCHANGED <<order, todo>>

\* The traversal ends with an empty queue or stack; path_exists looks for its
\* target in the result.
Return ==
    /\ pc = "next" /\ frontier = <<>>
    /\ pc' = "ready"
    /\ answer' = IF kind = "path" /\ target \notin Visited THEN "no" ELSE "yes"
    /\ seen' = {}
    /\ Query /\ UNCHANGED <<order, frontier, todo>>

Step == Dequeue \/ Enqueue \/ Pop \/ Push \/ ScanDone \/ Return

GraphNext ==
    \/ \E o \in Objects : ChangeObject(o)
    \/ \E r \in Relationships : ChangeRelationship(r)
    \/ BuildGraph
    \/ ClearGraph
    \/ \E k \in {"bfs", "dfs", "path"}, s, t \in Objects :
          Refuse(k, s, t) \/ Begin(k, s, t)
    \/ \E s \in Objects : SameNode(s)
    \/ Step

GraphSafety == GraphInit /\ [][GraphNext]_gvars

\* A traversal that has begun runs to its end: it is one call.
GraphSpec == GraphSafety /\ WF_gvars(Step)

-----------------------------------------------------------------------------
(* Properties. *)

\* Type invariant: every neighbor is another node of the graph.
GraphTypeOK ==
    /\ objects \subseteq Objects /\ rels \subseteq Relationships
    /\ Nodes \subseteq Objects
    /\ \A x \in Nodes : adjacency[x] \subseteq Neighbors /\ Adjacent(x) \subseteq Nodes \ {x}
    /\ kind \in {"bfs", "dfs", "path"}
    /\ start \in Objects /\ target \in Objects
    /\ order \in Seq(Objects) /\ frontier \in Seq(Objects)
    /\ seen \subseteq Objects
    /\ todo \subseteq Neighbors
    /\ pc \in {"ready", "next", "scan"}
    /\ answer \in {"none", "error", "yes", "no"}

\* Whatever a traversal meets is a node of the graph: adjacency_.at() never
\* throws, even when the stores hold relationships that dangle.
OnlyNodesAreMet ==
    pc # "ready" =>
        /\ Visited \cup Pending \subseteq Nodes
        /\ {n.object : n \in todo} \subseteq Nodes

\* No node is visited twice, although a node may be several times on the stack.
VisitedOnce == \A i, j \in DOMAIN order : order[i] = order[j] => i = j

\* The queue and the stack stay within the graph: no node is put in the queue twice,
\* and the stack holds at most the start and the neighbor entries of the nodes visited.
FrontierBounded ==
    pc # "ready" =>
        IF kind = "dfs"
        THEN Len(frontier) <= 1 + Cardinality(UNION {{x} \X adjacency[x] : x \in Visited})
        ELSE Len(order) + Len(frontier) = Cardinality(seen)

Joined(x, y) == y \in Adjacent(x)

\* A breadth first order: a node visited before a neighbor of an earlier node is
\* itself a neighbor of a still earlier one.
BreadthFirst ==
    kind # "dfs" =>
        \A a, b, c \in DOMAIN order :
            (/\ a < b /\ b < c
             /\ Joined(order[a], order[c]) /\ ~Joined(order[a], order[b]))
            => \E d \in 1..(a - 1) : Joined(order[d], order[b])

\* A depth first order: before the walk leaves a node whose neighbor is unvisited
\* it goes on from the nodes visited since.
DepthFirst ==
    kind = "dfs" =>
        \A a, b, c \in DOMAIN order :
            (/\ a < b /\ b < c
             /\ Joined(order[a], order[c]) /\ ~Joined(order[a], order[b]))
            => \E d \in (a + 1)..(b - 1) : Joined(order[d], order[b])

\* Among nodes that became reachable through the same neighbors, the smaller id
\* comes first: the order of a traversal does not depend on anything but the graph.
Earlier(i, x) == {j \in 1..(i - 1) : Joined(order[j], x)}
SmallestFirst ==
    \A i, k \in DOMAIN order :
        (/\ 1 < i /\ i < k
         /\ Earlier(i, order[i]) = Earlier(i, order[k]))
        => order[i] < order[k]

\* The invariant of the loops: what is seen, what waits and what is still to be
\* scanned account for every neighbor of a visited node; nothing waits that is not
\* next to a visited node; and a queue holds no node twice.
Scanned == {n.object : n \in todo}
Reached == start \in Visited \cup Pending /\ start \in Nodes
Accounted == \A y \in Visited : Adjacent(y) \subseteq Visited \cup Pending \cup Scanned
Justified(x) == x = start \/ \E y \in Visited : x \in Adjacent(y)
Disjoint ==
    /\ Visited \cap Pending = {}
    /\ \A i, j \in DOMAIN frontier : frontier[i] = frontier[j] => i = j
LoopInv ==
    /\ GraphTypeOK
    /\ OnlyNodesAreMet
    /\ VisitedOnce
    /\ pc # "ready" =>
        /\ Reached
        /\ Accounted
        /\ \A x \in Pending : Justified(x)
        /\ seen = IF kind = "dfs" THEN Visited ELSE Visited \cup Pending
        /\ kind # "dfs" => Disjoint
    /\ pc = "next" => todo = {}
    /\ pc = "scan" => \E y \in Visited : todo \subseteq adjacency[y]

\* A path is answered "yes" exactly when every set of nodes that holds the source
\* and is closed under adjacency holds the target; so the answer is the same from
\* both ends.
Closed(S) == \A x \in S : Adjacent(x) \subseteq S
Connected(s, t) == \A S \in SUBSET Nodes : s \in S /\ Closed(S) => t \in S
PathIsConnection ==
    kind = "path" /\ answer \in {"yes", "no"} =>
        /\ (answer = "yes") = Connected(start, target)
        /\ (answer = "yes") = Connected(target, start)

\* What the three queries return, in every state on the way: an order of theirs, in
\* bounded space, and a path exactly where there is one.
AnswersAreRight ==
    /\ FrontierBounded /\ BreadthFirst /\ DepthFirst /\ SmallestFirst
    /\ PathIsConnection

\* Every query that begins ends.
EveryQueryEnds == []<>(pc = "ready")

\* The traversals implement a search of the graph.
Search == INSTANCE GraphSearch WITH
    adjacent <- [x \in Nodes |-> Adjacent(x)],
    visited <- Visited,
    running <- pc # "ready"
ImplementsSearch == Search!SearchSpec
=============================================================================
