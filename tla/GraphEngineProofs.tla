-------------------------- MODULE GraphEngineProofs --------------------------
(***************************************************************************)
(* Proofs about GraphEngine, for every set of objects, relationships and   *)
(* end points: the loops of both traversals keep LoopInv, so they meet     *)
(* nodes only and visit none twice, and every traversal is a search of the *)
(* graph that ends when all that can be reached has been visited.          *)
(***************************************************************************)
EXTENDS GraphEngine, TLAPS, FiniteSetTheorems, WellFoundedInduction

USE GraphAssumption

-----------------------------------------------------------------------------
(* Sequences of objects. *)

Elements(s) == {s[i] : i \in DOMAIN s}
NoRepeats(s) == \A i, j \in DOMAIN s : s[i] = s[j] => i = j

LEMMA ElementsOfAppend ==
    ASSUME NEW S, NEW s \in Seq(S), NEW x \in S
    PROVE  /\ Append(s, x) \in Seq(S)
           /\ Elements(Append(s, x)) = Elements(s) \cup {x}
           /\ NoRepeats(s) /\ x \notin Elements(s) => NoRepeats(Append(s, x))
<1>1. /\ Append(s, x) \in Seq(S)
      /\ DOMAIN Append(s, x) = 1..(Len(s) + 1) /\ DOMAIN s = 1..Len(s) /\ Len(s) \in Nat
      /\ Append(s, x)[Len(s) + 1] = x
      /\ \A i \in 1..Len(s) : Append(s, x)[i] = s[i]
    OBVIOUS
<1> QED BY <1>1 DEF Elements, NoRepeats

LEMMA ElementsOfTail ==
    ASSUME NEW S, NEW s \in Seq(S), s # <<>>
    PROVE  /\ Tail(s) \in Seq(S) /\ Head(s) \in S
           /\ Elements(s) = Elements(Tail(s)) \cup {Head(s)}
           /\ NoRepeats(s) => NoRepeats(Tail(s)) /\ Head(s) \notin Elements(Tail(s))
<1>1. /\ Tail(s) \in Seq(S) /\ Head(s) \in S /\ Head(s) = s[1]
      /\ Len(s) \in Nat \ {0}
      /\ DOMAIN Tail(s) = 1..(Len(s) - 1) /\ DOMAIN s = 1..Len(s)
      /\ \A i \in 1..(Len(s) - 1) : Tail(s)[i] = s[i + 1]
    OBVIOUS
<1>2. \A i \in DOMAIN s : i = 1 \/ (i - 1 \in DOMAIN Tail(s) /\ s[i] = Tail(s)[i - 1])
    BY <1>1
<1>3. \A i \in DOMAIN Tail(s) : i + 1 \in DOMAIN s /\ i + 1 # 1 /\ Tail(s)[i] = s[i + 1]
    BY <1>1
<1>4. Elements(s) = Elements(Tail(s)) \cup {Head(s)}
  <2>1. ASSUME NEW x \in Elements(s)
        PROVE  x \in Elements(Tail(s)) \cup {Head(s)}
    <3>1. PICK i \in DOMAIN s : x = s[i]
        BY DEF Elements
    <3> QED BY <1>1, <1>2, <3>1 DEF Elements
  <2>2. ASSUME NEW x \in Elements(Tail(s))
        PROVE  x \in Elements(s)
    <3>1. PICK i \in DOMAIN Tail(s) : x = Tail(s)[i]
        BY DEF Elements
    <3> QED BY <1>3, <3>1 DEF Elements
  <2>3. Head(s) \in Elements(s)
      BY <1>1 DEF Elements
  <2> QED BY <2>1, <2>2, <2>3
<1>5. ASSUME NoRepeats(s)
      PROVE  NoRepeats(Tail(s)) /\ Head(s) \notin Elements(Tail(s))
    BY <1>1, <1>3, <1>5 DEF Elements, NoRepeats
<1> QED BY <1>1, <1>4, <1>5

Front(s) == SubSeq(s, 1, Len(s) - 1)

LEMMA ElementsOfFront ==
    ASSUME NEW S, NEW s \in Seq(S), s # <<>>
    PROVE  /\ Front(s) \in Seq(S) /\ s[Len(s)] \in S
           /\ Elements(s) = Elements(Front(s)) \cup {s[Len(s)]}
<1>1. /\ Front(s) \in Seq(S) /\ s[Len(s)] \in S
      /\ Len(s) \in Nat \ {0}
      /\ DOMAIN Front(s) = 1..(Len(s) - 1) /\ DOMAIN s = 1..Len(s)
      /\ \A i \in 1..(Len(s) - 1) : Front(s)[i] = s[i]
    BY DEF Front
<1> QED BY <1>1 DEF Elements

-----------------------------------------------------------------------------
(* The graph. *)

LEMMA BuiltGraph ==
    ASSUME NEW listed \in SUBSET Objects, NEW present \in SUBSET Relationships,
           NEW o \in listed,
           \A r \in present : Source[r] \in listed /\ Target[r] \in listed
    PROVE  /\ Entries(o, present) \subseteq Neighbors
           /\ {n.object : n \in Entries(o, present)} \subseteq listed \ {o}
<1> SUFFICES ASSUME NEW n \in Neighbors, n.rel \in present,
                    {Source[n.rel], Target[n.rel]} = {o, n.object}
             PROVE  n.object \in listed \ {o}
    BY DEF Entries
<1>1. n.rel \in Relationships /\ Source[n.rel] # Target[n.rel]
    BY DEF Neighbors
<1>2. n.object # o
    BY <1>1
<1>3. n.object \in {Source[n.rel], Target[n.rel]}
    OBVIOUS
<1> QED BY <1>2, <1>3

-----------------------------------------------------------------------------
(* The invariant of the loops. *)

LEMMA LoopInit == GraphInit => LoopInv
BY DEF GraphInit, LoopInv, GraphTypeOK, OnlyNodesAreMet, VisitedOnce, Visited, Pending, Nodes

\* Between two queries nothing but the graph, the stores and the answer changes.
LEMMA IdleKeeps ==
    ASSUME LoopInv, Idle, answer' \in {"none"},
           objects' \subseteq Objects, rels' \subseteq Relationships,
           DOMAIN adjacency' \subseteq Objects,
           \A x \in DOMAIN adjacency' :
              /\ adjacency'[x] \subseteq Neighbors
              /\ {n.object : n \in adjacency'[x]} \subseteq (DOMAIN adjacency') \ {x}
    PROVE  LoopInv'
BY DEF LoopInv, GraphTypeOK, OnlyNodesAreMet, VisitedOnce, Idle, Visited, Pending, Nodes, Adjacent

LEMMA StoresKeep ==
    ASSUME LoopInv, ClearGraph \/ BuildGraph \/ (\E o \in Objects : ChangeObject(o))
                    \/ (\E r \in Relationships : ChangeRelationship(r))
    PROVE  LoopInv'
<1>0. /\ objects \subseteq Objects /\ rels \subseteq Relationships
      /\ DOMAIN adjacency \subseteq Objects
      /\ \A x \in DOMAIN adjacency :
            /\ adjacency[x] \subseteq Neighbors
            /\ {n.object : n \in adjacency[x]} \subseteq (DOMAIN adjacency) \ {x}
    BY DEF LoopInv, GraphTypeOK, Nodes, Adjacent
<1>1. CASE ClearGraph
  <2>1. Idle /\ answer' \in {"none"} /\ DOMAIN adjacency' = {} /\ UNCHANGED stores
      BY <1>1 DEF ClearGraph, Idle
  <2> QED BY <1>0, <2>1, IdleKeeps DEF stores
<1>2. CASE BuildGraph
  <2> DEFINE present == BothEndsAreNodes(objects)
  <2>1. Idle /\ answer' \in {"none"} /\ UNCHANGED stores
      BY <1>2 DEF BuildGraph, Idle
  <2>2. /\ present \in SUBSET Relationships
        /\ \A r \in present : Source[r] \in objects /\ Target[r] \in objects
      BY <1>0 DEF BothEndsAreNodes
  <2>3. \A o \in objects :
          /\ Entries(o, present) \subseteq Neighbors
          /\ {n.object : n \in Entries(o, present)} \subseteq objects \ {o}
      BY <1>0, <2>2, BuiltGraph
  <2>4. /\ DOMAIN adjacency' \subseteq Objects
        /\ \A x \in DOMAIN adjacency' :
              /\ adjacency'[x] \subseteq Neighbors
              /\ {n.object : n \in adjacency'[x]} \subseteq (DOMAIN adjacency') \ {x}
    <3>1. CASE adjacency' = [o \in objects |-> Entries(o, present)]
        BY <1>0, <2>3, <3>1
    <3>2. CASE adjacency' = [o \in objects |-> {}]
        BY <1>0, <3>2
    <3>3. CASE adjacency' = [o \in {} |-> {}]
        BY <3>3
    <3> QED BY <1>2, <3>1, <3>2, <3>3 DEF BuildGraph
  <2> QED BY <1>0, <2>1, <2>4, IdleKeeps DEF stores
<1>3. ASSUME NEW o \in Objects, ChangeObject(o)
      PROVE  LoopInv'
  <2>1. /\ Idle /\ answer' \in {"none"}
        /\ objects' \subseteq Objects /\ rels' = rels /\ adjacency' = adjacency
      BY <1>0, <1>3 DEF ChangeObject, Idle
  <2> QED BY <1>0, <2>1, IdleKeeps
<1>4. ASSUME NEW r \in Relationships, ChangeRelationship(r)
      PROVE  LoopInv'
  <2>1. /\ Idle /\ answer' \in {"none"}
        /\ rels' \subseteq Relationships /\ objects' = objects /\ adjacency' = adjacency
      BY <1>0, <1>4 DEF ChangeRelationship, Idle
  <2> QED BY <1>0, <2>1, IdleKeeps
<1> QED BY <1>1, <1>2, <1>3, <1>4

-----------------------------------------------------------------------------
(* A query begins and is answered. *)

LEMMA QueryKeeps ==
    ASSUME LoopInv,
           NEW k \in {"bfs", "dfs", "path"}, NEW s \in Objects, NEW t \in Objects,
           Refuse(k, s, t) \/ Begin(k, s, t) \/ SameNode(s)
    PROVE  LoopInv'
<1> USE DEF Visited, Pending, Scanned
<1>1. CASE Refuse(k, s, t)
    BY <1>1 DEF Refuse, LoopInv, GraphTypeOK, OnlyNodesAreMet, VisitedOnce, Nodes, Adjacent, stores
<1>2. CASE SameNode(s)
    BY <1>2 DEF SameNode, LoopInv, GraphTypeOK, OnlyNodesAreMet, VisitedOnce, Nodes, Adjacent,
                stores
<1>3. CASE Begin(k, s, t)
  <2>1. /\ order' = <<>> /\ frontier' = <<s>> /\ todo' = {} /\ pc' = "next"
        /\ kind' = k /\ start' = s /\ target' = t /\ answer' = "none"
        /\ seen' = (IF k = "dfs" THEN {} ELSE {s})
        /\ s \in Nodes /\ UNCHANGED <<objects, rels, adjacency>>
      BY <1>3 DEF Begin, stores
  <2>2. /\ Visited' = {} /\ Pending' = {s} /\ Scanned' = {} /\ Nodes' = Nodes
        /\ DOMAIN frontier' = {1} /\ DOMAIN order' = {}
      BY <2>1 DEF Nodes
  <2>3. GraphTypeOK'
      BY <2>1, <2>2 DEF LoopInv, GraphTypeOK, Nodes, Adjacent
  <2>4. OnlyNodesAreMet' /\ VisitedOnce'
      BY <2>1, <2>2 DEF OnlyNodesAreMet, VisitedOnce
  <2>5. Reached' /\ Accounted' /\ Disjoint' /\ \A x \in Pending' : Justified(x)'
      BY <2>1, <2>2 DEF Reached, Accounted, Disjoint, Justified
  <2>6. seen' = (IF kind' = "dfs" THEN Visited' ELSE Visited' \cup Pending')
      BY <2>1, <2>2
  <2> QED BY <2>1, <2>2, <2>3, <2>4, <2>5, <2>6 DEF LoopInv
<1> QED BY <1>1, <1>2, <1>3

-----------------------------------------------------------------------------
(* A traversal goes on. *)

Marked == seen = IF kind = "dfs" THEN Visited ELSE Visited \cup Pending

LEMMA Bridge ==
    /\ Visited = Elements(order) /\ Visited' = Elements(order')
    /\ Pending = Elements(frontier) /\ Pending' = Elements(frontier')
    /\ VisitedOnce = NoRepeats(order) /\ VisitedOnce' = NoRepeats(order')
BY DEF Visited, Pending, Elements, VisitedOnce, NoRepeats

LEMMA Typed ==
    LoopInv => /\ order \in Seq(Objects) /\ frontier \in Seq(Objects)
               /\ seen \subseteq Objects /\ todo \subseteq Neighbors
BY DEF LoopInv, GraphTypeOK

LEMMA LoopParts ==
    ASSUME LoopInv, pc # "ready"
    PROVE  /\ GraphTypeOK /\ OnlyNodesAreMet /\ VisitedOnce
           /\ Reached /\ Accounted /\ Marked
           /\ \A x \in Pending : Justified(x)
           /\ kind # "dfs" => Disjoint
           /\ pc = "next" => todo = {}
           /\ pc = "scan" => \E y \in Visited : todo \subseteq adjacency[y]
BY DEF LoopInv, Marked

\* A node not visited before is taken out of what waits.
LEMMA TakeKeeps ==
    ASSUME LoopInv, pc = "next", NEW x \in Pending, x \notin Visited,
           Take(x), Query, answer' = answer,
           frontier' \in Seq(Objects), Pending = Pending' \cup {x},
           Marked',
           kind # "dfs" => NoRepeats(frontier') /\ x \notin Pending'
    PROVE  LoopInv'
<1> USE LoopParts
<1>1. /\ UNCHANGED <<objects, rels, adjacency, kind, start, target, answer>>
      /\ order' = Append(order, x) /\ todo' = adjacency[x] /\ pc' = "scan"
    BY DEF Take, Query, stores
<1>2. order \in Seq(Objects) /\ x \in Nodes /\ x \in Objects
    BY DEF GraphTypeOK, OnlyNodesAreMet
<1>3. order' \in Seq(Objects) /\ Visited' = Visited \cup {x} /\ VisitedOnce'
  <2>1. /\ Append(order, x) \in Seq(Objects)
        /\ Elements(Append(order, x)) = Elements(order) \cup {x}
        /\ NoRepeats(order) /\ x \notin Elements(order) => NoRepeats(Append(order, x))
      BY <1>2, ElementsOfAppend
  <2> QED BY <1>1, <2>1, Bridge
<1>4. Nodes' = Nodes /\ \A y \in Nodes : Adjacent(y)' = Adjacent(y)
    BY <1>1 DEF Nodes, Adjacent
<1>5. /\ adjacency[x] \subseteq Neighbors
      /\ Adjacent(x) \subseteq Nodes
      /\ Scanned' = Adjacent(x)
    BY <1>1, <1>2 DEF GraphTypeOK, Scanned, Adjacent
<1>6. Visited \cup Pending \subseteq Nodes
    BY DEF OnlyNodesAreMet
<1>7. GraphTypeOK'
  <2>1. seen' \subseteq Objects
      BY <1>1, <1>2, <1>3, <1>6 DEF Marked, GraphTypeOK
  <2> QED BY <1>1, <1>3, <1>4, <1>5, <2>1 DEF GraphTypeOK
<1>8. OnlyNodesAreMet'
    BY <1>1, <1>3, <1>4, <1>5, <1>6 DEF OnlyNodesAreMet, Scanned
<1>9. Reached'
    BY <1>1, <1>3, <1>4 DEF Reached
<1>10. Accounted'
  <2>1. ASSUME NEW y \in Visited PROVE Adjacent(y) \subseteq Visited' \cup Pending'
      BY <1>3, <2>1 DEF Accounted, Scanned
  <2> QED BY <1>3, <1>4, <1>5, <1>6, <2>1 DEF Accounted
<1>11. \A y \in Pending' : Justified(y)'
    BY <1>1, <1>3, <1>4, <1>6 DEF Justified
<1>12. kind' # "dfs" => Disjoint'
    BY <1>1, <1>3 DEF Disjoint, NoRepeats
<1>13. \E y \in Visited' : todo' \subseteq adjacency'[y]
    BY <1>1, <1>3
<1> QED BY <1>1, <1>3, <1>7, <1>8, <1>9, <1>10, <1>11, <1>12, <1>13 DEF LoopInv, Marked

\* One neighbor entry is dealt with: its node is visited or waits.
LEMMA ScanKeeps ==
    ASSUME LoopInv, pc = "scan", NEW n \in todo, todo' = todo \ {n},
           Query, UNCHANGED <<order, pc, answer>>,
           frontier' \in Seq(Objects),
           Pending' \in {Pending, Pending \cup {n.object}},
           n.object \in Visited \cup Pending',
           Marked',
           kind # "dfs" => Disjoint'
    PROVE  LoopInv'
<1> USE LoopParts
<1>1. UNCHANGED <<objects, rels, adjacency, kind, start, target, answer, order, pc>>
    BY DEF Query, stores
<1>2. Visited' = Visited /\ Nodes' = Nodes /\ \A y \in Nodes : Adjacent(y)' = Adjacent(y)
    BY <1>1 DEF Visited, Nodes, Adjacent
<1>3. Visited \cup Pending \subseteq Nodes /\ Scanned \subseteq Nodes /\ n.object \in Scanned
    BY DEF OnlyNodesAreMet, Scanned
<1>4. Scanned \subseteq Scanned' \cup {n.object} /\ Scanned' \subseteq Scanned
    BY DEF Scanned
<1>5. PICK z \in Visited : todo \subseteq adjacency[z]
    OBVIOUS
<1>6. GraphTypeOK'
  <2>1. seen' \subseteq Objects
      BY <1>1, <1>2, <1>3 DEF Marked, GraphTypeOK
  <2>2. todo' \subseteq Neighbors
      BY DEF GraphTypeOK
  <2> QED BY <1>1, <1>2, <2>1, <2>2 DEF GraphTypeOK
<1>7. OnlyNodesAreMet'
    BY <1>1, <1>2, <1>3, <1>4 DEF OnlyNodesAreMet, Scanned
<1>8. VisitedOnce' /\ Reached'
    BY <1>1, <1>2 DEF VisitedOnce, Reached
<1>9. Accounted'
    BY <1>1, <1>2, <1>3, <1>4 DEF Accounted
<1>10. \A y \in Pending' : Justified(y)'
  <2>1. Justified(n.object)
      BY <1>5 DEF Justified, Adjacent
  <2> QED BY <1>1, <1>2, <1>3, <2>1 DEF Justified
<1>11. \E y \in Visited' : todo' \subseteq adjacency'[y]
    BY <1>1, <1>2, <1>5
<1> QED BY <1>1, <1>6, <1>7, <1>8, <1>9, <1>10, <1>11 DEF LoopInv, Marked

LEMMA StepKeeps == LoopInv /\ Step => LoopInv'
<1> SUFFICES ASSUME LoopInv, Step PROVE LoopInv'
    OBVIOUS
<1> USE LoopParts, Typed
<1>1. CASE Dequeue
  <2> DEFINE x == Head(frontier)
  <2>1. /\ pc = "next" /\ kind # "dfs" /\ frontier # <<>> /\ frontier' = Tail(frontier)
        /\ Take(x) /\ Query /\ seen' = seen /\ answer' = answer /\ kind' = kind
        /\ order' = Append(order, x)
      BY <1>1 DEF Dequeue, Take, Query
  <2>2. Disjoint /\ Marked
      BY <2>1 DEF Marked
  <2>3. /\ frontier' \in Seq(Objects) /\ x \in Objects
        /\ Pending = Pending' \cup {x} /\ NoRepeats(frontier') /\ x \notin Pending'
    <3>1. /\ Tail(frontier) \in Seq(Objects) /\ x \in Objects
          /\ Elements(frontier) = Elements(Tail(frontier)) \cup {x}
          /\ NoRepeats(frontier) =>
                NoRepeats(Tail(frontier)) /\ x \notin Elements(Tail(frontier))
        BY <2>1, ElementsOfTail
    <3>2. NoRepeats(frontier)
        BY <2>2 DEF Disjoint, NoRepeats
    <3> HIDE DEF x
    <3> QED BY <2>1, <3>1, <3>2, Bridge
  <2>4. x \in Pending /\ x \notin Visited
      BY <2>2, <2>3 DEF Disjoint
  <2>5. Visited' = Visited \cup {x}
    <3> HIDE DEF x
    <3>1. Elements(Append(order, x)) = Elements(order) \cup {x}
        BY <2>3, ElementsOfAppend
    <3> QED BY <2>1, <3>1, Bridge
  <2>6. Marked'
      BY <2>1, <2>2, <2>3, <2>5 DEF Marked
  <2> HIDE DEF x
  <2> QED BY <2>1, <2>3, <2>4, <2>6, TakeKeeps
<1>2. CASE Enqueue
  <2>1. PICK n \in todo :
            /\ todo' = todo \ {n}
            /\ IF n.object \in seen
               THEN UNCHANGED <<seen, frontier>>
               ELSE /\ seen' = seen \cup {n.object}
                    /\ frontier' = Append(frontier, n.object)
      BY <1>2 DEF Enqueue
  <2>2. /\ pc = "scan" /\ kind # "dfs" /\ kind' = kind
        /\ Query /\ UNCHANGED <<order, pc, answer>>
      BY <1>2 DEF Enqueue, Query
  <2>3. Disjoint /\ Marked /\ Visited' = Visited /\ n.object \in Objects
      BY <2>1, <2>2 DEF Marked, Visited, Neighbors
  <2>4. CASE n.object \in seen
    <3>1. Pending' = Pending /\ frontier' = frontier /\ seen' = seen
        BY <2>1, <2>4 DEF Pending
    <3>2. Marked' /\ Disjoint' /\ n.object \in Visited \cup Pending'
        BY <2>2, <2>3, <2>4, <3>1 DEF Marked, Disjoint
    <3>3. frontier' \in Seq(Objects)
        BY <3>1 DEF LoopInv, GraphTypeOK
    <3> QED BY <2>1, <2>2, <3>1, <3>2, <3>3, ScanKeeps
  <2>5. CASE n.object \notin seen
    <3>1. seen' = seen \cup {n.object} /\ frontier' = Append(frontier, n.object)
        BY <2>1, <2>5
    <3>2. /\ frontier' \in Seq(Objects) /\ Pending' = Pending \cup {n.object}
          /\ NoRepeats(frontier')
      <4>1. /\ Append(frontier, n.object) \in Seq(Objects)
            /\ Elements(Append(frontier, n.object)) = Elements(frontier) \cup {n.object}
            /\ NoRepeats(frontier) /\ n.object \notin Elements(frontier) =>
                  NoRepeats(Append(frontier, n.object))
          BY <2>3, ElementsOfAppend
      <4>2. NoRepeats(frontier) /\ n.object \notin Pending
          BY <2>2, <2>3, <2>5 DEF Disjoint, NoRepeats, Marked
      <4> QED BY <3>1, <4>1, <4>2, Bridge
    <3>3. Marked' /\ Disjoint' /\ n.object \in Visited \cup Pending'
        BY <2>2, <2>3, <2>5, <3>1, <3>2 DEF Marked, Disjoint, NoRepeats
    <3> QED BY <2>1, <2>2, <3>2, <3>3, ScanKeeps
  <2> QED BY <2>4, <2>5
<1>3. CASE Pop
  <2> DEFINE x == frontier[Len(frontier)]
  <2>1. /\ pc = "next" /\ kind = "dfs" /\ frontier # <<>> /\ frontier' = Front(frontier)
        /\ Query /\ answer' = answer /\ kind' = kind /\ seen' = seen \cup {x}
        /\ IF x \in seen THEN UNCHANGED <<order, todo, pc>> ELSE Take(x)
      BY <1>3 DEF Pop, Query, Front
  <2>2. frontier' \in Seq(Objects) /\ x \in Objects /\ Pending = Pending' \cup {x}
    <3>1. /\ Front(frontier) \in Seq(Objects) /\ x \in Objects
          /\ Elements(frontier) = Elements(Front(frontier)) \cup {x}
        BY <2>1, ElementsOfFront
    <3> QED BY <2>1, <3>1, Bridge
  <2>3. Marked /\ x \in Pending
      BY <2>1, <2>2 DEF Marked
  <2>4. CASE x \in seen
    <3>1. UNCHANGED <<objects, rels, adjacency, kind, start, target, order, todo, pc, answer>>
        BY <2>1, <2>4 DEF Query, stores
    <3>2. /\ Visited' = Visited /\ Nodes' = Nodes /\ Scanned' = Scanned
          /\ \A y \in Nodes : Adjacent(y)' = Adjacent(y)
        BY <3>1 DEF Visited, Nodes, Scanned, Adjacent
    <3>3. seen' = Visited /\ x \in Visited /\ Pending' \subseteq Pending
        BY <2>1, <2>2, <2>3, <2>4 DEF Marked
    <3>4. GraphTypeOK' /\ VisitedOnce'
        BY <2>1, <2>2, <3>1, <3>2 DEF VisitedOnce, GraphTypeOK
    <3>5. OnlyNodesAreMet' /\ Reached' /\ Accounted'
        BY <2>1, <2>2, <3>1, <3>2, <3>3 DEF OnlyNodesAreMet, Reached, Accounted
    <3>6. \A y \in Pending' : Justified(y)'
        BY <2>1, <3>1, <3>2, <3>3 DEF Justified, OnlyNodesAreMet
    <3> HIDE DEF x
    <3> QED BY <2>1, <3>1, <3>2, <3>3, <3>4, <3>5, <3>6 DEF LoopInv
  <2>5. CASE x \notin seen
    <3>1. Take(x) /\ order' = Append(order, x) /\ x \notin Visited
        BY <2>1, <2>3, <2>5 DEF Take, Marked
    <3>2. Visited' = Visited \cup {x}
      <4>1. Elements(Append(order, x)) = Elements(order) \cup {x}
          BY <2>2, ElementsOfAppend
      <4> QED BY <3>1, <4>1, Bridge
    <3>3. Marked'
        BY <2>1, <2>3, <3>2 DEF Marked
    <3> HIDE DEF x
    <3> QED BY <2>1, <2>2, <2>3, <3>1, <3>3, TakeKeeps
  <2> QED BY <2>4, <2>5
<1>4. CASE Push
  <2>1. PICK n \in todo :
            /\ todo' = todo \ {n}
            /\ frontier' = IF n.object \in seen THEN frontier ELSE Append(frontier, n.object)
      BY <1>4 DEF Push
  <2>2. /\ pc = "scan" /\ kind = "dfs" /\ kind' = kind /\ seen' = seen
        /\ Query /\ UNCHANGED <<order, pc, answer>>
      BY <1>4 DEF Push, Query
  <2>3. Marked /\ Visited' = Visited /\ n.object \in Objects
      BY <2>1, <2>2 DEF Marked, Visited, Neighbors
  <2>4. Marked'
      BY <2>2, <2>3 DEF Marked
  <2>5. /\ frontier' \in Seq(Objects)
        /\ Pending' \in {Pending, Pending \cup {n.object}}
        /\ n.object \in Visited \cup Pending'
    <3>1. CASE n.object \in seen
        BY <2>1, <2>2, <2>3, <3>1 DEF Pending, Marked
    <3>2. CASE n.object \notin seen
      <4>1. frontier' = Append(frontier, n.object)
          BY <2>1, <3>2
      <4>2. /\ Append(frontier, n.object) \in Seq(Objects)
            /\ Elements(Append(frontier, n.object)) = Elements(frontier) \cup {n.object}
          BY <2>3, ElementsOfAppend
      <4> QED BY <4>1, <4>2, Bridge
    <3> QED BY <3>1, <3>2
  <2> QED BY <2>1, <2>2, <2>4, <2>5, ScanKeeps
<1>5. CASE ScanDone
  <2>1. /\ pc = "scan" /\ todo = {} /\ pc' = "next"
        /\ UNCHANGED <<objects, rels, adjacency, kind, start, target, order, seen, frontier,
                       todo, answer>>
      BY <1>5 DEF ScanDone, Query, stores
  <2>2. /\ Visited' = Visited /\ Pending' = Pending /\ Scanned' = Scanned /\ Nodes' = Nodes
        /\ \A y \in Nodes : Adjacent(y)' = Adjacent(y)
      BY <2>1 DEF Visited, Pending, Scanned, Nodes, Adjacent
  <2>3. GraphTypeOK' /\ VisitedOnce'
      BY <2>1, <2>2 DEF GraphTypeOK, VisitedOnce
  <2>4. OnlyNodesAreMet' /\ Reached' /\ Accounted' /\ Marked'
      BY <2>1, <2>2 DEF OnlyNodesAreMet, Reached, Accounted, Marked
  <2>5. (\A y \in Pending' : Justified(y)') /\ (kind' # "dfs" => Disjoint')
      BY <2>1, <2>2 DEF OnlyNodesAreMet, Justified, Disjoint
  <2> QED BY <2>1, <2>3, <2>4, <2>5 DEF LoopInv, Marked
<1>6. CASE Return
  <2>1. /\ pc' = "ready" /\ seen' = {} /\ answer' \in {"yes", "no"}
        /\ UNCHANGED <<objects, rels, adjacency, kind, start, target, order, frontier, todo>>
      BY <1>6 DEF Return, Query, stores
  <2> QED BY <2>1 DEF LoopInv, GraphTypeOK, OnlyNodesAreMet, VisitedOnce, Nodes, Adjacent
<1> QED BY <1>1, <1>2, <1>3, <1>4, <1>5, <1>6 DEF Step

LEMMA NextKeeps == LoopInv /\ [GraphNext]_gvars => LoopInv'
<1> SUFFICES ASSUME LoopInv, [GraphNext]_gvars PROVE LoopInv'
    OBVIOUS
<1>1. CASE UNCHANGED gvars
  <2>1. /\ Visited' = Visited /\ Pending' = Pending /\ Scanned' = Scanned /\ Nodes' = Nodes
        /\ \A y \in Nodes : Adjacent(y)' = Adjacent(y)
        /\ UNCHANGED <<objects, rels, adjacency, kind, start, target, order, seen, frontier,
                       todo, pc, answer>>
      BY <1>1 DEF Visited, Pending, Scanned, Nodes, Adjacent, gvars, stores, query
  <2>2. GraphTypeOK' /\ VisitedOnce' /\ OnlyNodesAreMet'
      BY <2>1 DEF LoopInv, GraphTypeOK, VisitedOnce, OnlyNodesAreMet
  <2>3. CASE pc # "ready"
    <3>1. Reached' /\ Accounted' /\ Marked'
        BY <2>1, <2>3, LoopParts DEF OnlyNodesAreMet, Reached, Accounted, Marked
    <3>2. (\A y \in Pending' : Justified(y)') /\ (kind' # "dfs" => Disjoint')
        BY <2>1, <2>3, LoopParts DEF OnlyNodesAreMet, Justified, Disjoint
    <3> QED BY <2>1, <2>2, <3>1, <3>2 DEF LoopInv, Marked
  <2>4. CASE pc = "ready"
      BY <2>1, <2>2, <2>4 DEF LoopInv
  <2> QED BY <2>3, <2>4
<1>2. CASE GraphNext
  <2>1. ASSUME NEW s \in Objects, SameNode(s) PROVE LoopInv'
    <3> "bfs" \in {"bfs", "dfs", "path"}
        OBVIOUS
    <3> QED BY <2>1, QueryKeeps
  <2> QED BY <1>2, <2>1, StoresKeep, QueryKeeps, StepKeeps DEF GraphNext
<1> QED BY <1>1, <1>2

\* The loops of both traversals keep their invariant.
THEOREM LoopInvariant == GraphSafety => []LoopInv
BY LoopInit, NextKeeps, PTL DEF GraphSafety

\* A traversal meets nodes of the graph only: adjacency_.at() never throws.
THEOREM NeverOutOfRange == GraphSafety => []OnlyNodesAreMet
<1>1. LoopInv => OnlyNodesAreMet
    BY DEF LoopInv
<1> QED BY <1>1, LoopInvariant, PTL

\* A traversal visits no node twice.
THEOREM NoSecondVisit == GraphSafety => []VisitedOnce
<1>1. LoopInv => VisitedOnce
    BY DEF LoopInv
<1> QED BY <1>1, LoopInvariant, PTL

-----------------------------------------------------------------------------
(* A traversal is a search of the graph. *)

LEMMA SearchBegins == GraphInit => Search!SearchInit
BY DEF GraphInit, Search!SearchInit, Visited

\* The mapped state: between two queries nothing is visited or running.
LEMMA ChoosesWhenIdle ==
    ASSUME pc = "ready", order' = <<>>, pc' # "ready" => start' \in Nodes'
    PROVE  Search!Choose
<1>1. Visited' = {}
    BY DEF Visited
<1>2. DOMAIN [x \in Nodes' |-> Adjacent(x)'] = Nodes'
    OBVIOUS
<1> QED BY <1>1, <1>2 DEF Search!Choose

LEMMA GraphUnchanged ==
    ASSUME adjacency' = adjacency
    PROVE  [x \in Nodes |-> Adjacent(x)]' = [x \in Nodes |-> Adjacent(x)]
BY DEF Nodes, Adjacent

\* The node taken from the queue or the stack is a new one the search may visit.
LEMMA TakeVisits ==
    ASSUME LoopInv, pc = "next", NEW x \in Pending, x \notin Visited, Take(x), Query
    PROVE  Search!Visit
<1>1. /\ UNCHANGED <<objects, rels, adjacency, kind, start, target>>
      /\ order' = Append(order, x) /\ pc' = "scan"
    BY DEF Take, Query, stores
<1>2. x \in Nodes /\ x \in Objects /\ order \in Seq(Objects) /\ Justified(x)
      /\ Visited \subseteq Nodes
    BY LoopParts DEF GraphTypeOK, OnlyNodesAreMet
<1>3. Visited' = Visited \cup {x}
  <2>1. Elements(Append(order, x)) = Elements(order) \cup {x}
      BY <1>2, ElementsOfAppend
  <2> QED BY <1>1, <2>1, Bridge
<1>4. x = start \/ \E y \in Visited : x \in [z \in Nodes |-> Adjacent(z)][y]
    BY <1>2 DEF Justified
<1>5. DOMAIN [z \in Nodes |-> Adjacent(z)] = Nodes
    OBVIOUS
<1>6. [z \in Nodes |-> Adjacent(z)]' = [z \in Nodes |-> Adjacent(z)]
    BY <1>1, GraphUnchanged
<1> QED BY <1>1, <1>2, <1>3, <1>4, <1>5, <1>6 DEF Search!Visit

LEMMA StepSearches ==
    ASSUME LoopInv, Step
    PROVE  Search!Visit \/ Search!Finish \/ UNCHANGED Search!svars
<1> DEFINE mapped == [x \in Nodes |-> Adjacent(x)]
<1> USE LoopParts, Typed
<1>1. ASSUME order' = order, Query, (pc' = "ready") = (pc = "ready")
      PROVE  UNCHANGED Search!svars
  <2>1. Visited' = Visited /\ start' = start /\ adjacency' = adjacency
      BY <1>1 DEF Visited, Query
  <2>2. mapped' = mapped
      BY <2>1, GraphUnchanged
  <2> QED BY <1>1, <2>1, <2>2 DEF Search!svars
<1>2. CASE Dequeue
  <2> DEFINE x == Head(frontier)
  <2>1. pc = "next" /\ kind # "dfs" /\ frontier # <<>> /\ Take(x) /\ Query
      BY <1>2 DEF Dequeue
  <2>2. x \in Pending
    <3>1. Elements(frontier) = Elements(Tail(frontier)) \cup {x}
        BY <2>1, ElementsOfTail
    <3> QED BY <3>1, Bridge
  <2>3. x \notin Visited
      BY <2>1, <2>2 DEF Disjoint
  <2> HIDE DEF x
  <2> QED BY <2>1, <2>2, <2>3, TakeVisits
<1>3. CASE Pop
  <2> DEFINE x == frontier[Len(frontier)]
  <2>1. /\ pc = "next" /\ kind = "dfs" /\ frontier # <<>> /\ Query
        /\ IF x \in seen THEN UNCHANGED <<order, todo, pc>> ELSE Take(x)
      BY <1>3 DEF Pop
  <2>2. x \in Pending
    <3>1. Elements(frontier) = Elements(Front(frontier)) \cup {x}
        BY <2>1, ElementsOfFront
    <3> QED BY <3>1, Bridge
  <2>3. seen = Visited
      BY <2>1 DEF Marked
  <2> HIDE DEF x
  <2> QED BY <1>1, <2>1, <2>2, <2>3, TakeVisits
<1>4. CASE Enqueue
    BY <1>1, <1>4 DEF Enqueue
<1>5. CASE Push
    BY <1>1, <1>5 DEF Push
<1>6. CASE ScanDone
    BY <1>1, <1>6 DEF ScanDone
<1>7. CASE Return
  <2>1. /\ pc = "next" /\ frontier = <<>> /\ pc' = "ready" /\ order' = order /\ Query
      BY <1>7 DEF Return
  <2>2. todo = {} /\ Pending = {} /\ Scanned = {}
      BY <2>1 DEF Pending, Scanned
  <2>3. Visited' = Visited /\ start' = start /\ mapped' = mapped
      BY <2>1, GraphUnchanged DEF Visited, Query
  <2>4. start \in Visited /\ Visited \subseteq Nodes
      BY <2>1, <2>2 DEF Reached, OnlyNodesAreMet
  <2>5. \A y \in Visited : mapped[y] \subseteq Visited
      BY <2>1, <2>2, <2>4 DEF Accounted
  <2> HIDE DEF mapped
  <2>6. Search!Finish
      BY <2>1, <2>3, <2>4, <2>5 DEF Search!Finish, mapped
  <2> QED BY <2>6
<1> QED BY <1>2, <1>3, <1>4, <1>5, <1>6, <1>7 DEF Step

\* Whatever its order, a traversal visits the start and then, one at a time, nodes
\* next to a visited one, and returns when there is none left.
THEOREM TraversalSearches == GraphSafety => ImplementsSearch
<1>1. LoopInv /\ [GraphNext]_gvars
        => [Search!Choose \/ Search!Visit \/ Search!Finish]_(Search!svars)
  <2> SUFFICES ASSUME LoopInv, [GraphNext]_gvars
               PROVE  Search!Choose \/ Search!Visit \/ Search!Finish
                        \/ UNCHANGED Search!svars
      OBVIOUS
  <2>1. CASE UNCHANGED gvars
    <3>1. Visited' = Visited /\ start' = start /\ adjacency' = adjacency /\ pc' = pc
        BY <2>1 DEF Visited, gvars, query
    <3> QED BY <3>1, GraphUnchanged DEF Search!svars
  <2>2. CASE GraphNext
    <3>1. CASE Step
        BY <3>1, StepSearches
    <3>2. CASE ~Step
      <4>1. pc = "ready" /\ order' = <<>> /\ (pc' # "ready" => start' \in Nodes')
          BY <2>2, <3>2 DEF GraphNext, ChangeObject, ChangeRelationship, BuildGraph, ClearGraph,
                            Idle, Refuse, Begin, SameNode, Nodes
      <4> QED BY <4>1, ChoosesWhenIdle
    <3> QED BY <3>1, <3>2
  <2> QED BY <2>1, <2>2
<1> QED BY <1>1, SearchBegins, LoopInvariant, PTL
       DEF GraphSafety, ImplementsSearch, Search!SearchSpec

-----------------------------------------------------------------------------
(* Paths: the graph is symmetric, and a traversal stays within every       *)
(* closed set that holds its start.                                        *)

Symmetric == \A x, y \in Nodes : y \in Adjacent(x) => x \in Adjacent(y)
Confined == \A S \in SUBSET Nodes : start \in S /\ Closed(S) => Visited \cup Pending \subseteq S

PathInv ==
    /\ LoopInv /\ Symmetric /\ PathIsConnection
    /\ pc # "ready" => answer = "none" /\ target \in Nodes /\ Confined

LEMMA EntriesSymmetric ==
    ASSUME NEW present \in SUBSET Relationships, NEW x, NEW y,
           y \in {n.object : n \in Entries(x, present)}, x \in Objects
    PROVE  x \in {n.object : n \in Entries(y, present)}
<1>1. PICK n \in Neighbors : /\ n.rel \in present /\ n.object = y
                             /\ {Source[n.rel], Target[n.rel]} = {x, n.object}
    BY DEF Entries
<1>2. PICK m \in Neighbors : m.object = x /\ m.rel = n.rel
  <2>1. [object |-> x, rel |-> n.rel] \in Neighbors
      BY DEF Neighbors
  <2> QED BY <2>1
<1>3. {Source[m.rel], Target[m.rel]} = {y, m.object}
    BY <1>1, <1>2
<1>4. m \in Entries(y, present)
    BY <1>1, <1>2, <1>3 DEF Entries
<1> QED BY <1>2, <1>4

\* From both ends the answer is the same.
LEMMA ConnectedBack ==
    ASSUME GraphTypeOK, Symmetric, NEW s \in Nodes, NEW t \in Nodes, Connected(s, t)
    PROVE  Connected(t, s)
<1> SUFFICES ASSUME NEW S \in SUBSET Nodes, t \in S, Closed(S), s \notin S
             PROVE  FALSE
    BY DEF Connected
<1>1. Closed(Nodes \ S)
  <2>1. ASSUME NEW x \in Nodes \ S, NEW y \in Adjacent(x)
        PROVE  y \in Nodes \ S
      BY <2>1 DEF GraphTypeOK, Symmetric, Closed
  <2> QED BY <2>1 DEF Closed
<1>2. t \in Nodes \ S
    BY <1>1 DEF Connected
<1> QED BY <1>2

LEMMA BuiltSymmetric ==
    ASSUME LoopInv, BuildGraph \/ ClearGraph
    PROVE  Symmetric'
<1>1. objects \subseteq Objects /\ BothEndsAreNodes(objects) \in SUBSET Relationships
    BY DEF LoopInv, GraphTypeOK, BothEndsAreNodes
<1>2. CASE adjacency' = [o \in objects |-> Entries(o, BothEndsAreNodes(objects))]
  <2>1. Nodes' = objects
      BY <1>2 DEF Nodes
  <2>2. ASSUME NEW x \in objects
        PROVE  Adjacent(x)' = {n.object : n \in Entries(x, BothEndsAreNodes(objects))}
      BY <1>2 DEF Adjacent
  <2> QED BY <1>1, <2>1, <2>2, EntriesSymmetric DEF Symmetric
<1>3. CASE adjacency' = [o \in objects |-> {}]
  <2>1. \A x \in Nodes' : Adjacent(x)' = {}
      BY <1>3 DEF Nodes, Adjacent
  <2> QED BY <2>1 DEF Symmetric
<1>4. CASE adjacency' = [o \in {} |-> {}]
    BY <1>4 DEF Nodes, Symmetric
<1> QED BY <1>2, <1>3, <1>4 DEF BuildGraph, ClearGraph

LEMMA SameGraph ==
    ASSUME adjacency' = adjacency
    PROVE  /\ Nodes' = Nodes /\ (Symmetric => Symmetric')
           /\ \A x : Adjacent(x)' = Adjacent(x)
           /\ \A S : Closed(S)' <=> Closed(S)
           /\ \A s, t : Connected(s, t)' <=> Connected(s, t)
<1>1. Nodes' = Nodes /\ \A x : Adjacent(x)' = Adjacent(x)
    BY DEF Nodes, Adjacent
<1>2. \A S : Closed(S)' <=> Closed(S)
    BY <1>1 DEF Closed
<1> QED BY <1>1, <1>2 DEF Symmetric, Connected

Answered(s, t) == answer \in {"yes", "no"} => (answer = "yes" <=> Connected(s, t))

LEMMA PathMeans ==
    /\ PathIsConnection <=>
          (kind = "path" => Answered(start, target) /\ Answered(target, start))
    /\ PathIsConnection' <=>
          (kind' = "path" => Answered(start, target)' /\ Answered(target, start)')
<1>1. \A s, t : Connected(s, t) \in BOOLEAN /\ Connected(s, t)' \in BOOLEAN
    BY DEF Connected
<1> QED BY <1>1 DEF PathIsConnection, Answered

LEMMA PathTakes ==
    ASSUME PathInv, Step
    PROVE  pc' # "ready" => Confined'
<1>1. LoopInv /\ adjacency' = adjacency /\ start' = start
    BY DEF PathInv, Step, Dequeue, Enqueue, Pop, Push, ScanDone, Return, Query
<1>2. pc # "ready" /\ Confined
    BY DEF PathInv, Step, Dequeue, Enqueue, Pop, Push, ScanDone, Return
<1>3. Nodes' = Nodes /\ \A S : Closed(S)' <=> Closed(S)
    BY <1>1, SameGraph
<1>4. SUFFICES ASSUME NEW S \in SUBSET Nodes, start \in S, Closed(S),
                      Visited \cup Pending \subseteq S, pc' # "ready"
               PROVE  Visited' \cup Pending' \subseteq S
    BY <1>1, <1>2, <1>3 DEF Confined
<1>5. order \in Seq(Objects) /\ frontier \in Seq(Objects) /\ todo \subseteq Neighbors
    BY <1>1, Typed
<1>6. ASSUME NEW x \in Pending, NEW f, Take(x), frontier' = f, Elements(f) \subseteq Pending,
             x \in Objects
      PROVE  Visited' \cup Pending' \subseteq S
  <2>1. Elements(order') = Elements(order) \cup {x}
      BY <1>5, <1>6, ElementsOfAppend DEF Take
  <2> QED BY <1>4, <1>6, <2>1, Bridge
<1>7. CASE Dequeue
  <2>1. /\ frontier # <<>> /\ frontier' = Tail(frontier) /\ Take(Head(frontier))
      BY <1>7 DEF Dequeue
  <2>2. Head(frontier) \in Objects /\ Elements(frontier) = Elements(Tail(frontier)) \cup {Head(frontier)}
      BY <1>5, <2>1, ElementsOfTail
  <2> QED BY <1>6, <2>1, <2>2, Bridge
<1>8. CASE Pop
  <2> DEFINE x == frontier[Len(frontier)]
  <2>1. /\ frontier # <<>> /\ frontier' = Front(frontier)
        /\ IF x \in seen THEN UNCHANGED <<order, todo, pc>> ELSE Take(x)
      BY <1>8 DEF Pop, Front
  <2>2. x \in Objects /\ Elements(frontier) = Elements(Front(frontier)) \cup {x}
      BY <1>5, <2>1, ElementsOfFront
  <2> HIDE DEF x
  <2>3. CASE x \in seen
      BY <1>4, <2>1, <2>2, <2>3, Bridge
  <2>4. CASE x \notin seen
      BY <1>6, <2>1, <2>2, <2>4, Bridge
  <2> QED BY <2>3, <2>4
<1>9. ASSUME NEW n \in todo, order' = order, frontier' \in {frontier, Append(frontier, n.object)},
             pc = "scan"
      PROVE  Visited' \cup Pending' \subseteq S
  <2>1. PICK y \in Visited : todo \subseteq adjacency[y]
      BY <1>1, <1>9, LoopParts
  <2>2. n.object \in S
      BY <1>4, <2>1 DEF Closed, Adjacent
  <2>3. Elements(Append(frontier, n.object)) = Elements(frontier) \cup {n.object}
    <3>1. n.object \in Objects
        BY <1>5 DEF Neighbors
    <3> QED BY <1>5, <3>1, ElementsOfAppend
  <2>4. Visited' = Visited
      BY <1>9 DEF Visited
  <2>5. Pending' \subseteq Pending \cup {n.object}
      BY <1>9, <2>3, Bridge
  <2> QED BY <1>4, <2>2, <2>4, <2>5
<1>10. CASE Enqueue
    BY <1>9, <1>10 DEF Enqueue
<1>11. CASE Push
    BY <1>9, <1>11 DEF Push
<1>12. CASE ScanDone
    BY <1>4, <1>12 DEF ScanDone, Visited, Pending
<1>13. CASE Return
    BY <1>4, <1>13 DEF Return
<1> QED BY <1>7, <1>8, <1>10, <1>11, <1>12, <1>13 DEF Step

\* When the queue is empty what was visited is what is connected.
LEMMA PathReturns ==
    ASSUME PathInv, Return
    PROVE  PathIsConnection'
<1>1. /\ pc = "next" /\ frontier = <<>> /\ Query /\ order' = order
      /\ answer' = IF kind = "path" /\ target \notin Visited THEN "no" ELSE "yes"
    BY DEF Return
<1>2. adjacency' = adjacency /\ start' = start /\ target' = target /\ kind' = kind
    BY <1>1 DEF Query
<1> SUFFICES ASSUME kind = "path"
             PROVE  Answered(start, target)' /\ Answered(target, start)'
    BY <1>2, PathMeans
<1>3. LoopInv /\ Symmetric /\ Confined /\ GraphTypeOK
    BY <1>1 DEF PathInv, LoopInv
<1>4. todo = {} /\ Pending = {} /\ Scanned = {} /\ start \in Visited /\ Visited \subseteq Nodes
    BY <1>1, <1>3, LoopParts DEF Pending, Scanned, Reached, OnlyNodesAreMet
<1>5. Closed(Visited)
    BY <1>1, <1>3, <1>4, LoopParts DEF Accounted, Closed
<1>6. Connected(start, target) => target \in Visited
    BY <1>4, <1>5 DEF Connected
<1>7. target \in Visited => Connected(start, target)
    BY <1>3 DEF Confined, Connected
<1>8. answer' = "yes" <=> Connected(start, target)
    BY <1>1, <1>6, <1>7
<1>9. Connected(start, target) => Connected(target, start)
    BY <1>3, <1>4, <1>6, ConnectedBack
<1>10. Connected(target, start) => Connected(start, target)
  <2>1. target \in Nodes
      BY <1>1 DEF PathInv
  <2> QED BY <1>3, <1>4, <2>1, ConnectedBack
<1> QED BY <1>2, <1>8, <1>9, <1>10, SameGraph DEF Answered

LEMMA PathStep ==
    ASSUME PathInv, [GraphNext]_gvars
    PROVE  PathInv'
<1>1. LoopInv'
    BY NextKeeps DEF PathInv
<1>2. ASSUME adjacency' = adjacency, PathIsConnection',
             pc' # "ready" => answer' = "none" /\ target' \in Nodes /\ Confined'
      PROVE  PathInv'
    BY <1>1, <1>2, SameGraph DEF PathInv
<1>3. CASE UNCHANGED gvars
  <2>1. /\ UNCHANGED <<adjacency, kind, start, target, pc, answer>>
        /\ Visited' = Visited /\ Pending' = Pending
      BY <1>3 DEF gvars, query, Visited, Pending
  <2>2. PathIsConnection'
      BY <2>1, PathMeans, SameGraph DEF PathInv, Answered
  <2>3. Confined => Confined'
      BY <2>1, SameGraph DEF Confined
  <2> QED BY <1>2, <2>1, <2>2, <2>3 DEF PathInv
<1>4. CASE BuildGraph \/ ClearGraph
  <2>1. Symmetric'
      BY <1>4, BuiltSymmetric DEF PathInv
  <2>2. answer' = "none" /\ pc' = "ready"
      BY <1>4 DEF BuildGraph, ClearGraph, Idle
  <2> QED BY <1>1, <2>1, <2>2, PathMeans DEF PathInv, Answered
<1>5. CASE (\E o \in Objects : ChangeObject(o)) \/ (\E r \in Relationships : ChangeRelationship(r))
  <2>1. answer' = "none" /\ pc' = "ready" /\ adjacency' = adjacency
      BY <1>5 DEF ChangeObject, ChangeRelationship, Idle
  <2> QED BY <1>2, <2>1, PathMeans DEF Answered
<1>6. ASSUME NEW k \in {"bfs", "dfs", "path"}, NEW s \in Objects, NEW t \in Objects,
             Refuse(k, s, t) \/ Begin(k, s, t)
      PROVE  PathInv'
  <2>1. CASE Refuse(k, s, t)
    <3>1. answer' = "error" /\ pc' = "ready" /\ adjacency' = adjacency
        BY <2>1 DEF Refuse
    <3> QED BY <1>2, <3>1, PathMeans DEF Answered
  <2>2. CASE Begin(k, s, t)
    <3>1. /\ answer' = "none" /\ adjacency' = adjacency /\ order' = <<>> /\ frontier' = <<s>>
          /\ start' = s /\ target' = t /\ t \in Nodes
        BY <2>2 DEF Begin
    <3>2. Visited' \cup Pending' \subseteq {s}
        BY <3>1 DEF Visited, Pending
    <3>3. Confined'
        BY <3>1, <3>2 DEF Confined
    <3> QED BY <1>2, <3>1, <3>3, PathMeans, SameGraph DEF Answered
  <2> QED BY <1>6, <2>1, <2>2
<1>7. ASSUME NEW s \in Objects, SameNode(s) PROVE PathInv'
  <2>1. /\ answer' = "yes" /\ pc' = "ready" /\ adjacency' = adjacency
        /\ start' = s /\ target' = s
      BY <1>7 DEF SameNode
  <2>2. Connected(start, target)' /\ Connected(target, start)'
      BY <2>1 DEF Connected
  <2> QED BY <1>2, <2>1, <2>2, PathMeans DEF Answered
<1>8. CASE Step
  <2>1. adjacency' = adjacency /\ kind' = kind /\ start' = start /\ target' = target
      BY <1>8 DEF Step, Dequeue, Enqueue, Pop, Push, ScanDone, Return, Query
  <2>2. pc # "ready"
      BY <1>8 DEF Step, Dequeue, Enqueue, Pop, Push, ScanDone, Return
  <2>3. CASE Return
      BY <1>2, <2>1, <2>3, PathReturns DEF Return
  <2>4. CASE ~Return
    <3>1. answer' = answer
        BY <1>8, <2>4 DEF Step, Dequeue, Enqueue, Pop, Push, ScanDone
    <3>2. answer' = "none" /\ target' \in Nodes
        BY <2>1, <2>2, <3>1 DEF PathInv
    <3> QED BY <1>2, <1>8, <2>1, <3>2, PathMeans, PathTakes DEF Answered
  <2> QED BY <2>3, <2>4
<1> QED BY <1>3, <1>4, <1>5, <1>6, <1>7, <1>8 DEF GraphNext

LEMMA PathAlways == GraphSafety => []PathInv
<1>1. ASSUME GraphInit PROVE PathInv
    BY <1>1, LoopInit, PathMeans DEF GraphInit, PathInv, Symmetric, Nodes, Answered
<1>2. PathInv /\ [GraphNext]_gvars => PathInv'
    BY PathStep
<1> QED BY <1>1, <1>2, PTL DEF GraphSafety

\* path_exists answers yes exactly when the graph connects the two nodes, and so the
\* same from both ends: the relationships of build_graph join both ways.
THEOREM PathsAreConnections == GraphSafety => []PathIsConnection
BY PathAlways, PTL DEF PathInv

-----------------------------------------------------------------------------
(* Space: the queue holds what is seen and not visited; every place of the *)
(* stack is the start's or that of a neighbor entry of a visited node.     *)

Walked == UNION {{x} \X adjacency[x] : x \in Visited}

CountInv ==
    pc # "ready" =>
        IF kind = "dfs"
        THEN Len(frontier) + Cardinality(todo) <= 1 + Cardinality(Walked)
        ELSE Len(order) + Len(frontier) = Cardinality(seen)

LEMMA NeighborsFinite == IsFiniteSet(Neighbors)
<1> DEFINE pairs == Objects \X Relationships
           f == [p \in pairs |-> [object |-> p[1], rel |-> p[2]]]
<1>1. IsFiniteSet(pairs)
    BY FS_Product
<1>2. f \in [pairs -> Neighbors]
    BY DEF Neighbors
<1>3. \A n \in Neighbors : \E p \in pairs : f[p] = n
  <2>1. ASSUME NEW n \in Neighbors PROVE \E p \in pairs : f[p] = n
    <3>1. <<n.object, n.rel>> \in pairs /\ n = [object |-> n.object, rel |-> n.rel]
        BY DEF Neighbors
    <3>2. f[<<n.object, n.rel>>] = n
        BY <3>1
    <3> QED BY <3>1, <3>2
  <2> QED BY <2>1
<1>4. f \in Surjection(pairs, Neighbors)
    BY <1>2, <1>3 DEF Surjection
<1> HIDE DEF f, pairs
<1> QED BY <1>1, <1>4, FS_Surjection

LEMMA WalkedFinite ==
    ASSUME LoopInv, pc # "ready"
    PROVE  /\ IsFiniteSet(Walked) /\ IsFiniteSet(todo) /\ IsFiniteSet(seen)
           /\ \A x \in Nodes : IsFiniteSet(adjacency[x])
           /\ Cardinality(Walked) \in Nat /\ Cardinality(todo) \in Nat
           /\ Cardinality(seen) \in Nat
<1>1. /\ seen \in SUBSET Objects /\ todo \in SUBSET Neighbors
      /\ \A x \in Nodes : adjacency[x] \in SUBSET Neighbors
      /\ Visited \subseteq Nodes /\ Nodes \subseteq Objects
    BY DEF LoopInv, GraphTypeOK, OnlyNodesAreMet
<1>2. Walked \in SUBSET (Objects \X Neighbors)
    BY <1>1 DEF Walked
<1>3. IsFiniteSet(Objects \X Neighbors)
    BY NeighborsFinite, FS_Product
<1>4. IsFiniteSet(Walked)
    BY <1>2, <1>3, FS_Subset
<1>5. IsFiniteSet(todo) /\ IsFiniteSet(seen)
    BY <1>1, NeighborsFinite, FS_Subset
<1>6. \A x \in Nodes : IsFiniteSet(adjacency[x])
    BY <1>1, NeighborsFinite, FS_Subset
<1> QED BY <1>4, <1>5, <1>6, FS_CardinalityType

\* A node that is visited brings its neighbor entries.
LEMMA WalkedGrows ==
    ASSUME LoopInv, pc = "next", NEW x \in Nodes, x \notin Visited,
           Visited' = Visited \cup {x}, adjacency' = adjacency
    PROVE  Cardinality(Walked') = Cardinality(Walked) + Cardinality(adjacency[x])
<1>1. IsFiniteSet(Walked) /\ IsFiniteSet(adjacency[x])
    BY WalkedFinite
<1>2. IsFiniteSet({x}) /\ Cardinality({x}) = 1
    BY FS_Singleton
<1>3. IsFiniteSet({x} \X adjacency[x]) /\ Cardinality({x} \X adjacency[x]) = 1 * Cardinality(adjacency[x])
    BY <1>1, <1>2, FS_Product
<1>4. Walked' = Walked \cup ({x} \X adjacency[x])
    BY DEF Walked
<1>5. Walked \cap ({x} \X adjacency[x]) = {}
    BY DEF Walked
<1>6. Cardinality(Walked \cap ({x} \X adjacency[x])) = 0
    BY <1>5, FS_EmptySet
<1>7. /\ Cardinality(Walked) \in Nat /\ Cardinality(adjacency[x]) \in Nat
    BY <1>1, FS_CardinalityType
<1>8. Cardinality(Walked') = Cardinality(Walked) + Cardinality({x} \X adjacency[x])
                               - Cardinality(Walked \cap ({x} \X adjacency[x]))
    BY <1>1, <1>3, <1>4, FS_Union
<1> QED BY <1>3, <1>6, <1>7, <1>8

LEMMA TakenLengths ==
    ASSUME LoopInv
    PROVE  /\ Len(order) \in Nat /\ Len(frontier) \in Nat
           /\ \A x : order' = Append(order, x) => Len(order') = Len(order) + 1
           /\ \A x : frontier' = Append(frontier, x) => Len(frontier') = Len(frontier) + 1
           /\ frontier # <<>> => /\ Len(frontier) > 0
                                 /\ frontier' = Tail(frontier) => Len(frontier') = Len(frontier) - 1
                                 /\ frontier' = Front(frontier) => Len(frontier') = Len(frontier) - 1
BY Typed DEF Front

LEMMA CountKept ==
    ASSUME LoopInv, CountInv, Step
    PROVE  CountInv'
<1> USE TakenLengths
<1>1. adjacency' = adjacency /\ kind' = kind
    BY DEF Step, Dequeue, Enqueue, Pop, Push, ScanDone, Return, Query
<1>2. pc # "ready"
    BY DEF Step, Dequeue, Enqueue, Pop, Push, ScanDone, Return
<1>3. /\ IsFiniteSet(todo) /\ IsFiniteSet(seen)
      /\ Cardinality(Walked) \in Nat /\ Cardinality(todo) \in Nat
    BY <1>2, WalkedFinite
<1>4. CASE Dequeue
    BY <1>1, <1>2, <1>3, <1>4 DEF Dequeue, Take, CountInv
<1>5. CASE Enqueue
  <2>1. PICK n \in todo :
            IF n.object \in seen
            THEN UNCHANGED <<seen, frontier>>
            ELSE seen' = seen \cup {n.object} /\ frontier' = Append(frontier, n.object)
      BY <1>5 DEF Enqueue
  <2>2. kind # "dfs" /\ order' = order
      BY <1>5 DEF Enqueue
  <2>3. CASE n.object \in seen
      BY <1>1, <1>2, <2>1, <2>2, <2>3 DEF CountInv
  <2>4. CASE n.object \notin seen
    <3>1. Cardinality(seen') = Cardinality(seen) + 1
      <4>1. seen' = seen \cup {n.object}
          BY <2>1, <2>4
      <4> QED BY <1>3, <2>4, <4>1, FS_AddElement
    <3>2. Len(frontier') = Len(frontier) + 1 /\ Len(order') = Len(order)
        BY <2>1, <2>2, <2>4
    <3>3. Len(order) + Len(frontier) = Cardinality(seen)
        BY <1>2, <2>2 DEF CountInv
    <3>4. Len(order') + Len(frontier') = Cardinality(seen')
        BY <3>1, <3>2, <3>3
    <3> QED BY <1>1, <2>2, <3>4 DEF CountInv
  <2> QED BY <2>3, <2>4
<1>6. CASE Pop
  <2> DEFINE x == frontier[Len(frontier)]
  <2>1. /\ pc = "next" /\ kind = "dfs" /\ frontier # <<>> /\ frontier' = Front(frontier)
        /\ IF x \in seen THEN UNCHANGED <<order, todo, pc>> ELSE Take(x)
      BY <1>6 DEF Pop, Front
  <2>2. x \in Pending /\ x \in Nodes /\ x \in Objects
    <3>1. Elements(frontier) = Elements(Front(frontier)) \cup {x}
        BY <2>1, Typed, ElementsOfFront
    <3>2. x \in Pending
        BY <3>1, Bridge
    <3> QED BY <2>1, <3>2, LoopParts DEF OnlyNodesAreMet, GraphTypeOK
  <2> HIDE DEF x
  <2>3. seen = Visited /\ todo = {} /\ Cardinality(todo) = 0
      BY <2>1, LoopParts, FS_EmptySet DEF Marked
  <2>4. CASE x \in seen
    <3>1. Walked' = Walked
        BY <1>1, <2>1, <2>4 DEF Walked, Visited
    <3> QED BY <1>1, <1>2, <1>3, <2>1, <2>4, <3>1 DEF CountInv
  <2>5. CASE x \notin seen
    <3>1. order' = Append(order, x) /\ todo' = adjacency[x]
        BY <2>1, <2>5 DEF Take
    <3>2. Visited' = Visited \cup {x}
      <4>1. Elements(Append(order, x)) = Elements(order) \cup {x}
          BY <2>2, Typed, ElementsOfAppend
      <4> QED BY <3>1, <4>1, Bridge
    <3>3. Cardinality(Walked') = Cardinality(Walked) + Cardinality(todo')
        BY <1>1, <2>1, <2>2, <2>3, <2>5, <3>1, <3>2, WalkedGrows
    <3>4. Cardinality(todo') \in Nat
      <4>1. IsFiniteSet(todo')
          BY <1>2, <2>2, <3>1, WalkedFinite
      <4> QED BY <4>1, FS_CardinalityType
    <3> QED BY <1>1, <1>2, <1>3, <2>1, <2>3, <3>3, <3>4 DEF CountInv
  <2> QED BY <2>4, <2>5
<1>7. CASE Push
  <2>1. PICK n \in todo :
            /\ todo' = todo \ {n}
            /\ frontier' = IF n.object \in seen THEN frontier ELSE Append(frontier, n.object)
      BY <1>7 DEF Push
  <2>2. kind = "dfs" /\ order' = order
      BY <1>7 DEF Push
  <2>3. Walked' = Walked
      BY <1>1, <2>2 DEF Walked, Visited
  <2>4. Cardinality(todo') = Cardinality(todo) - 1
      BY <1>3, <2>1, FS_RemoveElement
  <2>5. Len(frontier') <= Len(frontier) + 1 /\ Len(frontier') \in Nat
      BY <2>1
  <2> QED BY <1>1, <1>2, <1>3, <2>2, <2>3, <2>4, <2>5 DEF CountInv
<1>8. CASE ScanDone
  <2>1. UNCHANGED <<adjacency, kind, order, seen, frontier, todo>>
      BY <1>8 DEF ScanDone, Query
  <2>2. Walked' = Walked
      BY <2>1 DEF Walked, Visited
  <2> QED BY <1>2, <2>1, <2>2 DEF CountInv
<1>9. CASE Return
    BY <1>9 DEF Return, CountInv
<1> QED BY <1>4, <1>5, <1>6, <1>7, <1>8, <1>9 DEF Step

LEMMA CountStep ==
    ASSUME LoopInv, CountInv, [GraphNext]_gvars
    PROVE  CountInv'
<1>1. CASE UNCHANGED gvars
  <2>1. UNCHANGED <<adjacency, kind, order, seen, frontier, todo, pc>>
      BY <1>1 DEF gvars, query
  <2>2. Walked' = Walked
      BY <2>1 DEF Walked, Visited
  <2> QED BY <2>1, <2>2 DEF CountInv
<1>2. CASE BuildGraph \/ ClearGraph \/ (\E o \in Objects : ChangeObject(o))
           \/ (\E r \in Relationships : ChangeRelationship(r))
    BY <1>2 DEF BuildGraph, ClearGraph, ChangeObject, ChangeRelationship, Idle, CountInv
<1>3. ASSUME NEW k, NEW s \in Objects, NEW t, Refuse(k, s, t) \/ Begin(k, s, t) \/ SameNode(s)
      PROVE  CountInv'
  <2>1. CASE Begin(k, s, t)
    <3>1. /\ order' = <<>> /\ frontier' = <<s>> /\ todo' = {} /\ kind' = k
          /\ k # "dfs" => seen' = {s}
        BY <2>1 DEF Begin
    <3>2. Walked' = {}
        BY <3>1 DEF Walked, Visited
    <3>3. Cardinality(Walked') = 0 /\ Cardinality(todo') = 0 /\ Cardinality({s}) = 1
        BY <3>1, <3>2, FS_EmptySet, FS_Singleton
    <3>4. Len(frontier') = 1 /\ Len(order') = 0
        BY <3>1
    <3>5. CASE k = "dfs"
        BY <3>1, <3>3, <3>4, <3>5 DEF CountInv
    <3>6. CASE k # "dfs"
      <4>1. Cardinality(seen') = 1
          BY <3>1, <3>3, <3>6
      <4> QED BY <3>1, <3>4, <3>6, <4>1 DEF CountInv
    <3> QED BY <3>5, <3>6
  <2>2. CASE Refuse(k, s, t) \/ SameNode(s)
      BY <2>2 DEF Refuse, SameNode, CountInv
  <2> QED BY <1>3, <2>1, <2>2
<1>4. CASE Step
    BY <1>4, CountKept
<1> QED BY <1>1, <1>2, <1>3, <1>4 DEF GraphNext

\* The queue never holds a node twice, and the stack no more than the start and the
\* neighbor entries of the nodes visited, however many relationships join two nodes.
THEOREM FrontierIsBounded == GraphSafety => []FrontierBounded
<1>1. GraphInit => CountInv
    BY DEF GraphInit, CountInv
<1>2. LoopInv /\ CountInv => FrontierBounded
  <2>1. ASSUME LoopInv, CountInv, pc # "ready", kind = "dfs"
        PROVE  Len(frontier) <= 1 + Cardinality(Walked)
      BY <2>1, WalkedFinite, TakenLengths DEF CountInv
  <2> QED BY <2>1 DEF FrontierBounded, CountInv, Walked
<1>3. LoopInv /\ CountInv /\ [GraphNext]_gvars => CountInv'
    BY CountStep
<1> QED BY <1>1, <1>2, <1>3, LoopInvariant, PTL DEF GraphSafety

-----------------------------------------------------------------------------
(* Orders: what the queue and the stack hold decides what is visited next. *)

LEMMA LeastNumber ==
    ASSUME NEW E \in SUBSET Nat, E # {}
    PROVE  \E x \in E : \A y \in E : x <= y
<1>1. PICK x \in E : \A y \in E : ~(<<y, x>> \in OpToRel(<, Nat))
    BY NatLessThanWellFounded, WFMin, Zenon
<1>2. \A y \in E : ~(y < x)
    BY <1>1 DEF OpToRel
<1> QED BY <1>2

LEMMA GreatestNumber ==
    ASSUME NEW m \in Nat, NEW E \in SUBSET (1..m), E # {}
    PROVE  \E x \in E : \A y \in E : y <= x
<1> DEFINE below == {m - e : e \in E}
<1>0. \A e \in E : m - e \in Nat
    OBVIOUS
<1>1. below \in SUBSET Nat /\ below # {}
    BY <1>0
<1>2. PICK b \in below : \A c \in below : b <= c
    BY <1>1, LeastNumber, Zenon
<1>3. PICK x \in E : b = m - x
    BY <1>2
<1>4. ASSUME NEW y \in E PROVE y <= x
  <2>1. m - x <= m - y
      BY <1>2, <1>3
  <2> QED BY <2>1
<1> QED BY <1>4

\* The nodes met so far, those visited and then those waiting.
Met == Len(order) + Len(frontier)
At(i) == IF i <= Len(order) THEN order[i] ELSE frontier[i - Len(order)]

\* A queue: every node was met next to an earlier one, in the order of those that led
\* there, and the nodes one node led to rise.
Discovered ==
    \A i \in 2..Met : \E d \in 1..Len(order) : d < i /\ Joined(order[d], At(i))
InTurn ==
    \A i, j \in 2..Met, a \in 1..Len(order) :
        i < j /\ Joined(order[a], At(j)) => \E d \in 1..a : Joined(order[d], At(i))
Rising ==
    \A i, j \in 2..Met, p \in 1..Len(order) :
        (/\ i < j /\ Joined(order[p], At(i)) /\ Joined(order[p], At(j))
         /\ \A d \in 1..(p - 1) : ~Joined(order[d], At(i)) /\ ~Joined(order[d], At(j)))
            => At(i) < At(j)
Covered ==
    \A a \in 1..Len(order) :
        a < Len(order) \/ pc = "next" => Adjacent(order[a]) \subseteq Visited \cup Pending
StillToRise ==
    pc = "scan" =>
        \A i \in 2..Met :
            (\A d \in 1..(Len(order) - 1) : ~Joined(order[d], At(i)))
                => \A n \in todo : At(i) <= n.object

QueueInv ==
    kind # "dfs" =>
        /\ Discovered /\ InTurn /\ Rising /\ StillToRise
        /\ pc # "ready" => Covered

\* A stack: an unvisited node that was pushed later, or by the same node with a smaller
\* id, is somewhere above.
Pushed(j, y) ==
    \E n \in adjacency[order[j]] : n.object = y /\ (j < Len(order) \/ n \notin todo)
Precedes(y, j, z) ==
    Pushed(j, y) /\ \A e \in 1..Len(order) : e >= j /\ Pushed(e, z) => e = j /\ y < z
Stacked ==
    \A i \in 1..Len(frontier), y \in Objects \ Visited, j \in 1..Len(order) :
        frontier[i] \notin Visited /\ frontier[i] # y /\ Precedes(y, j, frontier[i])
            => \E above \in 1..Len(frontier) : above > i /\ frontier[above] = y
Falling ==
    pc = "scan" =>
        \A n \in todo, m \in adjacency[order[Len(order)]] \ todo : NotAfter(n, m)
FromStart == IF order = <<>> THEN frontier = <<start>> ELSE start \in Visited

\* And what that did to the nodes visited, as against any node that was not.
NewAt(b, y) == \A e \in 1..b : order[e] # y
WentDeep ==
    \A a, b \in 1..Len(order), y \in Objects :
        a < b /\ NewAt(b, y) /\ Joined(order[a], y) /\ ~Joined(order[a], order[b])
            => \E d \in (a + 1)..(b - 1) : Joined(order[d], order[b])
WentSmall ==
    \A i \in 1..Len(order), y \in Objects :
        1 < i /\ NewAt(i, y) /\ Earlier(i, order[i]) = Earlier(i, y) => order[i] < y

StackInv ==
    kind = "dfs" =>
        /\ WentDeep /\ WentSmall /\ Falling
        /\ pc # "ready" => Stacked /\ FromStart

AtHand == pc = "scan" => order # <<>> /\ todo \subseteq adjacency[order[Len(order)]]

OrderInv ==
    /\ LoopInv /\ AtHand /\ (pc = "ready" => frontier = <<>>)
    /\ QueueInv /\ StackInv

-----------------------------------------------------------------------------
(* The queue. *)

LEMMA Kept ==
    ASSUME LoopInv, Step
    PROVE  /\ adjacency' = adjacency /\ kind' = kind /\ start' = start /\ pc # "ready"
           /\ \A x, y : Joined(x, y)' <=> Joined(x, y)
           /\ \A x : Adjacent(x)' = Adjacent(x)
           /\ order \in Seq(Objects) /\ frontier \in Seq(Objects) /\ todo \subseteq Neighbors
           /\ Len(order) \in Nat /\ Len(frontier) \in Nat
<1>1. adjacency' = adjacency /\ kind' = kind /\ start' = start /\ pc # "ready"
    BY DEF Step, Dequeue, Enqueue, Pop, Push, ScanDone, Return, Query
<1> QED BY <1>1, Typed DEF Joined, Adjacent

LEMMA VisitedAt ==
    ASSUME LoopInv
    PROVE  /\ Visited = {order[i] : i \in 1..Len(order)} /\ Len(order) \in Nat
           /\ Pending = {frontier[i] : i \in 1..Len(frontier)} /\ Len(frontier) \in Nat
           /\ \A i \in 1..Met : At(i) \in Visited \cup Pending /\ At(i) \in Objects
           /\ \A i \in 1..Len(order) : At(i) = order[i] /\ order[i] \in Objects
<1>1. order \in Seq(Objects) /\ frontier \in Seq(Objects)
    BY Typed
<1>2. /\ Visited = {order[i] : i \in 1..Len(order)} /\ Len(order) \in Nat
      /\ Pending = {frontier[i] : i \in 1..Len(frontier)} /\ Len(frontier) \in Nat
    BY <1>1 DEF Visited, Pending
<1>3. \A i \in 1..Met : \/ i \in 1..Len(order)
                        \/ i - Len(order) \in 1..Len(frontier) /\ ~(i <= Len(order))
    BY <1>2 DEF Met
<1>4. \A i \in 1..Met : At(i) \in Visited \cup Pending /\ At(i) \in Objects
    BY <1>1, <1>2, <1>3 DEF At
<1> QED BY <1>1, <1>2, <1>4 DEF At

LEMMA QueueTakes ==
    ASSUME OrderInv, Dequeue
    PROVE  QueueInv'
<1> USE DEF OrderInv
<1>1. /\ pc = "next" /\ kind # "dfs" /\ frontier # <<>> /\ frontier' = Tail(frontier)
      /\ order' = Append(order, Head(frontier)) /\ todo' = adjacency[Head(frontier)]
      /\ pc' = "scan"
    BY DEF Dequeue, Take
<1>2. /\ \A x, y : Joined(x, y)' <=> Joined(x, y)
      /\ \A x : Adjacent(x)' = Adjacent(x)
      /\ order \in Seq(Objects) /\ frontier \in Seq(Objects)
      /\ Len(order) \in Nat /\ Len(frontier) \in Nat
    BY Kept DEF Step
<1>3. /\ Len(order') = Len(order) + 1 /\ Len(frontier') = Len(frontier) - 1
      /\ Len(frontier) > 0
      /\ \A i \in 1..Len(order) : order'[i] = order[i]
      /\ order'[Len(order) + 1] = frontier[1]
      /\ \A i \in 1..Len(frontier') : frontier'[i] = frontier[i + 1]
    BY <1>1, <1>2
<1>4. Met' = Met /\ Met \in Nat
    BY <1>2, <1>3 DEF Met
<1>5. ASSUME NEW i \in 1..Met PROVE At(i)' = At(i)
  <2>1. CASE i <= Len(order)
      BY <1>2, <1>3, <2>1 DEF At
  <2>2. CASE i = Len(order) + 1
      BY <1>2, <1>3, <2>2 DEF At
  <2>3. CASE i > Len(order) + 1
    <3>1. i - Len(order') \in 1..Len(frontier') /\ (i - Len(order')) + 1 = i - Len(order)
        BY <1>2, <1>3, <2>3 DEF Met
    <3> QED BY <1>2, <1>3, <2>3, <3>1 DEF At
  <2> QED BY <1>2, <2>1, <2>2, <2>3
<1>6. Discovered /\ InTurn /\ Rising /\ Covered
    BY <1>1 DEF QueueInv
<1>7. \A i \in 2..Met : At(i)' = At(i) /\ \E d \in 1..Len(order) : d < i /\ Joined(order'[d], At(i))
    BY <1>3, <1>5, <1>6 DEF Discovered
<1>8. Discovered'
    BY <1>2, <1>3, <1>4, <1>7 DEF Discovered
<1>9. ASSUME NEW i \in 2..Met, NEW j \in 2..Met, NEW a \in 1..Len(order'), i < j,
             Joined(order'[a], At(j))
      PROVE  \E d \in 1..a : Joined(order'[d], At(i))
  <2>1. CASE a <= Len(order)
    <3>1. PICK d \in 1..a : Joined(order[d], At(i))
        BY <1>2, <1>3, <1>6, <1>9, <2>1 DEF InTurn
    <3>2. d \in 1..Len(order)
        BY <1>2, <2>1
    <3>3. order'[d] = order[d]
        BY <1>3, <3>2
    <3> QED BY <3>1, <3>3
  <2>2. CASE a = Len(order) + 1
      BY <1>2, <1>7, <2>2
  <2> QED BY <1>2, <1>3, <2>1, <2>2
<1>10. InTurn'
    BY <1>2, <1>4, <1>7, <1>9 DEF InTurn
<1>11. ASSUME NEW i \in 2..Met, NEW j \in 2..Met, NEW p \in 1..Len(order'), i < j,
              Joined(order'[p], At(i)), Joined(order'[p], At(j)),
              \A d \in 1..(p - 1) : ~Joined(order'[d], At(i)) /\ ~Joined(order'[d], At(j))
       PROVE  At(i) < At(j)
  <2>1. p # Len(order) + 1
      BY <1>2, <1>7, <1>11
  <2>2. p \in 1..Len(order)
      BY <1>2, <1>3, <2>1
  <2>3. \A d \in 1..p : order'[d] = order[d]
      BY <1>2, <1>3, <2>2
  <2> QED BY <1>6, <1>11, <2>2, <2>3 DEF Rising
<1>12. Rising'
  <2>1. SUFFICES ASSUME NEW i \in 2..Met, NEW j \in 2..Met, NEW p \in 1..Len(order'), i < j,
                        Joined(order'[p], At(i)), Joined(order'[p], At(j)),
                        \A d \in 1..(p - 1) : /\ ~Joined(order'[d], At(i))
                                             /\ ~Joined(order'[d], At(j))
                 PROVE  At(i) < At(j)
    <3>1. \A x, y : Joined(x, y)' <=> Joined(x, y)
        BY <1>2
    <3>2. \A i \in 2..Met : At(i)' = At(i)
        BY <1>7
    <3> QED BY <1>4, <3>1, <3>2 DEF Rising
  <2> QED BY <1>11, <2>1
<1>13. StillToRise'
  <2>1. ASSUME NEW i \in 2..Met PROVE \E d \in 1..(Len(order') - 1) : Joined(order'[d], At(i))
      BY <1>2, <1>3, <1>7
  <2> QED BY <1>2, <1>4, <1>7, <2>1 DEF StillToRise
<1>14. Covered'
  <2>1. Visited \cup Pending \subseteq Visited' \cup Pending'
    <3>1. /\ Elements(frontier) = Elements(Tail(frontier)) \cup {Head(frontier)}
          /\ Head(frontier) \in Objects
        BY <1>1, <1>2, ElementsOfTail
    <3>2. Elements(Append(order, Head(frontier))) = Elements(order) \cup {Head(frontier)}
        BY <1>2, <3>1, ElementsOfAppend
    <3> QED BY <1>1, <3>1, <3>2, Bridge
  <2>2. \A a \in 1..Len(order) : Adjacent(order'[a]) \subseteq Visited \cup Pending
      BY <1>1, <1>3, <1>6 DEF Covered
  <2> QED BY <1>1, <1>2, <1>3, <2>1, <2>2 DEF Covered
<1> QED BY <1>8, <1>10, <1>12, <1>13, <1>14 DEF QueueInv

LEMMA QueueGrows ==
    ASSUME OrderInv, Enqueue
    PROVE  QueueInv'
<1> USE DEF OrderInv
<1>1. PICK n \in todo :
          /\ Smallest(n) /\ todo' = todo \ {n}
          /\ IF n.object \in seen
             THEN UNCHANGED <<seen, frontier>>
             ELSE frontier' = Append(frontier, n.object)
    BY DEF Enqueue
<1>2. pc = "scan" /\ pc' = "scan" /\ kind # "dfs" /\ order' = order
    BY DEF Enqueue
<1>3. /\ \A x, y : Joined(x, y)' <=> Joined(x, y)
      /\ \A x : Adjacent(x)' = Adjacent(x)
      /\ order \in Seq(Objects) /\ frontier \in Seq(Objects) /\ todo \subseteq Neighbors
      /\ Len(order) \in Nat /\ Len(frontier) \in Nat
    BY Kept DEF Step
<1>4. /\ Discovered /\ InTurn /\ Rising /\ Covered /\ StillToRise
      /\ seen = Visited \cup Pending
    BY <1>2, LoopParts DEF QueueInv, Marked
<1>5. Visited' = Visited
    BY <1>2 DEF Visited
<1>6. CASE n.object \in seen
  <2>1. frontier' = frontier /\ Met' = Met /\ \A i : At(i)' = At(i)
      BY <1>1, <1>2, <1>6 DEF Met, At
  <2>2. Pending' = Pending
      BY <2>1 DEF Pending
  <2> QED BY <1>1, <1>2, <1>3, <1>4, <1>5, <2>1, <2>2
          DEF QueueInv, Discovered, InTurn, Rising, Covered, StillToRise
<1>7. CASE n.object \notin seen
  <2>0. Met \in Nat /\ Len(order) \in Nat
      BY <1>3 DEF Met
  <2>a. PICK last \in Nat : last = Met + 1
      BY <2>0
  <2>b. PICK m \in Nat : m = Len(order)
      BY <2>0
  <2>1. n.object \in Objects /\ n.object \in Nat /\ m \in 1..m /\ Met \in Nat /\ m <= Met
    <3>1. n.object \in Objects
        BY <1>3 DEF Neighbors
    <3>2. m # 0
        BY <1>2, <1>3, <2>b DEF AtHand
    <3>3. Met = m + Len(frontier) /\ Len(frontier) \in Nat /\ n.object \in Nat
        BY <1>3, <2>b, <3>1 DEF Met
    <3> QED BY <2>0, <3>1, <3>2, <3>3
  <2>2. frontier' = Append(frontier, n.object)
      BY <1>1, <1>7
  <2>3. /\ Len(frontier') = Len(frontier) + 1
        /\ \A i \in 1..Len(frontier) : frontier'[i] = frontier[i]
        /\ frontier'[Len(frontier) + 1] = n.object
      BY <1>3, <2>1, <2>2
  <2>4. Met' = last
      BY <1>2, <1>3, <2>3, <2>a DEF Met
  <2>5. ASSUME NEW i \in 1..Met PROVE At(i)' = At(i)
    <3>1. CASE i <= m
        BY <1>2, <2>b, <3>1 DEF At
    <3>2. CASE i > m
      <4>1. i - m \in 1..Len(frontier)
          BY <1>3, <2>b, <3>2 DEF Met
      <4> QED BY <1>2, <1>3, <2>3, <2>b, <3>2, <4>1 DEF At
    <3> QED BY <1>3, <2>b, <3>1, <3>2
  <2>6. At(last)' = n.object
    <3>1. ~(last <= m) /\ last - m = Len(frontier) + 1
        BY <1>3, <2>1, <2>a, <2>b DEF Met
    <3> QED BY <1>2, <2>3, <2>b, <3>1 DEF At
  <2>7. Joined(order[m], n.object)
      BY <1>1, <1>2, <2>b DEF AtHand, Joined, Adjacent
  <2>8. \A a \in 1..m : a # m => ~Joined(order[a], n.object)
      BY <1>3, <1>4, <1>7, <2>b DEF Covered, Joined
  <2>9. ASSUME NEW i \in 2..Met PROVE At(i)' = At(i) /\ At(i) # n.object /\ At(i) \in Nat
    <3>1. At(i) \in Visited \cup Pending /\ At(i) \in Objects
        BY <2>0, VisitedAt
    <3>2. i \in 1..Met
        BY <2>0
    <3>3. At(i)' = At(i)
        BY <2>5, <3>2
    <3>4. At(i) \in Nat
        BY <3>1
    <3> QED BY <1>4, <1>7, <3>1, <3>3, <3>4
  <2>10. \A i \in 2..Met' : i \in 2..Met \/ i = last
      BY <2>1, <2>4, <2>a
  <2>11. last > Met /\ last \in Nat
      BY <2>1, <2>a
  <2>12. Discovered'
      BY <2>b, <1>2, <1>3, <1>4, <2>1, <2>6, <2>7, <2>9, <2>10, <2>11 DEF Discovered
  <2>13. ASSUME NEW i \in 2..Met', NEW j \in 2..Met', NEW a \in 1..m, i < j,
                Joined(order[a], At(j)')
         PROVE  \E d \in 1..a : Joined(order[d], At(i)')
    <3>1. i \in 2..Met
        BY <2>10, <2>11, <2>13, <2>4
    <3>2. CASE j \in 2..Met
        BY <2>b, <1>4, <2>9, <2>13, <3>1, <3>2 DEF InTurn
    <3>3. CASE j = last
      <4>1. a = m
          BY <2>6, <2>8, <2>13, <3>3
      <4> QED BY <2>b, <1>4, <2>9, <3>1, <4>1 DEF Discovered
    <3> QED BY <2>10, <3>2, <3>3
  <2>14. InTurn'
      BY <2>b, <1>2, <1>3, <2>13 DEF InTurn
  <2>15. ASSUME NEW i \in 2..Met', NEW j \in 2..Met', NEW p \in 1..m, i < j,
                Joined(order[p], At(i)'), Joined(order[p], At(j)'),
                \A d \in 1..(p - 1) : ~Joined(order[d], At(i)') /\ ~Joined(order[d], At(j)')
         PROVE  At(i)' < At(j)'
    <3>1. i \in 2..Met
        BY <2>10, <2>11, <2>15, <2>4
    <3>2. CASE j \in 2..Met
        BY <2>b, <1>4, <2>9, <2>15, <3>1, <3>2 DEF Rising
    <3>3. CASE j = last
      <4>1. p = m
          BY <2>6, <2>8, <2>15, <3>3
      <4>2. At(i) <= n.object
          BY <2>b, <1>2, <1>4, <2>9, <2>15, <3>1, <4>1 DEF StillToRise
      <4> QED BY <2>1, <2>6, <2>9, <3>1, <3>3, <4>2
    <3> QED BY <2>10, <3>2, <3>3
  <2>16. Rising'
      BY <2>b, <1>2, <1>3, <2>15 DEF Rising
  <2>17. ASSUME NEW i \in 2..Met', NEW k \in todo',
                \A d \in 1..(m - 1) : ~Joined(order[d], At(i)')
         PROVE  At(i)' <= k.object
    <3>1. CASE i \in 2..Met
        BY <2>b, <1>1, <1>2, <1>4, <2>9, <2>17, <3>1 DEF StillToRise
    <3>2. CASE i = last
      <4>1. NotAfter(n, k) /\ n.object \in Nat /\ k.object \in Nat
          BY <1>1, <1>3 DEF Smallest, Neighbors
      <4> QED BY <2>6, <3>2, <4>1 DEF NotAfter
    <3> QED BY <2>10, <3>1, <3>2
  <2>18. StillToRise'
      BY <2>b, <1>2, <1>3, <2>17 DEF StillToRise
  <2>19. Covered'
    <3>1. Elements(Append(frontier, n.object)) = Elements(frontier) \cup {n.object}
        BY <1>3, <2>1, ElementsOfAppend
    <3>2. Pending \subseteq Pending'
        BY <2>2, <3>1, Bridge
    <3> QED BY <1>2, <1>3, <1>4, <1>5, <3>2 DEF Covered
  <2> QED BY <2>12, <2>14, <2>16, <2>18, <2>19 DEF QueueInv
<1> QED BY <1>6, <1>7

\* A step that leaves the order and the queue alone.
LEMMA QueueStays ==
    ASSUME OrderInv, adjacency' = adjacency, order' = order, frontier' = frontier,
           kind' = kind, pc' # "scan" \/ (pc' = pc /\ todo' = todo),
           kind # "dfs" /\ pc' # "ready" => Covered'
    PROVE  QueueInv'
<1>1. /\ \A x, y : Joined(x, y)' <=> Joined(x, y)
      /\ Met' = Met /\ \A i : At(i)' = At(i)
    BY DEF Joined, Adjacent, Met, At
<1> QED BY <1>1 DEF OrderInv, QueueInv, Discovered, InTurn, Rising, StillToRise

-----------------------------------------------------------------------------
(* The stack. *)

LEMMA StackStays ==
    ASSUME StackInv, adjacency' = adjacency, order' = order, frontier' = frontier,
           kind' = kind, start' = start, pc # "ready",
           pc' \in {"next", "ready"}, todo' = todo
    PROVE  StackInv'
<1>1. /\ \A x, y : Joined(x, y)' <=> Joined(x, y)
      /\ Visited' = Visited
    BY DEF Joined, Adjacent, Visited
<1>2. \A b, y : NewAt(b, y)' <=> NewAt(b, y)
    BY DEF NewAt
<1>3. \A i, x : Earlier(i, x)' = Earlier(i, x)
    BY <1>1 DEF Earlier
<1>4. \A j, y, z : Precedes(y, j, z)' <=> Precedes(y, j, z)
    BY DEF Precedes, Pushed
<1>5. ASSUME kind = "dfs"
      PROVE  WentDeep' /\ WentSmall' /\ Falling' /\ Stacked' /\ FromStart'
  <2>1. WentDeep /\ WentSmall /\ Stacked /\ FromStart
      BY <1>5 DEF StackInv
  <2>2. WentDeep'
      BY <1>1, <1>2, <2>1 DEF WentDeep
  <2>3. WentSmall'
      BY <1>2, <1>3, <2>1 DEF WentSmall
  <2>4. Stacked'
      BY <1>1, <1>4, <2>1 DEF Stacked
  <2> QED BY <1>1, <2>1, <2>2, <2>3, <2>4 DEF Falling, FromStart
<1> QED BY <1>5 DEF StackInv

\* A node that was visited since it was pushed comes off the stack.
LEMMA StackDrops ==
    ASSUME OrderInv, Pop, frontier[Len(frontier)] \in seen
    PROVE  StackInv'
<1>1. /\ pc = "next" /\ kind = "dfs" /\ frontier # <<>>
      /\ frontier' = SubSeq(frontier, 1, Len(frontier) - 1)
      /\ UNCHANGED <<order, todo, pc>>
    BY DEF Pop
<1>2. /\ adjacency' = adjacency /\ kind' = kind /\ start' = start
      /\ \A x, y : Joined(x, y)' <=> Joined(x, y)
      /\ order \in Seq(Objects) /\ frontier \in Seq(Objects)
      /\ Len(frontier) \in Nat
    BY Kept DEF Step, OrderInv
<1>3. /\ WentDeep /\ WentSmall /\ Stacked /\ FromStart
      /\ seen = Visited
    BY <1>1, LoopParts DEF StackInv, Marked, OrderInv
<1>4. Visited' = Visited
    BY <1>1 DEF Visited
<1>5. PICK n \in Nat : n = Len(frontier)
    BY <1>2
<1>6. /\ n > 0 /\ Len(frontier') = n - 1
      /\ \A i \in 1..(n - 1) : frontier'[i] = frontier[i]
      /\ frontier[n] \in Visited
    BY <1>1, <1>2, <1>3, <1>5
<1>7. \A b, y : NewAt(b, y)' <=> NewAt(b, y)
    BY <1>1 DEF NewAt
<1>8. \A i, x : Earlier(i, x)' = Earlier(i, x)
    BY <1>1, <1>2 DEF Earlier
<1>9. \A j, y, z : Precedes(y, j, z)' <=> Precedes(y, j, z)
    BY <1>1, <1>2 DEF Precedes, Pushed
<1>10. Stacked'
  <2>1. SUFFICES ASSUME NEW i \in 1..(n - 1), NEW y \in Objects \ Visited,
                        NEW j \in 1..Len(order),
                        frontier[i] \notin Visited, frontier[i] # y, Precedes(y, j, frontier[i])
                 PROVE  \E above \in 1..(n - 1) : above > i /\ frontier'[above] = y
      BY <1>1, <1>4, <1>6, <1>9 DEF Stacked
  <2>2. PICK above \in 1..n : above > i /\ frontier[above] = y
      BY <1>3, <1>5, <2>1 DEF Stacked
  <2>3. above # n
      BY <1>6, <2>1, <2>2
  <2>4. above \in 1..(n - 1)
      BY <2>2, <2>3
  <2> QED BY <1>6, <2>2, <2>4
<1>11. FromStart'
  <2>1. order # <<>>
    <3>1. order # <<>> \/ Visited = {}
        BY <1>2 DEF Visited
    <3> QED BY <1>6, <3>1
  <2> QED BY <1>1, <1>2, <1>3, <1>4, <2>1 DEF FromStart
<1>12. WentDeep'
    BY <1>1, <1>2, <1>3, <1>7 DEF WentDeep
<1>13. WentSmall'
    BY <1>1, <1>3, <1>7, <1>8 DEF WentSmall
<1> QED BY <1>1, <1>10, <1>11, <1>12, <1>13 DEF StackInv, Falling

\* A node that was not comes off to be visited, and nothing above it was unvisited:
\* so every later neighbor of an earlier node, and every smaller one, has had its turn.
LEMMA StackTakes ==
    ASSUME OrderInv, Pop, frontier[Len(frontier)] \notin seen
    PROVE  StackInv'
<1>1. PICK n \in Nat, m \in Nat : n = Len(frontier) /\ m = Len(order)
    BY Kept DEF Step, OrderInv
<1>2. PICK top : top = frontier[n]
    OBVIOUS
<1>3. /\ pc = "next" /\ pc' = "scan" /\ kind = "dfs" /\ frontier # <<>>
      /\ frontier' = SubSeq(frontier, 1, n - 1)
      /\ order' = Append(order, top) /\ todo' = adjacency[top]
    BY <1>1, <1>2 DEF Pop, Take
<1>4. /\ adjacency' = adjacency /\ kind' = kind /\ start' = start
      /\ \A x, y : Joined(x, y)' <=> Joined(x, y)
      /\ order \in Seq(Objects) /\ frontier \in Seq(Objects)
    BY Kept DEF Step, OrderInv
<1>5. /\ WentDeep /\ WentSmall /\ Stacked /\ FromStart
      /\ seen = Visited /\ todo = {}
      /\ \A x \in Pending : Justified(x)
    BY <1>3, LoopParts DEF StackInv, Marked, OrderInv
<1>6. /\ n > 0 /\ Len(frontier') = n - 1
      /\ \A i \in 1..(n - 1) : frontier'[i] = frontier[i]
      /\ top \in Objects /\ top \in Nat /\ top \in Pending /\ top \notin Visited
  <2>1. n > 0 /\ Len(frontier') = n - 1 /\ \A i \in 1..(n - 1) : frontier'[i] = frontier[i]
      BY <1>1, <1>3, <1>4
  <2>2. n \in DOMAIN frontier
      BY <1>1, <1>4, <2>1
  <2>3. top \in Objects /\ top \in Pending
      BY <1>2, <1>4, <2>2 DEF Pending
  <2>4. top \notin Visited
      BY <1>1, <1>2, <1>5
  <2> QED BY <2>1, <2>3, <2>4
<1>7. /\ Len(order') = m + 1 /\ order'[m + 1] = top
      /\ \A e \in 1..m : order'[e] = order[e] /\ order[e] \in Visited /\ order[e] \in Objects
  <2>1. Len(order') = m + 1 /\ order'[m + 1] = top /\ \A e \in 1..m : order'[e] = order[e]
      BY <1>1, <1>3, <1>4, <1>6
  <2>2. \A e \in 1..m : order[e] \in Visited /\ order[e] \in Objects
      BY <1>1, <1>4, VisitedAt DEF OrderInv
  <2> QED BY <2>1, <2>2
<1>8. Visited' = Visited \cup {top}
    BY <1>3, <1>4, <1>6, ElementsOfAppend, Bridge
<1>9. \A e \in 1..m : \A w : Pushed(e, w) <=> Joined(order[e], w)
    BY <1>5 DEF Pushed, Joined, Adjacent
<1>10. \A e \in 1..m : \A w : Pushed(e, w)' <=> Joined(order[e], w)
  <2>1. \A e \in 1..m : order'[e] = order[e] /\ e < Len(order')
      BY <1>7
  <2> QED BY <1>4, <2>1 DEF Pushed, Joined, Adjacent
<1>11. \A w : ~Pushed(m + 1, w)'
    BY <1>3, <1>4, <1>7 DEF Pushed
<1>12. ASSUME NEW y \in Objects \ Visited, y # top, NEW a \in 1..m, Joined(order[a], y),
              \A e \in 1..m : e >= a /\ Joined(order[e], top) => e = a /\ y < top
       PROVE  FALSE
  <2>1. Precedes(y, a, top)
      BY <1>1, <1>9, <1>12 DEF Precedes
  <2>2. PICK above \in 1..n : above > n
      BY <1>1, <1>2, <1>5, <1>6, <1>12, <2>1 DEF Stacked
  <2> QED BY <2>2
<1>13. ASSUME NEW j \in 1..(m + 1), NEW y, NEW z, Precedes(y, j, z)'
       PROVE  j \in 1..m /\ Precedes(y, j, z)
  <2>1. /\ Pushed(j, y)'
        /\ \A e \in 1..(m + 1) : e >= j /\ Pushed(e, z)' => e = j /\ y < z
      BY <1>7, <1>13 DEF Precedes
  <2>2. j \in 1..m
      BY <1>11, <2>1
  <2>3. Pushed(j, y)
      BY <1>9, <1>10, <2>1, <2>2
  <2>4. \A e \in 1..m : e >= j /\ Pushed(e, z) => e = j /\ y < z
      BY <1>9, <1>10, <2>1
  <2> QED BY <1>1, <2>2, <2>3, <2>4 DEF Precedes
<1>14. Stacked'
  <2>1. ASSUME NEW i \in 1..(n - 1), NEW y \in Objects \ (Visited \cup {top}),
               NEW j \in 1..m, frontier[i] \notin Visited, frontier[i] # y,
               Precedes(y, j, frontier[i])
        PROVE  \E above \in 1..(n - 1) : above > i /\ frontier'[above] = y
    <3>1. PICK above \in 1..n : above > i /\ frontier[above] = y
        BY <1>1, <1>5, <2>1 DEF Stacked
    <3>2. above \in 1..(n - 1)
        BY <1>2, <2>1, <3>1
    <3> QED BY <1>6, <3>1, <3>2
  <2> QED BY <1>6, <1>7, <1>8, <1>13, <2>1 DEF Stacked
<1>15. Falling'
    BY <1>3, <1>4, <1>7 DEF Falling
<1>16. \/ m = 0 /\ top = start
       \/ m > 0 /\ start \in Visited
  <2>1. CASE order = <<>>
    <3>1. frontier = <<start>> /\ Len(order) = 0
        BY <1>5, <2>1 DEF FromStart
    <3>2. n = 1 /\ frontier[1] = start
        BY <1>1, <3>1
    <3>3. m = 0
        BY <1>1, <3>1
    <3>4. top = start
        BY <1>2, <3>2
    <3> QED BY <3>3, <3>4
  <2>2. CASE order # <<>>
    <3>1. m > 0
        BY <1>1, <1>4, <2>2
    <3> QED BY <1>5, <2>2, <3>1 DEF FromStart
  <2> QED BY <2>1, <2>2
<1>17. FromStart'
  <2>1. order' # <<>>
      BY <1>3, <1>4, <1>6
  <2> QED BY <1>4, <1>8, <1>16, <2>1 DEF FromStart
<1>18. ASSUME NEW y, NewAt(m + 1, y)'
       PROVE  y # top /\ y \notin Visited
  <2>1. \A e \in 1..(m + 1) : order'[e] # y
      BY <1>18 DEF NewAt
  <2>2. y # top
      BY <1>7, <2>1
  <2>3. \A e \in 1..m : order[e] # y
      BY <1>7, <2>1
  <2> QED BY <1>1, <2>2, <2>3, VisitedAt DEF OrderInv
<1>19. WentDeep'
  <2>1. SUFFICES ASSUME NEW a \in 1..(m + 1), NEW b \in 1..(m + 1), NEW y \in Objects,
                        a < b, NewAt(b, y)', Joined(order'[a], y), ~Joined(order'[a], order'[b])
                 PROVE  \E d \in (a + 1)..(b - 1) : Joined(order'[d], order'[b])
      BY <1>4, <1>7 DEF WentDeep
  <2>2. CASE b \in 1..m
    <3>1. NewAt(b, y)
        BY <1>7, <2>1, <2>2 DEF NewAt
    <3>2. order'[b] = order[b] /\ order'[a] = order[a] /\ a \in 1..m
        BY <1>7, <2>1, <2>2
    <3>3. PICK d \in (a + 1)..(b - 1) : Joined(order[d], order[b])
        BY <1>1, <1>5, <2>1, <2>2, <3>1, <3>2 DEF WentDeep
    <3>4. order'[d] = order[d]
        BY <1>7, <2>2
    <3> QED BY <3>2, <3>3, <3>4
  <2>3. CASE b = m + 1
    <3>1. a \in 1..m /\ order'[a] = order[a] /\ order'[b] = top
        BY <1>7, <2>1, <2>3
    <3>2. y # top /\ y \notin Visited
        BY <1>18, <2>1, <2>3
    <3>3. PICK d \in 1..m : d >= a /\ Joined(order[d], top) /\ ~(d = a /\ y < top)
        BY <1>12, <2>1, <3>1, <3>2
    <3>4. d # a
        BY <2>1, <3>1, <3>3
    <3>5. d \in (a + 1)..(b - 1) /\ order'[d] = order[d]
        BY <1>7, <2>3, <3>1, <3>3, <3>4
    <3> QED BY <3>1, <3>3, <3>5
  <2> QED BY <2>2, <2>3
<1>20. WentSmall'
  <2>1. \A i \in 1..(m + 1) : \A x : Earlier(i, x)' = {e \in 1..(i - 1) : Joined(order[e], x)}
    <3>1. \A i \in 1..(m + 1) : \A e \in 1..(i - 1) : order'[e] = order[e]
        BY <1>7
    <3> QED BY <1>4, <3>1 DEF Earlier
  <2>2. SUFFICES ASSUME NEW i \in 1..(m + 1), NEW y \in Objects, 1 < i, NewAt(i, y)',
                        Earlier(i, order'[i]) = Earlier(i, y)
                 PROVE  order'[i] < y
    <3>1. \A j \in 1..(m + 1) : \A x : Earlier(j, x)' = Earlier(j, x)
        BY <2>1 DEF Earlier
    <3> QED BY <1>7, <2>2, <3>1 DEF WentSmall
  <2>3. CASE i \in 1..m
    <3>1. order'[i] = order[i] /\ NewAt(i, y)
        BY <1>7, <2>2, <2>3 DEF NewAt
    <3> QED BY <1>1, <1>5, <2>2, <2>3, <3>1 DEF WentSmall
  <2>4. CASE i = m + 1
    <3>1. y # top /\ y \notin Visited
        BY <1>18, <2>2, <2>4
    <3>2. order'[i] = top /\ y \in Nat
        BY <1>7, <2>4
    <3>3. Earlier(i, top) \in SUBSET (1..m) /\ Earlier(i, top) # {}
      <4>1. m > 0 /\ top # start
          BY <1>6, <1>16, <2>2, <2>4
      <4>2. PICK x \in Visited : top \in Adjacent(x)
          BY <1>5, <1>6, <4>1 DEF Justified
      <4>3. PICK e \in 1..m : order[e] = x
          BY <1>1, <4>2, VisitedAt DEF OrderInv
      <4> QED BY <2>4, <4>2, <4>3 DEF Earlier, Joined
    <3>4. PICK g \in Earlier(i, top) : \A e \in Earlier(i, top) : e <= g
        BY <3>3, GreatestNumber
    <3>5. g \in 1..m /\ Joined(order[g], y)
        BY <2>2, <2>4, <3>2, <3>4 DEF Earlier
    <3>6. \A e \in 1..m : e >= g /\ Joined(order[e], top) => e = g
        BY <2>4, <3>4, <3>5 DEF Earlier
    <3>7. ~(y < top)
        BY <1>12, <3>1, <3>5, <3>6
    <3> QED BY <1>6, <3>1, <3>2, <3>7
  <2> QED BY <2>3, <2>4
<1> QED BY <1>3, <1>4, <1>14, <1>15, <1>17, <1>19, <1>20 DEF StackInv

\* A neighbor that is pushed is the smallest so far of its node; one that is not
\* has been visited.
LEMMA StackGrows ==
    ASSUME OrderInv, Push
    PROVE  StackInv'
<1>1. PICK n \in Nat, m \in Nat : n = Len(frontier) /\ m = Len(order)
    BY Kept DEF Step, OrderInv
<1>2. PICK k \in todo :
          /\ Largest(k) /\ todo' = todo \ {k}
          /\ frontier' = IF k.object \in seen THEN frontier ELSE Append(frontier, k.object)
    BY DEF Push
<1>3. pc = "scan" /\ pc' = "scan" /\ kind = "dfs" /\ order' = order
    BY DEF Push
<1>4. /\ adjacency' = adjacency /\ kind' = kind /\ start' = start
      /\ \A x, y : Joined(x, y)' <=> Joined(x, y)
      /\ order \in Seq(Objects) /\ frontier \in Seq(Objects) /\ todo \subseteq Neighbors
    BY Kept DEF Step, OrderInv
<1>5. /\ WentDeep /\ WentSmall /\ Stacked /\ FromStart /\ Falling
      /\ seen = Visited /\ Visited' = Visited
      /\ order # <<>> /\ todo \subseteq adjacency[order[m]]
    BY <1>1, <1>3, LoopParts DEF StackInv, Marked, OrderInv, AtHand, Visited
<1>6. k.object \in Objects /\ k.object \in Nat /\ m > 0
  <2>1. k.object \in Objects
      BY <1>4 DEF Neighbors
  <2>2. m > 0
      BY <1>1, <1>4, <1>5
  <2> QED BY <2>1, <2>2
<1>7. \A b, y : NewAt(b, y)' <=> NewAt(b, y)
    BY <1>3 DEF NewAt
<1>8. \A i, x : Earlier(i, x)' = Earlier(i, x)
    BY <1>3, <1>4 DEF Earlier
<1>9. WentDeep' /\ WentSmall'
    BY <1>3, <1>4, <1>5, <1>7, <1>8 DEF WentDeep, WentSmall
<1>10. FromStart'
    BY <1>3, <1>4, <1>5 DEF FromStart
<1>11. Falling'
  <2>1. SUFFICES ASSUME NEW r \in todo \ {k}, NEW q \in adjacency[order[m]] \ (todo \ {k})
                 PROVE  NotAfter(r, q)
      BY <1>1, <1>2, <1>3, <1>4 DEF Falling
  <2>2. CASE q = k
      BY <1>2, <2>1, <2>2 DEF Largest
  <2>3. CASE q # k
      BY <1>1, <1>3, <1>5, <2>1, <2>3 DEF Falling
  <2> QED BY <2>2, <2>3
<1>12. ASSUME NEW j \in 1..m, NEW w
       PROVE  /\ Pushed(j, w) => Pushed(j, w)'
              /\ Pushed(j, w)' => Pushed(j, w) \/ w = k.object
    BY <1>1, <1>2, <1>3, <1>4 DEF Pushed
<1>13. ASSUME NEW j \in 1..m, NEW y, y # k.object, NEW z, Precedes(y, j, z)'
       PROVE  Precedes(y, j, z)
  <2>1. Pushed(j, y)' /\ \A e \in 1..m : e >= j /\ Pushed(e, z)' => e = j /\ y < z
      BY <1>1, <1>3, <1>13 DEF Precedes
  <2>2. Pushed(j, y)
      BY <1>12, <1>13, <2>1
  <2>3. \A e \in 1..m : e >= j /\ Pushed(e, z) => e = j /\ y < z
      BY <1>12, <2>1
  <2> QED BY <1>1, <2>2, <2>3 DEF Precedes
<1>14. CASE k.object \in seen
  <2>1. frontier' = frontier
      BY <1>2, <1>14
  <2> QED BY <1>1, <1>3, <1>5, <1>9, <1>10, <1>11, <1>13, <1>14, <2>1 DEF StackInv, Stacked
<1>15. CASE k.object \notin seen
  <2>1. /\ Len(frontier') = n + 1 /\ frontier'[n + 1] = k.object
        /\ \A i \in 1..n : frontier'[i] = frontier[i]
      BY <1>1, <1>2, <1>4, <1>6, <1>15
  <2>2. ASSUME NEW y \in Objects, y # k.object, NEW j \in 1..m, Precedes(y, j, k.object)'
        PROVE  FALSE
    <3>1. Pushed(m, k.object)'
      <4>1. k \in adjacency[order[m]] /\ k \notin todo'
          BY <1>2, <1>5
      <4> QED BY <1>1, <1>3, <1>4, <4>1 DEF Pushed
    <3>2. Pushed(j, y)' /\ m \in 1..m
        BY <1>6, <2>2 DEF Precedes
    <3>3. m = j /\ y < k.object
        BY <1>1, <1>3, <2>2, <3>1, <3>2 DEF Precedes
    <3>4. Pushed(m, y)
        BY <1>12, <2>2, <3>2, <3>3
    <3>5. PICK q \in adjacency[order[m]] : q.object = y /\ q \notin todo
        BY <1>1, <3>4 DEF Pushed
    <3>6. NotAfter(k, q)
        BY <1>1, <1>3, <1>5, <3>5 DEF Falling
    <3> QED BY <1>6, <3>3, <3>5, <3>6 DEF NotAfter
  <2>3. ASSUME NEW i \in 1..(n + 1), NEW y \in Objects \ Visited, NEW j \in 1..m,
               NEW z, z = frontier'[i], z \notin Visited, z # y, Precedes(y, j, z)'
        PROVE  \E above \in 1..(n + 1) : above > i /\ frontier'[above] = y
    <3>1. CASE i = n + 1
      <4>1. z = k.object
          BY <2>1, <2>3, <3>1
      <4> QED BY <2>2, <2>3, <4>1
    <3>2. CASE i \in 1..n /\ y = k.object
        BY <2>1, <3>2
    <3>3. CASE i \in 1..n /\ y # k.object
      <4>1. Precedes(y, j, frontier[i]) /\ z = frontier[i]
          BY <1>13, <2>1, <2>3, <3>3
      <4>2. PICK above \in 1..n : above > i /\ frontier[above] = y
          BY <1>1, <1>5, <2>3, <3>3, <4>1 DEF Stacked
      <4> QED BY <2>1, <4>2
    <3> QED BY <3>1, <3>2, <3>3
  <2>4. Stacked'
      BY <1>1, <1>3, <1>5, <2>1, <2>3 DEF Stacked
  <2> QED BY <1>3, <1>4, <1>9, <1>10, <1>11, <2>4 DEF StackInv
<1> QED BY <1>14, <1>15

-----------------------------------------------------------------------------
(* Every step of every query keeps the order. *)

\* No query runs, or one has just begun: there is no order yet.
LEMMA NoOrderYet ==
    ASSUME order' = <<>>, pc' # "scan",
           IF pc' = "ready" THEN frontier' = <<>> ELSE frontier' = <<start'>>
    PROVE  QueueInv' /\ StackInv' /\ AtHand'
<1>1. Len(order') = 0 /\ Len(frontier') \in {0, 1}
    OBVIOUS
<1>2. Met' \in {0, 1}
    BY <1>1 DEF Met
<1>3. QueueInv'
    BY <1>1, <1>2 DEF QueueInv, Discovered, InTurn, Rising, Covered, StillToRise
<1>4. StackInv'
    BY <1>1 DEF StackInv, WentDeep, WentSmall, Falling, Stacked, FromStart
<1> QED BY <1>3, <1>4 DEF AtHand

LEMMA OrderStep ==
    ASSUME OrderInv, LoopInv', Step
    PROVE  OrderInv'
<1>1. CASE Dequeue
  <2>1. /\ kind # "dfs" /\ kind' = kind /\ pc' = "scan"
        /\ order' = Append(order, Head(frontier)) /\ todo' = adjacency'[Head(frontier)]
        /\ frontier # <<>>
      BY <1>1 DEF Dequeue, Take, Query
  <2>2. order \in Seq(Objects) /\ Head(frontier) \in Objects
      BY <2>1, Kept DEF OrderInv
  <2>3. order' # <<>> /\ order'[Len(order')] = Head(frontier)
      BY <2>1, <2>2
  <2> QED BY <1>1, <2>1, <2>3, QueueTakes DEF OrderInv, StackInv, AtHand
<1>2. CASE Enqueue
    BY <1>2, QueueGrows DEF Enqueue, Query, OrderInv, StackInv, AtHand
<1>3. CASE Pop
  <2>1. StackInv'
      BY <1>3, StackTakes, StackDrops
  <2>2. kind = "dfs" /\ kind' = kind /\ pc' # "ready" /\ adjacency' = adjacency
      BY <1>3 DEF Pop, Take, Query
  <2>3. AtHand'
    <3>1. CASE frontier[Len(frontier)] \in seen
        BY <1>3, <3>1 DEF Pop, AtHand
    <3>2. CASE frontier[Len(frontier)] \notin seen
      <4>1. PICK top : top = frontier[Len(frontier)]
          OBVIOUS
      <4>2. order' = Append(order, top) /\ todo' = adjacency[top] /\ frontier # <<>>
          BY <1>3, <3>2, <4>1 DEF Pop, Take
      <4>3. order \in Seq(Objects) /\ top \in Objects
          BY <4>1, <4>2, Kept DEF OrderInv
      <4>4. order' # <<>> /\ order'[Len(order')] = top
          BY <4>2, <4>3
      <4> QED BY <2>2, <4>2, <4>4 DEF AtHand
    <3> QED BY <3>1, <3>2
  <2> QED BY <2>1, <2>2, <2>3 DEF OrderInv, QueueInv
<1>4. CASE Push
    BY <1>4, StackGrows DEF Push, Query, OrderInv, QueueInv, AtHand
<1>5. CASE ScanDone \/ Return
  <2>1. /\ adjacency' = adjacency /\ order' = order /\ frontier' = frontier /\ kind' = kind
        /\ start' = start /\ pc # "ready" /\ pc' \in {"next", "ready"} /\ todo' = todo
        /\ pc' = "ready" => frontier = <<>>
      BY <1>5 DEF ScanDone, Return, Query
  <2>2. ASSUME kind # "dfs", pc' # "ready"
        PROVE  Covered'
    <3>1. \A a \in 1..Len(order) : order[a] \in Visited
        BY VisitedAt DEF OrderInv
    <3>2. /\ Visited' = Visited /\ Pending' = Pending /\ Scanned' = {}
          /\ \A x : Adjacent(x)' = Adjacent(x)
        BY <1>5, <2>1, <2>2 DEF ScanDone, Return, Visited, Pending, Scanned, Adjacent
    <3>3. Accounted'
        BY <2>2 DEF LoopInv
    <3> QED BY <2>1, <3>1, <3>2, <3>3 DEF Covered, Accounted
  <2>3. QueueInv'
      BY <2>1, <2>2, QueueStays
  <2>4. StackInv'
      BY <2>1, StackStays DEF OrderInv
  <2> QED BY <2>1, <2>3, <2>4 DEF OrderInv, AtHand
<1> QED BY <1>1, <1>2, <1>3, <1>4, <1>5 DEF Step

LEMMA OrderNext ==
    ASSUME OrderInv, LoopInv', [GraphNext]_gvars
    PROVE  OrderInv'
<1>1. CASE UNCHANGED gvars
  <2>1. UNCHANGED <<adjacency, kind, start, order, seen, frontier, todo, pc>>
      BY <1>1 DEF gvars, query
  <2>2. /\ \A x, y : Joined(x, y)' <=> Joined(x, y)
        /\ \A x : Adjacent(x)' = Adjacent(x)
        /\ Met' = Met /\ \A i : At(i)' = At(i)
        /\ Visited' = Visited /\ Pending' = Pending
      BY <2>1 DEF Joined, Adjacent, Met, At, Visited, Pending
  <2>3. QueueInv'
      BY <2>1, <2>2
         DEF OrderInv, QueueInv, Discovered, InTurn, Rising, Covered, StillToRise
  <2>4. /\ \A b, y : NewAt(b, y)' <=> NewAt(b, y)
        /\ \A j, y, z : Precedes(y, j, z)' <=> Precedes(y, j, z)
      BY <2>1 DEF NewAt, Precedes, Pushed
  <2>5. \A i, x : Earlier(i, x)' = Earlier(i, x)
      BY <2>1, <2>2 DEF Earlier
  <2>6. WentDeep' <=> WentDeep
      BY <2>1, <2>2, <2>4 DEF WentDeep
  <2>7. WentSmall' <=> WentSmall
      BY <2>1, <2>4, <2>5 DEF WentSmall
  <2>8. (Falling' <=> Falling) /\ (Stacked' <=> Stacked) /\ (FromStart' <=> FromStart)
      BY <2>1, <2>2, <2>4 DEF Falling, Stacked, FromStart
  <2>9. StackInv'
      BY <2>1, <2>6, <2>7, <2>8 DEF OrderInv, StackInv
  <2> QED BY <2>1, <2>3, <2>9 DEF OrderInv, AtHand
<1>2. CASE BuildGraph \/ ClearGraph \/ (\E o \in Objects : ChangeObject(o))
           \/ (\E r \in Relationships : ChangeRelationship(r))
  <2>1. order' = <<>> /\ pc = "ready" /\ pc' = pc /\ frontier' = frontier
      BY <1>2 DEF BuildGraph, ClearGraph, ChangeObject, ChangeRelationship, Idle
  <2> QED BY <2>1, NoOrderYet DEF OrderInv
<1>3. ASSUME NEW k, NEW s \in Objects, NEW t, Refuse(k, s, t) \/ Begin(k, s, t) \/ SameNode(s)
      PROVE  OrderInv'
  <2>1. /\ order' = <<>> /\ pc' # "scan"
        /\ IF pc' = "ready" THEN frontier' = <<>> ELSE frontier' = <<start'>>
      BY <1>3 DEF Refuse, Begin, SameNode, OrderInv
  <2> QED BY <2>1, NoOrderYet DEF OrderInv
<1>4. CASE Step
    BY <1>4, OrderStep
<1> QED BY <1>1, <1>2, <1>3, <1>4 DEF GraphNext

-----------------------------------------------------------------------------
(* What the orders mean for the nodes visited. *)

\* Two nodes of the order are in turn as the queue was, or as the stack went.
LEMMA OrdersMean ==
    ASSUME OrderInv
    PROVE  BreadthFirst /\ DepthFirst
<1>1. /\ order \in Seq(Objects) /\ Len(order) \in Nat /\ Len(frontier) \in Nat
      /\ DOMAIN order = 1..Len(order) /\ Len(order) <= Met
      /\ \A i \in 1..Len(order) : At(i) = order[i] /\ order[i] \in Objects
      /\ VisitedOnce
    BY VisitedAt, Typed DEF OrderInv, LoopInv, Met
<1>2. ASSUME kind # "dfs", NEW a \in 1..Len(order), NEW b \in 1..Len(order),
             NEW c \in 1..Len(order), a < b, b < c,
             Joined(order[a], order[c]), ~Joined(order[a], order[b])
      PROVE  \E d \in 1..(a - 1) : Joined(order[d], order[b])
  <2>1. b \in 2..Met /\ c \in 2..Met
    <3>1. Met \in Nat /\ Len(order) <= Met /\ Len(order) \in Nat
        BY <1>1 DEF Met
    <3> QED BY <1>2, <3>1
  <2>2. PICK d \in 1..a : Joined(order[d], order[b])
      BY <1>1, <1>2, <2>1 DEF OrderInv, QueueInv, InTurn
  <2>3. d # a
      BY <1>2, <2>2
  <2>4. d \in 1..(a - 1)
      BY <2>2, <2>3
  <2> QED BY <2>2, <2>4
<1>3. ASSUME NEW b \in 1..Len(order), NEW c \in 1..Len(order), b < c
      PROVE  NewAt(b, order[c])
    BY <1>1, <1>3 DEF NewAt, VisitedOnce
<1>4. ASSUME kind = "dfs", NEW a \in 1..Len(order), NEW b \in 1..Len(order),
             NEW c \in 1..Len(order), a < b, b < c,
             Joined(order[a], order[c]), ~Joined(order[a], order[b])
      PROVE  \E d \in (a + 1)..(b - 1) : Joined(order[d], order[b])
    BY <1>1, <1>3, <1>4 DEF OrderInv, StackInv, WentDeep
<1> QED BY <1>1, <1>2, <1>4 DEF BreadthFirst, DepthFirst

LEMMA SmallerComesFirst ==
    ASSUME OrderInv
    PROVE  SmallestFirst
<1>1. /\ order \in Seq(Objects) /\ Len(order) \in Nat /\ Len(frontier) \in Nat
      /\ DOMAIN order = 1..Len(order) /\ Len(order) <= Met
      /\ \A i \in 1..Len(order) : At(i) = order[i] /\ order[i] \in Objects
      /\ VisitedOnce
    BY VisitedAt, Typed DEF OrderInv, LoopInv, Met
<1>2. SUFFICES ASSUME NEW i \in 1..Len(order), NEW k \in 1..Len(order), 1 < i, i < k,
                      Earlier(i, order[i]) = Earlier(i, order[k])
               PROVE  order[i] < order[k]
    BY <1>1 DEF SmallestFirst
<1>3. CASE kind # "dfs"
  <2>1. /\ Discovered /\ InTurn /\ Rising
        /\ i \in 2..Met /\ k \in 2..Met /\ At(i) = order[i] /\ At(k) = order[k]
    <3>1. Discovered /\ InTurn /\ Rising
        BY <1>3 DEF OrderInv, QueueInv
    <3>2. Met \in Nat /\ Len(order) <= Met /\ Len(order) \in Nat
        BY <1>1 DEF Met
    <3> QED BY <1>1, <1>2, <3>1, <3>2
  <2>2. PICK d \in 1..Len(order) : d < i /\ Joined(order[d], order[i])
      BY <2>1 DEF Discovered
  <2>3. Earlier(i, order[i]) \in SUBSET Nat /\ d \in Earlier(i, order[i])
      BY <1>1, <2>2 DEF Earlier
  <2>4. PICK p \in Earlier(i, order[i]) : \A e \in Earlier(i, order[i]) : p <= e
      BY <2>3, LeastNumber
  <2>5. /\ p \in 1..(i - 1) /\ p \in 1..Len(order)
        /\ Joined(order[p], order[i]) /\ Joined(order[p], order[k])
      BY <1>1, <1>2, <2>4 DEF Earlier
  <2>6. \A e \in 1..(p - 1) : e \in 1..(i - 1) /\ e \notin Earlier(i, order[i])
      BY <2>4, <2>5
  <2>7. \A e \in 1..(p - 1) : ~Joined(order[e], order[i]) /\ ~Joined(order[e], order[k])
      BY <1>2, <2>6 DEF Earlier
  <2> QED BY <1>2, <2>1, <2>5, <2>7 DEF Rising
<1>4. CASE kind = "dfs"
  <2>1. NewAt(i, order[k])
      BY <1>1, <1>2 DEF NewAt, VisitedOnce
  <2> QED BY <1>1, <1>2, <1>4, <2>1 DEF OrderInv, StackInv, WentSmall
<1> QED BY <1>3, <1>4

LEMMA OrderAlways == GraphSafety => []OrderInv
<1>1. GraphInit /\ LoopInv => OrderInv
  <2> SUFFICES ASSUME GraphInit, LoopInv PROVE OrderInv
      OBVIOUS
  <2>1. Len(order) = 0 /\ Len(frontier) = 0 /\ pc = "ready" /\ frontier = <<>>
      BY DEF GraphInit
  <2>2. Met = 0
      BY <2>1 DEF Met
  <2>3. QueueInv
      BY <2>1, <2>2 DEF QueueInv, Discovered, InTurn, Rising, Covered, StillToRise
  <2>4. StackInv
      BY <2>1 DEF StackInv, WentDeep, WentSmall, Falling
  <2> QED BY <2>1, <2>3, <2>4 DEF OrderInv, AtHand
<1>2. OrderInv /\ LoopInv' /\ [GraphNext]_gvars => OrderInv'
    BY OrderNext
<1>3. GraphSafety => []LoopInv
    BY LoopInvariant
<1> QED BY <1>1, <1>2, <1>3, PTL DEF GraphSafety

\* The three queries answer right in every state on the way, on every graph the stores
\* can hold: breadth first order and depth first order, the smaller id first among
\* nodes reached alike, in bounded space, and a path exactly where there is one.
THEOREM QueriesAnswerRight == GraphSafety => []AnswersAreRight
<1>1. OrderInv => BreadthFirst /\ DepthFirst /\ SmallestFirst
    BY OrdersMean, SmallerComesFirst
<1>2. FrontierBounded /\ PathIsConnection /\ BreadthFirst /\ DepthFirst /\ SmallestFirst
          => AnswersAreRight
    BY DEF AnswersAreRight
<1> QED BY <1>1, <1>2, OrderAlways, FrontierIsBounded, PathsAreConnections, PTL

=============================================================================
