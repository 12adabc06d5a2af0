---------------------------- MODULE PlatformProofs ----------------------------
(***************************************************************************)
(* Theorems about the parts of the platform around the runtime, for every  *)
(* set of publishers, keys, packages, structs and arrays, and every        *)
(* combination of faults.  A behaviour of PlatformSpec is of one subject;  *)
(* the others' steps leave a subject's variables alone.                    *)
(***************************************************************************)
EXTENDS MCPlatform, Naturals, TLAPS

-----------------------------------------------------------------------------
(* The lists the C API hands out. *)

Pointers == Arrays \cup {Null}
Lenders ==
    {"objects", "relationships", "search objects", "search relationships",
     "installed packages", "package search", "history", "certificates",
     "search repository", "contents", "batch"}
Heaps == [Arrays -> {"free"} \cup Lenders]
Holders == [Structs -> [first : Pointers, second : Pointers]]

ListsTypeOK ==
    /\ heap \in Heaps
    /\ structs \in Holders
    /\ last \in [struct : Structs, ok : BOOLEAN]

\* Where the arrays are and what they are for, over the heap h and the structs x.
PointersOf(x, s) == {x[s].first, x[s].second} \ {Null}
Owned(h, x) ==
    /\ \A s \in Structs : \A a \in PointersOf(x, s) : h[a] # "free"
    /\ \A s, t \in Structs : s # t => PointersOf(x, s) \cap PointersOf(x, t) = {}
    /\ \A a \in Arrays :
          \/ h[a] = "free"
          \/ h[a] = "search repository"
          \/ \E s \in Structs : a \in PointersOf(x, s)

\* OwnershipIsRight in those words.
LEMMA OwnershipInWords ==
    ASSUME Lists!ListsAssumption, ListsTypeOK
    PROVE  Lists!OwnershipIsRight
               <=> Owned(heap, structs) /\ (~last.ok => structs[last.struct] = Lists!Zeroed)
<1>1. \A s \in Structs : Lists!Held(s) = PointersOf(structs, s) /\ Lists!Held(s) \subseteq Arrays
    BY DEF ListsTypeOK, Holders, Pointers, Lists!Held, PointersOf
<1>2. Lists!NoDanglingPointer
          <=> /\ \A s \in Structs : \A a \in PointersOf(structs, s) : heap[a] # "free"
              /\ \A s, t \in Structs :
                    s # t => PointersOf(structs, s) \cap PointersOf(structs, t) = {}
    BY <1>1 DEF Lists!NoDanglingPointer, Lists!Free
<1>3. Lists!OnlySearchLoses
          <=> \A a \in Arrays :
                 \/ heap[a] = "free"
                 \/ heap[a] = "search repository"
                 \/ \E s \in Structs : a \in PointersOf(structs, s)
    BY <1>1 DEF Lists!OnlySearchLoses, Lists!Free
<1> QED
    BY <1>2, <1>3 DEF Lists!OwnershipIsRight, Owned, Lists!FailureLeavesZeroed

\* Free arrays handed over in an empty struct.
LEMMA HandOver ==
    ASSUME Lists!ListsAssumption,
           NEW h \in Heaps, NEW x \in Holders, Owned(h, x),
           NEW s \in Structs, x[s] = Lists!Zeroed,
           NEW r \in [first : Pointers, second : Pointers],
           \A a \in {r.first, r.second} \ {Null} : h[a] = "free",
           NEW f \in Lenders,
           NEW h2 \in Heaps,
           \A a \in Arrays : h2[a] = IF a \in {r.first, r.second} THEN f ELSE h[a],
           NEW x2, x2 = [x EXCEPT ![s] = r]
    PROVE  Owned(h2, x2)
<1>1. /\ x2 \in Holders
      /\ \A t \in Structs : x2[t] = IF t = s THEN r ELSE x[t]
    BY DEF Holders
<1>0. f # "free"
    BY DEF Lenders
<1>2. PointersOf(x, s) = {} /\ PointersOf(x2, s) = {r.first, r.second} \ {Null}
    BY <1>1 DEF PointersOf, Lists!Zeroed
<1>3. \A t \in Structs : t # s => PointersOf(x2, t) = PointersOf(x, t)
    BY <1>1 DEF PointersOf
<1>4. \A t \in Structs : PointersOf(x2, t) \subseteq Arrays
    BY <1>1 DEF PointersOf, Holders, Pointers
<1>5. \A t \in Structs : t # s => PointersOf(x, t) \cap {r.first, r.second} = {}
    <2> SUFFICES ASSUME NEW t \in Structs, t # s, NEW a \in PointersOf(x, t)
                 PROVE  a \notin {r.first, r.second}
        OBVIOUS
    <2>1. a # Null /\ h[a] # "free"
        BY DEF Owned, PointersOf
    <2> QED
        BY <2>1
<1>6. \A t \in Structs : \A a \in PointersOf(x2, t) : h2[a] # "free"
    <2> SUFFICES ASSUME NEW t \in Structs, NEW a \in PointersOf(x2, t)
                 PROVE  h2[a] # "free"
        OBVIOUS
    <2>1. a \in Arrays
        BY <1>4
    <2>2. CASE t = s
        BY <2>1, <2>2, <1>0, <1>2
    <2>3. CASE t # s
        <3>1. a \in PointersOf(x, t) /\ h[a] # "free"
            BY <2>3, <1>3 DEF Owned
        <3>2. a \notin {r.first, r.second}
            BY <3>1, <2>3, <1>5
        <3> QED
            BY <2>1, <3>1, <3>2
    <2> QED
        BY <2>2, <2>3
<1>7. \A t, u \in Structs : t # u => PointersOf(x2, t) \cap PointersOf(x2, u) = {}
    <2> SUFFICES ASSUME NEW t \in Structs, NEW u \in Structs, t # u
                 PROVE  PointersOf(x2, t) \cap PointersOf(x2, u) = {}
        OBVIOUS
    <2>1. CASE t # s /\ u # s
        BY <2>1, <1>3 DEF Owned
    <2>2. CASE t = s
        BY <2>2, <1>2, <1>3, <1>5
    <2>3. CASE u = s
        BY <2>3, <1>2, <1>3, <1>5
    <2> QED
        BY <2>1, <2>2, <2>3
<1>8. ASSUME NEW a \in Arrays
      PROVE  \/ h2[a] = "free"
             \/ h2[a] = "search repository"
             \/ \E t \in Structs : a \in PointersOf(x2, t)
    <2>1. CASE a \in {r.first, r.second}
        BY <2>1, <1>2 DEF Lists!ListsAssumption
    <2>2. CASE a \notin {r.first, r.second}
        <3>1. CASE h[a] \in {"free", "search repository"}
            BY <2>2, <3>1
        <3>2. CASE \E t \in Structs : a \in PointersOf(x, t)
            BY <3>2, <1>2, <1>3
        <3> QED
            BY <3>1, <3>2 DEF Owned
    <2> QED
        BY <2>1, <2>2
<1> QED
    BY <1>6, <1>7, <1>8 DEF Owned

\* The first array of a failing repository search is lost, and nothing else.
LEMMA LoseOne ==
    ASSUME NEW h \in Heaps, NEW x \in Holders, Owned(h, x),
           NEW a \in Arrays, h[a] = "free",
           NEW h2, h2 = [h EXCEPT ![a] = "search repository"]
    PROVE  Owned(h2, x)
<1>1. \A b \in Arrays : h2[b] = IF b = a THEN "search repository" ELSE h[b]
    BY DEF Heaps, Lenders
<1>2. \A t \in Structs : PointersOf(x, t) \subseteq Arrays
    BY DEF PointersOf, Holders, Pointers
<1> QED
    BY <1>1, <1>2 DEF Owned

\* What the struct points to is freed, and nothing else.
LEMMA ReleaseOne ==
    ASSUME Lists!ListsAssumption,
           NEW h \in Heaps, NEW x \in Holders, Owned(h, x),
           NEW s \in Structs,
           NEW h2, h2 = [a \in Arrays |-> IF a \in {x[s].first, x[s].second}
                                          THEN "free" ELSE h[a]],
           NEW x2, x2 = [x EXCEPT ![s] = Lists!Zeroed]
    PROVE  Owned(h2, x2)
<1>1. \A t \in Structs : x2[t] = IF t = s THEN Lists!Zeroed ELSE x[t]
    BY DEF Holders
<1>2. PointersOf(x2, s) = {}
    BY <1>1 DEF PointersOf, Lists!Zeroed
<1>3. \A t \in Structs : t # s => PointersOf(x2, t) = PointersOf(x, t)
    BY <1>1 DEF PointersOf
<1>4. \A t \in Structs : PointersOf(x, t) \subseteq Arrays
    BY DEF PointersOf, Holders, Pointers
<1>5. \A a \in Arrays : h2[a] = IF a \in PointersOf(x, s) THEN "free" ELSE h[a]
    BY DEF PointersOf, Lists!ListsAssumption
<1>6. \A t \in Structs : \A a \in PointersOf(x2, t) : h2[a] # "free"
    BY <1>2, <1>3, <1>4, <1>5 DEF Owned
<1>7. \A t, u \in Structs : t # u => PointersOf(x2, t) \cap PointersOf(x2, u) = {}
    BY <1>2, <1>3 DEF Owned
<1>8. ASSUME NEW a \in Arrays
      PROVE  \/ h2[a] = "free"
             \/ h2[a] = "search repository"
             \/ \E t \in Structs : a \in PointersOf(x2, t)
    <2>1. CASE a \in PointersOf(x, s)
        BY <2>1, <1>5
    <2>2. CASE a \notin PointersOf(x, s)
        BY <2>2, <1>3, <1>5 DEF Owned
    <2> QED
        BY <2>1, <2>2
<1> QED
    BY <1>6, <1>7, <1>8 DEF Owned

\* The listing functions, by what they do to heap and structs.
InOrder(h, x, l) ==
    /\ h \in Heaps /\ x \in Holders
    /\ l \in [struct : Structs, ok : BOOLEAN]
    /\ Owned(h, x)
    /\ ~l.ok => x[l.struct] = Lists!Zeroed

LEMMA FillKeeps ==
    ASSUME Lists!ListsAssumption, ListsTypeOK, InOrder(heap, structs, last),
           NEW s \in Structs, NEW f \in Lenders,
           Lists!Fill(f, s)
    PROVE  InOrder(heap', structs', last')
<1>1. structs[s] = Lists!Zeroed
    BY DEF Lists!Fill, Lists!Fails, Lists!Empty, Lists!Fillable
<1>2. CASE Lists!Fails(s) \/ Lists!Empty(s)
    <2>1. /\ heap' = heap /\ structs' = structs
          /\ \E ok \in BOOLEAN : last' = [struct |-> s, ok |-> ok]
        BY <1>2 DEF Lists!Fails, Lists!Empty, Lists!Returns
    <2>2. last' \in [struct : Structs, ok : BOOLEAN] /\ structs'[last'.struct] = Lists!Zeroed
        BY <1>1, <2>1
    <2> QED
        BY <2>1, <2>2 DEF InOrder
<1>3. CASE ~(Lists!Fails(s) \/ Lists!Empty(s))
    <2>1. PICK a \in Lists!Free :
              /\ heap' = [heap EXCEPT ![a] = f]
              /\ structs' = [structs EXCEPT ![s].first = a]
              /\ last' = [struct |-> s, ok |-> TRUE]
        BY <1>3 DEF Lists!Fill, Lists!Returns
    <2> DEFINE r == [first |-> a, second |-> Null]
    <2>2. a \in Arrays /\ heap[a] = "free" /\ a # Null
        BY <2>1 DEF Lists!Free, Lists!ListsAssumption
    <2>3. r \in [first : Pointers, second : Pointers] /\ r.first = a /\ r.second = Null
        BY <2>2 DEF Pointers
    <2>4. structs' = [structs EXCEPT ![s] = r] /\ structs' \in Holders
        <3>1. structs' = [structs EXCEPT ![s] = [structs[s] EXCEPT !.first = a]]
            BY <2>1
        <3>2. [structs[s] EXCEPT !.first = a] = r
            BY <1>1 DEF Lists!Zeroed
        <3> QED
            BY <3>1, <3>2, <2>3 DEF ListsTypeOK, Holders
    <2>5. heap' \in Heaps /\ \A b \in Arrays : heap'[b] = IF b = a THEN f ELSE heap[b]
        BY <2>1 DEF ListsTypeOK, Heaps
    <2>6. \A b \in Arrays : heap'[b] = IF b \in {r.first, r.second} THEN f ELSE heap[b]
        BY <2>3, <2>5 DEF Lists!ListsAssumption
    <2>7. \A b \in {r.first, r.second} \ {Null} : heap[b] = "free"
        BY <2>2, <2>3
    <2>8. heap \in Heaps /\ structs \in Holders /\ Owned(heap, structs)
        BY DEF ListsTypeOK, InOrder
    <2> HIDE DEF r
    <2>9. Owned(heap', structs')
        BY HandOver, <1>1, <2>3, <2>4, <2>5, <2>6, <2>7, <2>8
    <2> QED
        BY <2>1, <2>4, <2>5, <2>9 DEF InOrder
<1> QED
    BY <1>2, <1>3

LEMMA SearchKeeps ==
    ASSUME Lists!ListsAssumption, ListsTypeOK, InOrder(heap, structs, last),
           NEW s \in Structs, Lists!oep_search_repository(s)
    PROVE  InOrder(heap', structs', last')
<1> DEFINE f == "search repository"
<1>0. f \in Lenders
    BY DEF Lenders
<1>1. CASE Lists!Fill("search repository", s)
    BY <1>0, <1>1, FillKeeps
<1>2. CASE ~Lists!Fill("search repository", s)
    <2>0. structs[s] = Lists!Zeroed
        BY <1>2 DEF Lists!oep_search_repository, Lists!Fillable
    <2>1. /\ structs[s] = Lists!Zeroed
          /\ \E a \in Lists!Free :
                \/ /\ heap' = [heap EXCEPT ![a] = f]
                   /\ last' = [struct |-> s, ok |-> FALSE]
                   /\ structs' = structs
                \/ \E b \in Lists!Free \ {a} :
                      /\ heap' = [heap EXCEPT ![a] = f, ![b] = f]
                      /\ structs' = [structs EXCEPT ![s] = [first |-> a, second |-> b]]
                      /\ last' = [struct |-> s, ok |-> TRUE]
                \/ /\ heap' = [heap EXCEPT ![a] = f]
                   /\ structs' = [structs EXCEPT ![s].second = a]
                   /\ last' = [struct |-> s, ok |-> TRUE]
        BY <1>2 DEF Lists!oep_search_repository, Lists!Returns, Lists!Fillable
    <2>2. PICK a \in Lists!Free :
              \/ /\ heap' = [heap EXCEPT ![a] = f]
                 /\ last' = [struct |-> s, ok |-> FALSE]
                 /\ structs' = structs
              \/ \E b \in Lists!Free \ {a} :
                    /\ heap' = [heap EXCEPT ![a] = f, ![b] = f]
                    /\ structs' = [structs EXCEPT ![s] = [first |-> a, second |-> b]]
                    /\ last' = [struct |-> s, ok |-> TRUE]
              \/ /\ heap' = [heap EXCEPT ![a] = f]
                 /\ structs' = [structs EXCEPT ![s].second = a]
                 /\ last' = [struct |-> s, ok |-> TRUE]
        BY <2>1
    <2>3. \A b \in Lists!Free : b \in Arrays /\ heap[b] = "free" /\ b # Null
        BY DEF Lists!Free, Lists!ListsAssumption
    <2>4. heap \in Heaps /\ structs \in Holders /\ Owned(heap, structs)
        BY DEF ListsTypeOK, InOrder
    <2>5. CASE /\ heap' = [heap EXCEPT ![a] = f]
               /\ last' = [struct |-> s, ok |-> FALSE]
               /\ structs' = structs
        <3>1. Owned(heap', structs)
            BY LoseOne, <2>3, <2>4, <2>5
        <3>2. heap' \in Heaps
            BY <1>0, <2>4, <2>5 DEF Heaps
        <3>3. last' \in [struct : Structs, ok : BOOLEAN] /\ structs'[last'.struct] = Lists!Zeroed
            BY <2>1, <2>5
        <3> QED
            BY <2>4, <2>5, <3>1, <3>2, <3>3 DEF InOrder
    <2>6. CASE \E b \in Lists!Free \ {a} :
                  /\ heap' = [heap EXCEPT ![a] = f, ![b] = f]
                  /\ structs' = [structs EXCEPT ![s] = [first |-> a, second |-> b]]
                  /\ last' = [struct |-> s, ok |-> TRUE]
        <3>1. PICK b \in Lists!Free \ {a} :
                  /\ heap' = [heap EXCEPT ![a] = f, ![b] = f]
                  /\ structs' = [structs EXCEPT ![s] = [first |-> a, second |-> b]]
                  /\ last' = [struct |-> s, ok |-> TRUE]
            BY <2>6
        <3> DEFINE r == [first |-> a, second |-> b]
        <3>2. r \in [first : Pointers, second : Pointers] /\ r.first = a /\ r.second = b
            BY <2>3 DEF Pointers
        <3>3. structs' = [structs EXCEPT ![s] = r]
            BY <3>1
        <3>4. structs' \in Holders
            BY <2>4, <3>2, <3>3 DEF Holders
        <3>5. heap' \in Heaps
            BY <1>0, <2>4, <3>1 DEF Heaps
        <3>6. \A c \in Arrays : heap'[c] = IF c \in {r.first, r.second} THEN f ELSE heap[c]
            BY <2>3, <2>4, <3>1 DEF Heaps
        <3>7. \A c \in {r.first, r.second} \ {Null} : heap[c] = "free"
            BY <2>3, <3>1
        <3> HIDE DEF r, f
        <3>8. Owned(heap', structs')
            BY HandOver, <1>0, <2>0, <2>4, <3>2, <3>3, <3>5, <3>6, <3>7
        <3> QED
            BY <3>1, <3>4, <3>5, <3>8 DEF InOrder
    <2>7. CASE /\ heap' = [heap EXCEPT ![a] = f]
               /\ structs' = [structs EXCEPT ![s].second = a]
               /\ last' = [struct |-> s, ok |-> TRUE]
        <3> DEFINE r == [first |-> Null, second |-> a]
        <3>2. r \in [first : Pointers, second : Pointers] /\ r.first = Null /\ r.second = a
            BY <2>3 DEF Pointers
        <3>3. structs' = [structs EXCEPT ![s] = r]
            <4>1. structs' = [structs EXCEPT ![s] = [structs[s] EXCEPT !.second = a]]
                BY <2>7
            <4>2. [structs[s] EXCEPT !.second = a] = r
                BY <2>0 DEF Lists!Zeroed
            <4> QED
                BY <4>1, <4>2
        <3>4. structs' \in Holders
            BY <2>4, <3>2, <3>3 DEF Holders
        <3>5. heap' \in Heaps
            BY <1>0, <2>4, <2>7 DEF Heaps
        <3>6. \A c \in Arrays : heap'[c] = IF c \in {r.first, r.second} THEN f ELSE heap[c]
            BY <2>3, <2>4, <2>7, <3>2 DEF Heaps, Lists!ListsAssumption
        <3>7. \A c \in {r.first, r.second} \ {Null} : heap[c] = "free"
            BY <2>3, <3>2
        <3> HIDE DEF r, f
        <3>8. Owned(heap', structs')
            BY HandOver, <1>0, <2>0, <2>4, <3>2, <3>3, <3>5, <3>6, <3>7
        <3> QED
            BY <2>7, <3>4, <3>5, <3>8 DEF InOrder
    <2> QED
        BY <2>2, <2>5, <2>6, <2>7
<1> QED
    BY <1>1, <1>2

LEMMA ContentsKeep ==
    ASSUME Lists!ListsAssumption, ListsTypeOK, InOrder(heap, structs, last),
           NEW s \in Structs, NEW t \in Structs, Lists!oep_package_get_contents(s, t)
    PROVE  InOrder(heap', structs', last')
<1> DEFINE f == "contents"
<1>0. f \in Lenders
    BY DEF Lenders
<1>1. CASE Lists!Fill("contents", s)
    BY <1>0, <1>1, FillKeeps
<1>2. CASE ~Lists!Fill("contents", s)
    <2>1. /\ s # t /\ structs[t] = Lists!Zeroed /\ structs[s] = Lists!Zeroed
          /\ last' = [struct |-> s, ok |-> TRUE]
        BY <1>2 DEF Lists!oep_package_get_contents, Lists!Returns, Lists!Fillable
    <2>2. PICK a \in Lists!Free :
              \/ /\ heap' = [heap EXCEPT ![a] = f]
                 /\ structs' = [structs EXCEPT ![t].first = a]
              \/ \E b \in Lists!Free \ {a} :
                    /\ heap' = [heap EXCEPT ![a] = f, ![b] = f]
                    /\ structs' = [structs EXCEPT ![s].first = a, ![t].first = b]
        BY <1>2 DEF Lists!oep_package_get_contents
    <2>3. \A b \in Lists!Free : b \in Arrays /\ heap[b] = "free" /\ b # Null
        BY DEF Lists!Free, Lists!ListsAssumption
    <2>4. heap \in Heaps /\ structs \in Holders /\ Owned(heap, structs)
        BY DEF ListsTypeOK, InOrder
    <2> DEFINE One(c) == [first |-> c, second |-> Null]
    <2>5. ASSUME NEW c \in Arrays, NEW h \in Heaps, NEW x \in Holders, Owned(h, x),
                 NEW u \in Structs, x[u] = Lists!Zeroed, h[c] = "free"
          PROVE  /\ [h EXCEPT ![c] = f] \in Heaps
                 /\ [x EXCEPT ![u] = One(c)] \in Holders
                 /\ Owned([h EXCEPT ![c] = f], [x EXCEPT ![u] = One(c)])
        <3> DEFINE r == One(c)
                   h2 == [h EXCEPT ![c] = f]
        <3>1. r \in [first : Pointers, second : Pointers] /\ r.first = c /\ r.second = Null
            BY DEF Pointers
        <3>2. h2 \in Heaps
            BY <1>0, <2>5 DEF Heaps
        <3>3. \A d \in Arrays : h2[d] = IF d \in {r.first, r.second} THEN f ELSE h[d]
            BY <2>5, <3>1 DEF Heaps, Lists!ListsAssumption
        <3>4. \A d \in {r.first, r.second} \ {Null} : h[d] = "free"
            BY <2>5, <3>1
        <3>5. [x EXCEPT ![u] = r] \in Holders
            BY <2>5, <3>1 DEF Holders
        <3> HIDE DEF r, h2
        <3>6. Owned(h2, [x EXCEPT ![u] = r])
            BY HandOver, <1>0, <2>5, <3>1, <3>2, <3>3, <3>4
        <3> QED
            BY <3>2, <3>5, <3>6 DEF r, h2
    <2>6. \A c : [structs[t] EXCEPT !.first = c] = One(c) /\ [structs[s] EXCEPT !.first = c] = One(c)
        BY <2>1 DEF Lists!Zeroed
    <2>7. CASE heap' = [heap EXCEPT ![a] = f] /\ structs' = [structs EXCEPT ![t].first = a]
        <3>1. structs' = [structs EXCEPT ![t] = One(a)]
            BY <2>6, <2>7
        <3> DEFINE h == [heap EXCEPT ![a] = f]
                   x == [structs EXCEPT ![t] = One(a)]
        <3>2. h \in Heaps /\ x \in Holders /\ Owned(h, x)
            <4> HIDE DEF One, f
            <4> QED
                BY <2>1, <2>3, <2>4, <2>5
        <3>3. heap' = h /\ structs' = x
            BY <2>7, <3>1
        <3>4. heap' \in Heaps /\ structs' \in Holders /\ Owned(heap', structs')
            <4> HIDE DEF h, x
            <4> QED
                BY <3>2, <3>3
        <3> QED
            BY <2>1, <3>4 DEF InOrder
    <2>8. CASE \E b \in Lists!Free \ {a} :
                  /\ heap' = [heap EXCEPT ![a] = f, ![b] = f]
                  /\ structs' = [structs EXCEPT ![s].first = a, ![t].first = b]
        <3>1. PICK b \in Lists!Free \ {a} :
                  /\ heap' = [heap EXCEPT ![a] = f, ![b] = f]
                  /\ structs' = [structs EXCEPT ![s].first = a, ![t].first = b]
            BY <2>8
        <3> DEFINE h == [heap EXCEPT ![a] = f]
                   x == [structs EXCEPT ![s] = One(a)]
        <3>2. h \in Heaps /\ x \in Holders /\ Owned(h, x)
            <4> HIDE DEF One, f
            <4> QED
                BY <2>1, <2>3, <2>4, <2>5
        <3>3. x[t] = Lists!Zeroed /\ h[b] = "free"
            BY <2>1, <2>3, <2>4, <3>1 DEF Heaps, Holders
        <3>4. heap' = [h EXCEPT ![b] = f]
            BY <3>1
        <3>5. structs' = [x EXCEPT ![t] = One(b)]
            <4>1. x[t] = structs[t]
                BY <2>1, <2>4 DEF Holders
            <4>2. structs' = [[structs EXCEPT ![s] = [structs[s] EXCEPT !.first = a]]
                                EXCEPT ![t] = [structs[t] EXCEPT !.first = b]]
                BY <2>1, <2>4, <3>1 DEF Holders
            <4> QED
                BY <2>6, <4>2
        <3>6. heap' \in Heaps /\ structs' \in Holders /\ Owned(heap', structs')
            <4> HIDE DEF One, f, h, x
            <4> QED
                BY <2>3, <2>5, <3>2, <3>3, <3>4, <3>5
        <3> QED
            BY <2>1, <3>6 DEF InOrder
    <2> QED
        BY <2>2, <2>7, <2>8
<1> QED
    BY <1>1, <1>2

LEMMA ReleaseKeeps ==
    ASSUME Lists!ListsAssumption, ListsTypeOK, InOrder(heap, structs, last),
           NEW s \in Structs, Lists!Release(s)
    PROVE  InOrder(heap', structs', last')
<1>1. heap \in Heaps /\ structs \in Holders /\ Owned(heap, structs)
    BY DEF ListsTypeOK, InOrder
<1>2. /\ heap' = [a \in Arrays |-> IF a \in {structs[s].first, structs[s].second}
                                   THEN "free" ELSE heap[a]]
      /\ structs' = [structs EXCEPT ![s] = Lists!Zeroed]
      /\ last' = last
    BY DEF Lists!Release
<1>3. Owned(heap', structs')
    BY ReleaseOne, <1>1, <1>2
<1>4. heap' \in Heaps
    BY <1>1, <1>2 DEF Heaps
<1>5. structs' \in Holders /\ \A t \in Structs : structs[t] = Lists!Zeroed => structs'[t] = Lists!Zeroed
    <2>1. Lists!Zeroed \in [first : Pointers, second : Pointers]
        BY DEF Lists!Zeroed, Pointers
    <2> QED
        BY <1>1, <1>2, <2>1 DEF Holders
<1>6. last \in [struct : Structs, ok : BOOLEAN] /\ (~last.ok => structs[last.struct] = Lists!Zeroed)
    BY DEF InOrder
<1>7. last.struct \in Structs
    BY <1>6
<1>8. ~last'.ok => structs'[last'.struct] = Lists!Zeroed
    BY <1>2, <1>5, <1>6, <1>7
<1> QED
    BY <1>2, <1>3, <1>4, <1>5, <1>6, <1>8 DEF InOrder

\* Every call of a correct caller keeps the arrays in order.
LEMMA ListsStep ==
    ASSUME Lists!ListsAssumption, ListsTypeOK, InOrder(heap, structs, last), Lists!Next
    PROVE  InOrder(heap', structs', last')
<1>1. PICK s \in Structs :
          \/ \E f \in Lenders : Lists!Fill(f, s)
          \/ Lists!oep_search_repository(s)
          \/ \E t \in Structs : Lists!oep_package_get_contents(s, t)
          \/ Lists!Release(s)
    BY DEF Lists!Next, Lenders,
           Lists!oep_object_store_list, Lists!oep_relationship_store_list,
           Lists!oep_search_objects, Lists!oep_search_relationships,
           Lists!oep_package_list_installed, Lists!oep_package_search,
           Lists!oep_transaction_history, Lists!oep_trust_list_certificates,
           Lists!oep_batch_create_relationships
<1>2. CASE \E f \in Lenders : Lists!Fill(f, s)
    BY <1>2, FillKeeps
<1>3. CASE Lists!oep_search_repository(s)
    BY <1>3, SearchKeeps
<1>4. CASE \E t \in Structs : Lists!oep_package_get_contents(s, t)
    BY <1>4, ContentsKeep
<1>5. CASE Lists!Release(s)
    BY <1>5, ReleaseKeeps
<1> QED
    BY <1>1, <1>2, <1>3, <1>4, <1>5

LEMMA ListsBegin ==
    ASSUME Lists!ListsAssumption, Lists!Init
    PROVE  InOrder(heap, structs, last)
<1>1. heap \in Heaps /\ \A a \in Arrays : heap[a] = "free"
    BY DEF Lists!Init, Heaps
<1>2. structs \in Holders /\ \A s \in Structs : structs[s] = Lists!Zeroed
    BY DEF Lists!Init, Holders, Lists!Zeroed, Pointers
<1>3. last \in [struct : Structs, ok : BOOLEAN] /\ last.struct \in Structs
    BY DEF Lists!Init
<1>4. \A s \in Structs : PointersOf(structs, s) = {}
    BY <1>2 DEF PointersOf, Lists!Zeroed
<1>5. Owned(heap, structs)
    BY <1>1, <1>4 DEF Owned
<1> QED
    BY <1>1, <1>2, <1>3, <1>5 DEF InOrder

ListsInv == subject = "lists" => InOrder(heap, structs, last)

\* The release functions of oep_api.h: however lists are filled, lost half way and
\* released, in whatever order and however often, for any number of structs and
\* arrays, what the caller holds is its own and alive, and only a repository search
\* that fails half way loses an array.
THEOREM OwnershipHolds == PlatformSpec => []OwnershipIsRight
<1>1. PlatformInit => ListsInv
    BY PlatformAssumption, ListsBegin DEF PlatformInit, ListsInv
<1>2. ListsInv /\ [PlatformNext]_allVars => ListsInv'
    <2> SUFFICES ASSUME ListsInv, [PlatformNext]_allVars, subject' = "lists"
                 PROVE  InOrder(heap', structs', last')
        BY DEF ListsInv
    <2>1. CASE ListStep
        <3>1. InOrder(heap, structs, last)
            BY <2>1 DEF ListStep, ListsInv
        <3>2. ListsTypeOK
            BY <3>1 DEF InOrder, ListsTypeOK
        <3> QED
            BY <2>1, <3>1, <3>2, PlatformAssumption, ListsStep DEF ListStep
    <2>2. CASE ~ListStep
        <3>1. subject' = subject /\ heap' = heap /\ structs' = structs /\ last' = last
            BY <2>2 DEF PlatformNext, ArchiveStep, TrustStep, ListStep, RecordStep, ManagerStep,
                        SearchStep, allVars, listVars
        <3> QED
            BY <3>1 DEF ListsInv
    <2> QED
        BY <2>1, <2>2
<1>3. ListsInv => OwnershipIsRight
    <2> SUFFICES ASSUME ListsInv, subject = "lists"
                 PROVE  Lists!OwnershipIsRight
        BY DEF OwnershipIsRight
    <2>1. InOrder(heap, structs, last)
        BY DEF ListsInv
    <2>2. ListsTypeOK
        BY <2>1 DEF InOrder, ListsTypeOK
    <2>3. Owned(heap, structs) /\ (~last.ok => structs[last.struct] = Lists!Zeroed)
        BY <2>1 DEF InOrder
    <2> QED
        BY <2>2, <2>3, PlatformAssumption, OwnershipInWords
<1> QED
    BY <1>1, <1>2, <1>3, PTL DEF PlatformSpec

-----------------------------------------------------------------------------
(* The Trust Store. *)

Checks == 1..13

\* verify_package_trust over a certificate file c and a clock t: what each check finds.
Found(c, t, a) ==
    LET loads == c \notin {Absent, Torn}
    IN  <<a.block = "unopened", a.block = "none", a.block = "unreadable",
          a.block = "malformed", a.content = "unreadable", a.content = "changed",
          c = Torn, c = Absent,
          loads /\ c.revoked, loads /\ c.expires < t, loads /\ c.key # a.key, ~a.holds,
          TRUE>>
Decided(c, t, a) ==
    Trust!Verdicts[CHOOSE i \in DOMAIN Found(c, t, a) :
        Found(c, t, a)[i] /\ \A j \in 1..(i - 1) : ~Found(c, t, a)[j]]

\* The checks decide in their order.
LEMMA FirstCheckDecides ==
    ASSUME NEW f, DOMAIN f = Checks, NEW i \in Checks,
           f[i], \A j \in 1..(i - 1) : ~f[j]
    PROVE  (CHOOSE k \in DOMAIN f : f[k] /\ \A j \in 1..(k - 1) : ~f[j]) = i
<1>1. \A k \in Checks : f[k] /\ (\A j \in 1..(k - 1) : ~f[j]) => k = i
    BY DEF Checks
<1> QED
    BY <1>1

\* What each verdict means.
LEMMA VerdictsMean ==
    ASSUME Absent # Torn, NEW c, NEW t, NEW a \in Trust!Archives
    PROVE  /\ Decided(c, t, a) = "Tampered" <=> a.block = "ok" /\ a.content = "changed"
           /\ a.block = "ok" /\ a.content = "unreadable" => Decided(c, t, a) = "error"
           /\ Decided(c, t, a) = "Unsigned" <=> a.block = "none"
           /\ a.block = "ok" /\ a.content = "intact" =>
                  /\ Decided(c, t, a) = "error" <=> c = Torn
                  /\ Decided(c, t, a) = "UnknownPublisher" <=> c = Absent
           /\ Decided(c, t, a) = "Trusted" <=>
                  /\ a.block = "ok" /\ a.content = "intact" /\ a.holds
                  /\ c \notin {Absent, Torn} /\ ~c.revoked /\ ~(c.expires < t)
                  /\ c.key = a.key
<1> DEFINE F == Found(c, t, a)
           v == Decided(c, t, a)
           loads == c \notin {Absent, Torn}
<1>1. DOMAIN F = Checks
    BY DEF Found, Checks
<1>2. /\ F[1] <=> a.block = "unopened"
      /\ F[2] <=> a.block = "none"
      /\ F[3] <=> a.block = "unreadable"
      /\ F[4] <=> a.block = "malformed"
      /\ F[5] <=> a.content = "unreadable"
      /\ F[6] <=> a.content = "changed"
      /\ F[7] <=> c = Torn
      /\ F[8] <=> c = Absent
      /\ F[9] <=> loads /\ c.revoked
      /\ F[10] <=> loads /\ c.expires < t
      /\ F[11] <=> loads /\ c.key # a.key
      /\ F[12] <=> ~a.holds
      /\ F[13]
    BY DEF Found
<1>3. ASSUME NEW i \in Checks, F[i], \A j \in 1..(i - 1) : ~F[j]
      PROVE  v = Trust!Verdicts[i]
    <2> HIDE DEF F
    <2> QED
        BY <1>1, <1>3, FirstCheckDecides DEF Decided, F
<1> HIDE DEF F, v
<1>4. ASSUME NEW i \in Checks, F[i], \A j \in Checks : j < i => ~F[j]
      PROVE  v = Trust!Verdicts[i]
    BY <1>3, <1>4 DEF Checks
<1>5. /\ 1 \in Checks /\ 2 \in Checks /\ 3 \in Checks /\ 4 \in Checks /\ 5 \in Checks
      /\ 6 \in Checks /\ 7 \in Checks /\ 8 \in Checks /\ 9 \in Checks /\ 10 \in Checks
      /\ 11 \in Checks /\ 12 \in Checks /\ 13 \in Checks
      /\ \A j \in Checks : \/ j = 1 \/ j = 2 \/ j = 3 \/ j = 4 \/ j = 5 \/ j = 6 \/ j = 7
                          \/ j = 8 \/ j = 9 \/ j = 10 \/ j = 11 \/ j = 12 \/ j = 13
    BY DEF Checks
<1>6. /\ F[1] => v = "error"
      /\ ~F[1] /\ F[2] => v = "Unsigned"
      /\ ~F[1] /\ ~F[2] /\ F[3] => v = "error"
      /\ ~F[1] /\ ~F[2] /\ ~F[3] /\ F[4] => v = "InvalidSignature"
    BY <1>4, <1>5 DEF Trust!Verdicts
<1>7. ~F[1] /\ ~F[2] /\ ~F[3] /\ ~F[4] =>
      /\ F[5] => v = "error"
      /\ ~F[5] /\ F[6] => v = "Tampered"
      /\ ~F[5] /\ ~F[6] /\ F[7] => v = "error"
      /\ ~F[5] /\ ~F[6] /\ ~F[7] /\ F[8] => v = "UnknownPublisher"
    BY <1>4, <1>5 DEF Trust!Verdicts
<1>8. ~F[1] /\ ~F[2] /\ ~F[3] /\ ~F[4] /\ ~F[5] /\ ~F[6] /\ ~F[7] /\ ~F[8] =>
      /\ F[9] => v = "RevokedCertificate"
      /\ ~F[9] /\ F[10] => v = "ExpiredCertificate"
      /\ ~F[9] /\ ~F[10] /\ F[11] => v = "InvalidSignature"
      /\ ~F[9] /\ ~F[10] /\ ~F[11] /\ F[12] => v = "InvalidSignature"
      /\ ~F[9] /\ ~F[10] /\ ~F[11] /\ ~F[12] => v = "Trusted"
    BY <1>2, <1>4, <1>5 DEF Trust!Verdicts
<1>9. /\ \/ a.block = "unopened" /\ F[1]
         \/ a.block = "none" /\ ~F[1] /\ F[2]
         \/ a.block = "unreadable" /\ ~F[1] /\ ~F[2] /\ F[3]
         \/ a.block = "malformed" /\ ~F[1] /\ ~F[2] /\ ~F[3] /\ F[4]
         \/ a.block = "ok" /\ ~F[1] /\ ~F[2] /\ ~F[3] /\ ~F[4]
      /\ \/ a.content = "unreadable" /\ F[5]
         \/ a.content = "changed" /\ ~F[5] /\ F[6]
         \/ a.content = "intact" /\ ~F[5] /\ ~F[6]
    BY <1>2 DEF Trust!Archives
<1>10. loads <=> ~F[7] /\ ~F[8]
    BY <1>2
<1> HIDE DEF loads
<1>11. v = "Tampered" <=> a.block = "ok" /\ a.content = "changed"
    BY <1>6, <1>7, <1>8, <1>9
<1>12. v = "Unsigned" <=> a.block = "none"
    BY <1>6, <1>7, <1>8, <1>9
<1>13. a.block = "ok" /\ a.content = "unreadable" => v = "error"
    BY <1>7, <1>9
<1>14. a.block = "ok" /\ a.content = "intact" =>
          /\ v = "error" <=> c = Torn
          /\ v = "UnknownPublisher" <=> c = Absent
    BY <1>2, <1>7, <1>8, <1>9
<1>15. v = "Trusted" <=> /\ a.block = "ok" /\ a.content = "intact" /\ a.holds
                         /\ loads /\ ~c.revoked /\ ~(c.expires < t)
                         /\ c.key = a.key
    BY <1>2, <1>6, <1>7, <1>8, <1>9, <1>10
<1> QED
    BY <1>11, <1>12, <1>13, <1>14, <1>15 DEF v, loads

Certs == [Publishers -> Trust!Certificates \cup {Absent, Torn}]

\* A package recorded as trusted has a publisher whose certificate file is torn or
\* still holds the key the package was signed with.
KeyIsKept(p, o) ==
    o # Absent /\ o.state = "Trusted" =>
        /\ o.publisher \in Publishers
        /\ \/ certs[o.publisher] = Torn
           \/ certs[o.publisher] \in Trust!Certificates /\ certs[o.publisher].key = o.key

TrustOrder ==
    /\ certs \in Certs
    /\ now \in Nat
    /\ installed \in [Signed -> Trust!Outcomes \cup {Absent}]
    /\ \A p \in Signed : KeyIsKept(p, installed[p])

LEMMA VerdictIsDecided ==
    ASSUME NEW a
    PROVE  Trust!Verdict(a) = Decided(certs[a.publisher], now, a)
    BY DEF Trust!Verdict, Trust!Failed, Decided, Found

LEMMA TrustBegins ==
    ASSUME Trust!TrustAssumption, Trust!TrustInit
    PROVE  TrustOrder
    BY DEF Trust!TrustInit, TrustOrder, Certs, KeyIsKept

\* A certificate file after a write.
LEMMA CertificateWritten ==
    ASSUME Trust!TrustAssumption, NEW c \in Trust!Certificates, NEW out \in WriteOutcomes
    PROVE  \/ Trust!Written(c, out) = Torn
           \/ Trust!Written(c, out) = c /\ c \in Trust!Certificates
    BY DEF Trust!Written

LEMMA AddKeepsTrust ==
    ASSUME Trust!TrustAssumption, TrustOrder,
           NEW p \in Publishers, NEW k \in Keys, NEW t \in 0..MaxTime, NEW out \in WriteOutcomes,
           Trust!AddCertificate(p, k, t, out)
    PROVE  TrustOrder'
<1> DEFINE c == Trust!Written([key |-> k, expires |-> t, revoked |-> FALSE], out)
<1>1. c \in Trust!Certificates \cup {Torn}
    <2>1. [key |-> k, expires |-> t, revoked |-> FALSE] \in Trust!Certificates
        BY DEF Trust!Certificates
    <2> QED
        BY <2>1, CertificateWritten
<1>2. /\ certs[p] = Absent /\ certs' = [certs EXCEPT ![p] = c]
      /\ installed' = installed /\ now' = now
    BY DEF Trust!AddCertificate
<1> HIDE DEF c
<1>3. certs' \in Certs /\ \A q \in Publishers : q # p => certs'[q] = certs[q]
    BY <1>1, <1>2 DEF TrustOrder, Certs
<1>4. ASSUME NEW q \in Signed
      PROVE  KeyIsKept(q, installed[q])'
    <2>1. CASE installed[q] # Absent /\ installed[q].state = "Trusted"
        <3>1. /\ installed[q].publisher \in Publishers
              /\ installed[q].publisher # p
            BY <1>2, <2>1 DEF TrustOrder, KeyIsKept, Trust!TrustAssumption
        <3> QED
            BY <1>2, <1>3, <2>1, <3>1 DEF TrustOrder, KeyIsKept
    <2>2. CASE ~(installed[q] # Absent /\ installed[q].state = "Trusted")
        BY <1>2, <2>2 DEF KeyIsKept
    <2> QED
        BY <2>1, <2>2
<1> QED
    BY <1>2, <1>3, <1>4 DEF TrustOrder

LEMMA RevokeKeepsTrust ==
    ASSUME Trust!TrustAssumption, TrustOrder,
           NEW p \in Publishers, NEW out \in WriteOutcomes,
           Trust!RevokeCertificate(p, out)
    PROVE  TrustOrder'
<1> DEFINE c == [certs[p] EXCEPT !.revoked = TRUE]
<1>1. /\ certs[p] \in Trust!Certificates /\ certs' = [certs EXCEPT ![p] = Trust!Written(c, out)]
      /\ installed' = installed /\ now' = now
    BY DEF Trust!RevokeCertificate, Trust!CertLoads
<1>2. c \in Trust!Certificates /\ c.key = certs[p].key
    BY <1>1 DEF Trust!Certificates
<1> HIDE DEF c
<1>3. Trust!Written(c, out) = Torn \/ Trust!Written(c, out) = c
    BY <1>2, CertificateWritten
<1>4. /\ certs' \in Certs
      /\ \A q \in Publishers : q # p => certs'[q] = certs[q]
      /\ certs'[p] = Torn \/ certs'[p] = c
    BY <1>1, <1>2, <1>3 DEF TrustOrder, Certs
<1>5. ASSUME NEW q \in Signed
      PROVE  KeyIsKept(q, installed[q])'
    <2>1. CASE installed[q] # Absent /\ installed[q].state = "Trusted"
        <3>1. KeyIsKept(q, installed[q]) /\ certs[p] # Torn
            BY <1>1 DEF TrustOrder, Trust!TrustAssumption
        <3>2. CASE installed[q].publisher = p
            BY <1>1, <1>2, <1>4, <2>1, <3>1, <3>2 DEF KeyIsKept
        <3>3. CASE installed[q].publisher # p
            BY <1>1, <1>4, <2>1, <3>1, <3>3 DEF KeyIsKept
        <3> QED
            BY <3>2, <3>3
    <2>2. CASE ~(installed[q] # Absent /\ installed[q].state = "Trusted")
        BY <1>1, <2>2 DEF KeyIsKept
    <2> QED
        BY <2>1, <2>2
<1> QED
    BY <1>1, <1>4, <1>5 DEF TrustOrder

LEMMA InstallKeepsTrust ==
    ASSUME Trust!TrustAssumption, TrustOrder,
           NEW p \in Signed, NEW a \in Trust!Archives,
           Trust!Install(p, a)
    PROVE  TrustOrder'
<1> DEFINE c == certs[a.publisher]
           o == IF a.block = "none"
                THEN [state |-> "Unsigned", publisher |-> Absent, key |-> Absent]
                ELSE [state |-> "Trusted", publisher |-> a.publisher, key |-> a.key]
<1>1. /\ installed' = [installed EXCEPT ![p] = o]
      /\ certs' = certs /\ now' = now
    BY DEF Trust!Install
<1>2. a.publisher \in Publishers /\ a.key \in Keys
    BY DEF Trust!Archives
<1>3. o \in Trust!Outcomes
    BY <1>2 DEF Trust!Outcomes
<1>4. a.block # "none" => c \in Trust!Certificates /\ c.key = a.key
    <2> SUFFICES ASSUME a.block # "none"
                 PROVE  c \in Trust!Certificates /\ c.key = a.key
        OBVIOUS
    <2>1. Absent # Torn
        BY DEF Trust!TrustAssumption
    <2>2. Decided(c, now, a) \in {"Trusted", "Unsigned"}
        BY VerdictIsDecided DEF Trust!Install, Trust!LetsIn
    <2>3. c \notin {Absent, Torn} /\ c.key = a.key
        BY <2>1, <2>2, VerdictsMean
    <2> QED
        BY <1>2, <2>3 DEF TrustOrder, Certs
<1>5. KeyIsKept(p, o)
    BY <1>2, <1>4 DEF KeyIsKept
<1> HIDE DEF o, c
<1>6. installed' \in [Signed -> Trust!Outcomes \cup {Absent}] /\ installed'[p] = o
    BY <1>1, <1>3 DEF TrustOrder
<1>7. \A q \in Signed : KeyIsKept(q, installed'[q])
    BY <1>1, <1>5, <1>6 DEF TrustOrder, KeyIsKept
<1> QED
    BY <1>1, <1>6, <1>7 DEF TrustOrder, KeyIsKept

LEMMA TrustStepKeeps ==
    ASSUME Trust!TrustAssumption, TrustOrder, Trust!TrustNext
    PROVE  TrustOrder'
<1>1. ASSUME NEW p \in Publishers, NEW out \in WriteOutcomes,
             \/ \E k \in Keys, t \in 0..MaxTime : Trust!AddCertificate(p, k, t, out)
             \/ Trust!RevokeCertificate(p, out)
      PROVE  TrustOrder'
    BY <1>1, AddKeepsTrust, RevokeKeepsTrust
<1>2. ASSUME NEW p \in Signed, NEW a \in Trust!Archives, Trust!Install(p, a)
      PROVE  TrustOrder'
    BY <1>2, InstallKeepsTrust
<1>3. CASE Trust!Tick
    BY <1>3 DEF Trust!Tick, TrustOrder, KeyIsKept
<1>4. CASE \/ \E v \in {"required", "optional"} : Trust!StartSetPolicy(v)
           \/ \E out \in WriteOutcomes \ {"failed"} : Trust!FinishSetPolicy(out)
           \/ Trust!CrashInSetPolicy
    <2>1. certs' = certs /\ installed' = installed /\ now' = now
        BY <1>4 DEF Trust!StartSetPolicy, Trust!FinishSetPolicy, Trust!CrashInSetPolicy
    <2> QED
        BY <2>1 DEF TrustOrder, KeyIsKept
<1> QED
    BY <1>1, <1>2, <1>3, <1>4 DEF Trust!TrustNext

TrustInv == subject = "trust" => TrustOrder

LEMMA TrustInvHolds == PlatformSpec => []TrustInv
<1>1. PlatformInit => TrustInv
    BY PlatformAssumption, TrustBegins DEF PlatformInit, TrustInv
<1>2. TrustInv /\ [PlatformNext]_allVars => TrustInv'
    <2> SUFFICES ASSUME TrustInv, [PlatformNext]_allVars, subject' = "trust"
                 PROVE  TrustOrder'
        BY DEF TrustInv
    <2>1. CASE TrustStep
        BY <2>1, PlatformAssumption, TrustStepKeeps DEF TrustStep, TrustInv
    <2>2. CASE ~TrustStep
        <3>1. subject' = subject /\ certs' = certs /\ now' = now /\ installed' = installed
            BY <2>2 DEF PlatformNext, ArchiveStep, TrustStep, ListStep, RecordStep, ManagerStep,
                        SearchStep, allVars, trustVars
        <3> QED
            BY <3>1 DEF TrustInv, TrustOrder, KeyIsKept
    <2> QED
        BY <2>1, <2>2
<1> QED
    BY <1>1, <1>2, PTL DEF PlatformSpec

\* TrustStore and verify_package_trust: whatever is added, revoked, expired, torn and
\* installed, in whatever order and for any publishers, keys and packages, a trusted
\* package keeps the key it was verified with, changed content is never anything but
\* Tampered and what cannot be read an error, and what the Trust Store answers is what
\* the verifier concludes.
THEOREM TrustHolds == PlatformSpec => []TrustIsRight
<1>1. TrustInv => TrustIsRight
    <2> SUFFICES ASSUME TrustOrder
                 PROVE  Trust!TrustIsRight
        BY DEF TrustInv, TrustIsRight
    <2>0. Absent # Torn /\ {Absent, Torn} \cap Trust!Certificates = {}
        BY PlatformAssumption DEF Trust!TrustAssumption
    <2>1. Trust!TrustedKeepsKey
        BY <2>0 DEF TrustOrder, KeyIsKept, Trust!TrustedKeepsKey
    <2>2. Trust!TamperedIsFinal
        BY <2>0, VerdictIsDecided, VerdictsMean DEF Trust!TamperedIsFinal
    <2>3. Trust!AnswersAgree
        <3> SUFFICES ASSUME NEW a \in Trust!Archives, a.block = "ok", a.content = "intact"
                     PROVE  LET p == a.publisher
                            IN  /\ Trust!GetCode(p) = "NOT_FOUND" <=> Trust!Verdict(a) = "UnknownPublisher"
                                /\ Trust!GetCode(p) = "OPERATION_FAILED" <=> Trust!Verdict(a) = "error"
                                /\ Trust!Verdict(a) = "Trusted" =>
                                      Trust!RevokeCode(p) = "NONE" /\ p \in Trust!ListCertificates
            BY DEF Trust!AnswersAgree
        <3> DEFINE p == a.publisher
                   c == certs[p]
        <3>1. p \in Publishers /\ c \in Trust!Certificates \cup {Absent, Torn}
            BY DEF Trust!Archives, TrustOrder, Certs
        <3>2. Trust!Verdict(a) = Decided(c, now, a)
            BY VerdictIsDecided
        <3>3. /\ Trust!Verdict(a) = "error" <=> c = Torn
              /\ Trust!Verdict(a) = "UnknownPublisher" <=> c = Absent
              /\ Trust!Verdict(a) = "Trusted" => c \notin {Absent, Torn} /\ ~c.revoked
            BY <2>0, <3>2, VerdictsMean
        <3>4. /\ Trust!GetCode(p) = "NOT_FOUND" <=> c = Absent
              /\ Trust!GetCode(p) = "OPERATION_FAILED" <=> c = Torn
              /\ c \notin {Absent, Torn} => Trust!GetCode(p) = "NONE"
            BY <2>0 DEF Trust!GetCode
        <3>5. Trust!Verdict(a) = "Trusted" =>
                  Trust!RevokeCode(p) = "NONE" /\ p \in Trust!ListCertificates
            BY <3>1, <3>3, <3>4 DEF Trust!RevokeCode, Trust!ListCertificates, Trust!CertLoads
        <3> QED
            BY <3>3, <3>4, <3>5
    <2> QED
        BY <2>1, <2>2, <2>3 DEF Trust!TrustIsRight
<1> QED
    BY <1>1, TrustInvHolds, PTL

\* What a step does to the certificate of an archive's publisher and to the clock, if
\* the archive becomes trusted by it.
LEMMA OnlyAddingTrusts ==
    ASSUME Trust!TrustAssumption, TrustOrder, Trust!TrustNext, TrustOrder',
           NEW a \in Trust!Archives,
           Decided(certs[a.publisher], now, a) # "Trusted",
           Decided(certs'[a.publisher], now', a) = "Trusted"
    PROVE  certs[a.publisher] = Absent /\ certs'[a.publisher].key = a.key
<1> DEFINE q == a.publisher
<1>0. Absent # Torn /\ {Absent, Torn} \cap Trust!Certificates = {} /\ q \in Publishers
    BY DEF Trust!TrustAssumption, Trust!Archives
<1>1. /\ a.block = "ok" /\ a.content = "intact" /\ a.holds
      /\ certs'[q] \notin {Absent, Torn} /\ ~certs'[q].revoked /\ ~(certs'[q].expires < now')
      /\ certs'[q].key = a.key
    BY <1>0, VerdictsMean
<1>2. ~(/\ certs[q] \notin {Absent, Torn} /\ ~certs[q].revoked /\ ~(certs[q].expires < now)
        /\ certs[q].key = a.key)
    BY <1>0, <1>1, VerdictsMean
<1>3. ~(certs'[q] = certs[q] /\ now' = now)
    BY <1>1, <1>2
<1>4. ASSUME NEW p \in Publishers, NEW out \in WriteOutcomes, NEW k \in Keys,
             NEW t \in 0..MaxTime, Trust!AddCertificate(p, k, t, out)
      PROVE  certs[q] = Absent
    <2>1. now' = now /\ certs[p] = Absent /\ p = q
        BY <1>3, <1>4 DEF Trust!AddCertificate, TrustOrder, Certs
    <2> QED
        BY <2>1
<1>5. ASSUME NEW p \in Publishers, NEW out \in WriteOutcomes, Trust!RevokeCertificate(p, out)
      PROVE  FALSE
    <2> DEFINE c == [certs[p] EXCEPT !.revoked = TRUE]
    <2>1. /\ certs[p] \in Trust!Certificates
          /\ certs' = [certs EXCEPT ![p] = Trust!Written(c, out)] /\ now' = now
        BY <1>5 DEF Trust!RevokeCertificate, Trust!CertLoads
    <2>2. c \in Trust!Certificates /\ c.revoked
        BY <2>1 DEF Trust!Certificates
    <2> HIDE DEF c
    <2>3. Trust!Written(c, out) = Torn \/ Trust!Written(c, out) = c
        BY <2>2, CertificateWritten
    <2>4. p = q
        BY <1>3, <2>1 DEF TrustOrder, Certs
    <2>5. certs'[q] = Torn \/ certs'[q] = c
        BY <1>0, <2>1, <2>3, <2>4 DEF TrustOrder, Certs
    <2> QED
        BY <1>1, <2>2, <2>5
<1>6. ~Trust!Tick
    <2> SUFFICES ASSUME Trust!Tick
                 PROVE  FALSE
        OBVIOUS
    <2>1. certs' = certs /\ now' = now + 1 /\ now \in Nat
        BY DEF Trust!Tick, TrustOrder
    <2>2. certs[q] \in Trust!Certificates
        BY <1>0, <1>1, <2>1 DEF TrustOrder, Certs
    <2>3. certs[q].expires \in Nat
        BY <2>2 DEF Trust!Certificates, Trust!TrustAssumption
    <2>4. certs[q].expires < now
        BY <1>1, <1>2, <2>1
    <2> QED
        BY <1>1, <2>1, <2>3, <2>4
<1>7. ASSUME \/ \E v \in {"required", "optional"} : Trust!StartSetPolicy(v)
             \/ \E out \in WriteOutcomes \ {"failed"} : Trust!FinishSetPolicy(out)
             \/ \E p \in Signed, b \in Trust!Archives : Trust!Install(p, b)
             \/ Trust!CrashInSetPolicy
      PROVE  FALSE
    <2>1. certs' = certs /\ now' = now
        BY <1>7 DEF Trust!StartSetPolicy, Trust!FinishSetPolicy, Trust!Install,
                    Trust!CrashInSetPolicy
    <2> QED
        BY <1>3, <2>1
<1>8. certs[q] = Absent
    BY <1>4, <1>5, <1>6, <1>7 DEF Trust!TrustNext
<1> QED
    BY <1>1, <1>8

\* TrustStore: nothing but adding its publisher's certificate makes an archive trusted
\* that was not - no revocation, expiry, torn file, policy, install or crash.
THEOREM OnlyAddingMakesTrusted == PlatformSpec => TrustOnlyByAdding
<1>1. TrustInv /\ TrustInv' /\ [PlatformNext]_allVars =>
          [subject = "trust" => Trust!TrustsOnlyAdded]_allVars
    <2> SUFFICES ASSUME TrustInv, TrustInv', PlatformNext, subject = "trust",
                        NEW a \in Trust!Archives,
                        Trust!Verdict(a) # "Trusted", Trust!Verdict(a)' = "Trusted"
                 PROVE  certs[a.publisher] = Absent /\ certs'[a.publisher].key = a.key
        BY DEF Trust!TrustsOnlyAdded
    <2>1. TrustStep /\ subject' = "trust"
        BY DEF PlatformNext, ArchiveStep, TrustStep, ListStep, RecordStep, ManagerStep,
               SearchStep
    <2>2. Trust!TrustNext /\ TrustOrder /\ TrustOrder'
        BY <2>1 DEF TrustStep, TrustInv
    <2>3. /\ Trust!Verdict(a) = Decided(certs[a.publisher], now, a)
          /\ Trust!Verdict(a)' = Decided(certs'[a.publisher], now', a)
        BY Zenon DEF Trust!Verdict, Trust!Failed, Trust!Verdicts, Decided, Found
    <2> QED
        BY <2>2, <2>3, PlatformAssumption, OnlyAddingTrusts
<1> QED
    BY <1>1, TrustInvHolds, PTL DEF PlatformSpec, TrustOnlyByAdding

-----------------------------------------------------------------------------
(* Archives, templates and rebuilds. *)

FileRecords ==
    [fault : Faults, meta : {"none", "source", "new", "foreign"},
     objects : SUBSET ObjectRecords, rels : SUBSET RelRecords, audit : SUBSET EventRecords,
     packages : SUBSET Packages]

ArchiveTypeOK ==
    /\ StoresTypeOK
    /\ archive \in FileRecords \cup {Absent, Torn}
    /\ templates \in [TemplateIds -> FileRecords \cup {Absent, Torn}]
    /\ destObjects \in [ObjectIds -> ObjectFiles]
    /\ destRels \in [RelIds -> RelFiles]
    /\ destAudit \in [Entities -> AuditEvents \cup {Torn}]
    /\ job \in FileRecords
    /\ wanted \in FileRecords

\* Exactly the records done are in the files x of ids, but for what a short write tore.
Restored(ids, done, x, t) ==
    /\ \A e \in done : x[e.id] \in {e.value, Torn}
    /\ \A i \in ids : x[i] # Absent => \E e \in done : e.id = i
    /\ \A i \in ids : x[i] = Torn => t = "short"

\* The same of events.
EventsRestored(done, x, t) ==
    /\ \A e \in done : x[e.id] \in {e.event, Torn}
    /\ \A i \in Entities : x[i] # "None" => \E e \in done : e.id = i
    /\ \A i \in Entities : x[i] = Torn => t = "short"

\* The destination xo, xr, xa, xp of a rebuild of w of which j is still to do.
Progress(w, j, xo, xr, xa, xp, t) ==
    /\ j.meta = w.meta
    /\ j.objects \subseteq w.objects /\ j.rels \subseteq w.rels
    /\ j.audit \subseteq w.audit /\ j.packages \subseteq w.packages
    /\ Restored(ObjectIds, w.objects \ j.objects, xo, t)
    /\ Restored(RelIds, w.rels \ j.rels, xr, t)
    /\ EventsRestored(w.audit \ j.audit, xa, t)
    /\ xp \subseteq w.packages
    /\ t # "short" => w.packages \ j.packages \subseteq xp

RebuildInProgress ==
    /\ phase \in {"metadata", "restore"} =>
          Progress(wanted, job, destObjects, destRels, destAudit, destPackages, touched)
    /\ phase = "restore" /\ touched # "short" => destMeta = Meta(wanted.meta, "now")
    /\ phase = "clear" => job = wanted
    /\ phase # "idle" => reply = "none"

ArchiveOrder == ArchiveTypeOK /\ RebuildInProgress /\ RebuildIsFaithful

USE StoresAssumption, ArchiveAssumption

LEMMA RecordsLoad ==
    /\ \A e \in ObjectRecords : e.id \in ObjectIds /\ e.value \in Contents \cup {Invalid}
    /\ \A e \in RelRecords : e.id \in RelIds /\ e.value \in Relationships
    /\ \A e \in ObjectRecords \cup RelRecords : e.value \notin {Absent, Torn}
    BY DEF ObjectRecords, RelRecords

LEMMA EventsLoad ==
    /\ \A e \in EventRecords : e.id \in Entities /\ e.event \notin {"None", Torn}
    /\ \A e \in EventRecords : e.event # Invalid => e.event \in AuditEvents
    BY DEF EventRecords, AuditEvents

LEMMA FileFields ==
    ASSUME NEW f \in FileRecords
    PROVE  /\ f.objects \subseteq ObjectRecords /\ f.rels \subseteq RelRecords
           /\ f.audit \subseteq EventRecords
           /\ f.packages \subseteq Packages /\ f.fault \in Faults
    BY DEF FileRecords

\* One more record is restored, into a file that is not there.
LEMMA RestoreOne ==
    ASSUME NEW ids, NEW done, NEW x, NEW t, Restored(ids, done, x, t),
           \A f \in done : f.id \in ids /\ f.value # Absent,
           NEW e, e.id \in ids, x[e.id] = Absent,
           NEW v \in {e.value, Torn},
           NEW x2, \A i \in ids : x2[i] = IF i = e.id THEN v ELSE x[i],
           NEW t2, t = "short" => t2 = "short", v = Torn => t2 = "short"
    PROVE  Restored(ids, done \cup {e}, x2, t2)
<1>1. \A f \in done : f.id # e.id
    BY DEF Restored
<1>2. \A f \in done \cup {e} : x2[f.id] \in {f.value, Torn}
    BY <1>1 DEF Restored
<1>3. \A i \in ids : x2[i] # Absent => \E f \in done \cup {e} : f.id = i
    BY DEF Restored
<1>4. \A i \in ids : x2[i] = Torn => t2 = "short"
    BY DEF Restored
<1> QED
    BY <1>2, <1>3, <1>4 DEF Restored

\* What does not touch the destination nor what is left to do.
LEMMA RestoredStays ==
    ASSUME NEW ids, NEW done, NEW x, NEW t, Restored(ids, done, x, t),
           NEW t2, t = "short" => t2 = "short"
    PROVE  Restored(ids, done, x, t2)
    BY DEF Restored

\* Event e is put, as v, into the files x, which become x2.
EventPut(x, t, e, v, x2, t2) ==
    /\ e.id \in Entities /\ x[e.id] = "None" /\ v \in {e.event, Torn}
    /\ \A i \in Entities : x2[i] = IF i = e.id THEN v ELSE x[i]
    /\ t = "short" => t2 = "short"
    /\ v = Torn => t2 = "short"

LEMMA RestoreOneEvent ==
    ASSUME NEW done, NEW x, NEW t, EventsRestored(done, x, t),
           \A f \in done : f.id \in Entities /\ f.event # "None",
           NEW e, NEW v, NEW x2, NEW t2, EventPut(x, t, e, v, x2, t2)
    PROVE  EventsRestored(done \cup {e}, x2, t2)
<1> USE DEF EventPut
<1>0. Torn # "None"
    BY DEF AuditEvents
<1>1. \A f \in done : f.id # e.id
    BY <1>0 DEF EventsRestored
<1>2. \A f \in done \cup {e} : x2[f.id] \in {f.event, Torn}
    BY <1>1 DEF EventsRestored
<1>3. \A i \in Entities : x2[i] # "None" => \E f \in done \cup {e} : f.id = i
    BY DEF EventsRestored
<1>4. \A i \in Entities : x2[i] = Torn => t2 = "short"
    BY DEF EventsRestored
<1> QED
    BY <1>2, <1>3, <1>4 DEF EventsRestored

LEMMA EventsStay ==
    ASSUME NEW done, NEW x, NEW t, EventsRestored(done, x, t),
           NEW t2, t = "short" => t2 = "short"
    PROVE  EventsRestored(done, x, t2)
    BY DEF EventsRestored

\* How touched grows.
LEMMA TouchGrows ==
    ASSUME NEW out, Touch(out)
    PROVE  /\ touched = "short" => touched' = "short"
           /\ out = "torn" => touched' = "short"
    BY DEF Touch

LEMMA RestoreObjectKeeps ==
    ASSUME ArchiveOrder, NEW e \in job.objects, NEW out \in WriteOutcomes, RestoreObject(e, out)
    PROVE  ArchiveOrder'
<1>1. /\ phase = "restore" /\ phase' = phase /\ e.value # Invalid /\ destObjects[e.id] = Absent
      /\ destObjects' = [destObjects EXCEPT ![e.id] = Dest!Written(e.value, out)]
      /\ destRels' = destRels /\ destAudit' = destAudit /\ destPackages' = destPackages
      /\ destMeta' = destMeta
      /\ job' = [job EXCEPT !.objects = @ \ {e}]
      /\ Touch(out)
      /\ UNCHANGED <<storeVars, archive, templates, overwrite, reply, wanted, wreck>>
    BY DEF RestoreObject, Dest!ObjectRestore, Dest!NoEvent, KeepOn, sourceVars, fileVars
<1>2. ArchiveTypeOK /\ RebuildInProgress /\ RebuildIsFaithful
    BY DEF ArchiveOrder
<1>3. Progress(wanted, job, destObjects, destRels, destAudit, destPackages, touched) /\ reply = "none"
    BY <1>1, <1>2 DEF RebuildInProgress
<1>4. /\ job \in FileRecords /\ wanted \in FileRecords
      /\ e \in ObjectRecords /\ e.id \in ObjectIds /\ e.value \in Contents
    BY <1>1, <1>2, FileFields, RecordsLoad DEF ArchiveTypeOK
<1> DEFINE v == Dest!Written(e.value, out)
<1>5. v \in {e.value, Torn} /\ (v = Torn => out = "torn")
    BY <1>4 DEF Dest!Written
<1> HIDE DEF v
<1>6. /\ destObjects' \in [ObjectIds -> ObjectFiles]
      /\ \A i \in ObjectIds : destObjects'[i] = IF i = e.id THEN v ELSE destObjects[i]
    BY <1>1, <1>2, <1>4, <1>5 DEF ArchiveTypeOK, ObjectFiles, v
<1>7. /\ job' \in FileRecords /\ job'.objects = job.objects \ {e} /\ job'.rels = job.rels
      /\ job'.audit = job.audit /\ job'.packages = job.packages
      /\ job'.meta = job.meta
    BY <1>1, <1>4 DEF FileRecords
<1>8. ArchiveTypeOK'
    BY <1>1, <1>2, <1>6, <1>7 DEF ArchiveTypeOK, StoresTypeOK, storeVars
<1>9. Progress(wanted', job', destObjects', destRels', destAudit', destPackages', touched')
    <2>1. wanted.objects \ job'.objects = (wanted.objects \ job.objects) \cup {e}
        BY <1>3, <1>7 DEF Progress
    <2>2. \A f \in wanted.objects \ job.objects : f.id \in ObjectIds /\ f.value # Absent
        BY <1>4, FileFields, RecordsLoad
    <2>3. Restored(ObjectIds, wanted.objects \ job'.objects, destObjects', touched')
        <3>1. Restored(ObjectIds, wanted.objects \ job.objects, destObjects, touched)
            BY <1>3 DEF Progress
        <3> DEFINE done == wanted.objects \ job.objects
        <3>2. (touched = "short" => touched' = "short") /\ (v = Torn => touched' = "short")
            BY <1>1, <1>5, TouchGrows
        <3>3. \A f \in done : f.id \in ObjectIds /\ f.value # Absent
            BY <2>2
        <3> HIDE DEF done
        <3>4. Restored(ObjectIds, done \cup {e}, destObjects', touched')
            BY <1>1, <1>4, <1>5, <1>6, <3>1, <3>2, <3>3, RestoreOne DEF done
        <3> QED
            BY <3>4, <2>1 DEF done
    <2>4. Restored(RelIds, wanted.rels \ job'.rels, destRels', touched')
        <3>1. Restored(RelIds, wanted.rels \ job.rels, destRels, touched)
            BY <1>3 DEF Progress
        <3> QED
            BY <1>1, <1>7, <3>1, TouchGrows, RestoredStays
    <2>5. EventsRestored(wanted.audit \ job'.audit, destAudit', touched')
        <3>1. EventsRestored(wanted.audit \ job.audit, destAudit, touched)
            BY <1>3 DEF Progress
        <3> QED
            BY <1>1, <1>7, <3>1, TouchGrows, EventsStay
    <2> QED
        BY <1>1, <1>3, <1>7, <2>3, <2>4, <2>5, TouchGrows DEF Progress
<1>10. RebuildInProgress'
    BY <1>1, <1>2, <1>3, <1>9, TouchGrows DEF RebuildInProgress
<1>11. DestinationNeverDangles'
    <2> SUFFICES ASSUME ~wreck, NEW r \in RelIds, destRels[r] \in Relationships
                 PROVE  /\ destObjects'[destRels[r].src] \in Contents
                        /\ destObjects'[destRels[r].dst] \in Contents
        BY <1>1 DEF DestinationNeverDangles, Dest!RelLoads, Dest!EndpointsLoad,
                    Dest!ObjectLoads, Dest!Relationships, Relationships
    <2>1. /\ destRels[r].src \in ObjectIds /\ destObjects[destRels[r].src] \in Contents
          /\ destRels[r].dst \in ObjectIds /\ destObjects[destRels[r].dst] \in Contents
        BY <1>2 DEF RebuildIsFaithful, DestinationNeverDangles, Dest!RelLoads,
                    Dest!EndpointsLoad, Dest!ObjectLoads, Dest!Relationships, Relationships
    <2> QED
        BY <1>1, <1>6, <2>1
<1>12. SuccessIsExact' /\ ConsistentIsRestored'
    BY <1>1, <1>3 DEF SuccessIsExact, ConsistentIsRestored
<1> QED
    BY <1>8, <1>10, <1>11, <1>12 DEF ArchiveOrder, RebuildIsFaithful

LEMMA RestoreRelKeeps ==
    ASSUME ArchiveOrder, NEW e \in job.rels, NEW out \in WriteOutcomes, RestoreRel(e, out)
    PROVE  ArchiveOrder'
<1>1. /\ phase = "restore" /\ phase' = phase /\ Dest!RelFits(e.id, e.value)
      /\ destRels' = [destRels EXCEPT ![e.id] = Dest!Written(e.value, out)]
      /\ destObjects' = destObjects /\ destAudit' = destAudit /\ destPackages' = destPackages
      /\ destMeta' = destMeta
      /\ job' = [job EXCEPT !.rels = @ \ {e}]
      /\ Touch(out)
      /\ UNCHANGED <<storeVars, archive, templates, overwrite, reply, wanted, wreck>>
    BY DEF RestoreRel, Dest!RelRestore, Dest!NoEvent, KeepOn, sourceVars, fileVars
<1>2. ArchiveTypeOK /\ RebuildInProgress /\ RebuildIsFaithful
    BY DEF ArchiveOrder
<1>3. Progress(wanted, job, destObjects, destRels, destAudit, destPackages, touched) /\ reply = "none"
    BY <1>1, <1>2 DEF RebuildInProgress
<1>4. /\ job \in FileRecords /\ wanted \in FileRecords
      /\ e \in RelRecords /\ e.id \in RelIds /\ e.value \in Relationships
    BY <1>1, <1>2, FileFields, RecordsLoad DEF ArchiveTypeOK
<1> DEFINE v == Dest!Written(e.value, out)
<1>5. v \in {e.value, Torn} /\ (v = Torn => out = "torn")
    BY <1>4 DEF Dest!Written
<1> HIDE DEF v
<1>6. /\ destRels' \in [RelIds -> RelFiles]
      /\ \A i \in RelIds : destRels'[i] = IF i = e.id THEN v ELSE destRels[i]
    BY <1>1, <1>2, <1>4, <1>5 DEF ArchiveTypeOK, RelFiles, v
<1>7. /\ job' \in FileRecords /\ job'.rels = job.rels \ {e} /\ job'.objects = job.objects
      /\ job'.audit = job.audit /\ job'.packages = job.packages
      /\ job'.meta = job.meta
    BY <1>1, <1>4 DEF FileRecords
<1>8. ArchiveTypeOK'
    BY <1>1, <1>2, <1>6, <1>7 DEF ArchiveTypeOK, StoresTypeOK, storeVars
<1>9. Progress(wanted', job', destObjects', destRels', destAudit', destPackages', touched')
    <2>1. wanted.rels \ job'.rels = (wanted.rels \ job.rels) \cup {e}
        BY <1>3, <1>7 DEF Progress
    <2>2. \A f \in wanted.rels \ job.rels : f.id \in RelIds /\ f.value # Absent
        BY <1>4, FileFields, RecordsLoad
    <2>3. Restored(RelIds, wanted.rels \ job'.rels, destRels', touched')
        <3>1. Restored(RelIds, wanted.rels \ job.rels, destRels, touched)
            BY <1>3 DEF Progress
        <3> DEFINE done == wanted.rels \ job.rels
        <3>2. (touched = "short" => touched' = "short") /\ (v = Torn => touched' = "short")
            BY <1>1, <1>5, TouchGrows
        <3>3. \A f \in done : f.id \in RelIds /\ f.value # Absent
            BY <2>2
        <3>4. destRels[e.id] = Absent
            BY <1>1 DEF Dest!RelFits
        <3> HIDE DEF done
        <3>5. Restored(RelIds, done \cup {e}, destRels', touched')
            BY <1>4, <1>5, <1>6, <3>1, <3>2, <3>3, <3>4, RestoreOne DEF done
        <3> QED
            BY <3>5, <2>1 DEF done
    <2>4. Restored(ObjectIds, wanted.objects \ job'.objects, destObjects', touched')
        <3>1. Restored(ObjectIds, wanted.objects \ job.objects, destObjects, touched)
            BY <1>3 DEF Progress
        <3> QED
            BY <1>1, <1>7, <3>1, TouchGrows, RestoredStays
    <2>5. EventsRestored(wanted.audit \ job'.audit, destAudit', touched')
        <3>1. EventsRestored(wanted.audit \ job.audit, destAudit, touched)
            BY <1>3 DEF Progress
        <3> QED
            BY <1>1, <1>7, <3>1, TouchGrows, EventsStay
    <2> QED
        BY <1>1, <1>3, <1>7, <2>3, <2>4, <2>5, TouchGrows DEF Progress
<1>10. RebuildInProgress'
    BY <1>1, <1>2, <1>3, <1>9, TouchGrows DEF RebuildInProgress
<1>11. DestinationNeverDangles'
    <2> SUFFICES ASSUME ~wreck, NEW r \in RelIds, destRels'[r] \in Relationships
                 PROVE  /\ destObjects[destRels'[r].src] \in Contents
                        /\ destObjects[destRels'[r].dst] \in Contents
        BY <1>1 DEF DestinationNeverDangles, Dest!RelLoads, Dest!EndpointsLoad,
                    Dest!ObjectLoads, Dest!Relationships, Relationships
    <2>1. CASE r = e.id
        <3>1. destRels'[r] = e.value
            BY <1>4, <1>5, <1>6, <2>1
        <3> QED
            BY <1>1, <3>1 DEF Dest!RelFits, Dest!EndpointsLoad, Dest!ObjectLoads
    <2>2. CASE r # e.id
        BY <1>2, <1>6, <2>2
        DEF RebuildIsFaithful, DestinationNeverDangles, Dest!RelLoads,
            Dest!EndpointsLoad, Dest!ObjectLoads, Dest!Relationships, Relationships
    <2> QED
        BY <2>1, <2>2
<1>12. SuccessIsExact' /\ ConsistentIsRestored'
    BY <1>1, <1>3 DEF SuccessIsExact, ConsistentIsRestored
<1> QED
    BY <1>8, <1>10, <1>11, <1>12 DEF ArchiveOrder, RebuildIsFaithful

\* Nothing but the objects and relationships of the destination can dangle.
LEMMA NothingDangles ==
    ASSUME DestinationNeverDangles, UNCHANGED <<destObjects, destRels, wreck>>
    PROVE  DestinationNeverDangles'
    BY DEF DestinationNeverDangles, Dest!RelLoads, Dest!EndpointsLoad, Dest!ObjectLoads

LEMMA RestoreEventKeeps ==
    ASSUME ArchiveOrder, NEW e \in job.audit, NEW out \in WriteOutcomes, RestoreEvent(e, out)
    PROVE  ArchiveOrder'
<1>1. /\ phase = "restore" /\ phase' = phase /\ e.event # Invalid /\ destAudit[e.id] = "None"
      /\ destAudit' = [destAudit EXCEPT ![e.id] = Written(e.event, out)]
      /\ destObjects' = destObjects /\ destRels' = destRels /\ destPackages' = destPackages
      /\ destMeta' = destMeta
      /\ job' = [job EXCEPT !.audit = @ \ {e}]
      /\ Touch(out)
      /\ UNCHANGED <<storeVars, archive, templates, overwrite, reply, wanted, wreck>>
    BY DEF RestoreEvent, KeepOn, sourceVars, fileVars
<1>2. ArchiveTypeOK /\ RebuildInProgress /\ RebuildIsFaithful
    BY DEF ArchiveOrder
<1>3. Progress(wanted, job, destObjects, destRels, destAudit, destPackages, touched) /\ reply = "none"
    BY <1>1, <1>2 DEF RebuildInProgress
<1>4. /\ job \in FileRecords /\ wanted \in FileRecords
      /\ e \in EventRecords /\ e.id \in Entities /\ e.event \in AuditEvents
    BY <1>1, <1>2, FileFields, EventsLoad DEF ArchiveTypeOK
<1> DEFINE v == Written(e.event, out)
<1>4a. v \in {e.event, Torn} /\ (v = Torn => out = "torn")
    BY <1>4, EventsLoad DEF Written
<1> HIDE DEF v
<1>5. /\ destAudit' \in [Entities -> AuditEvents \cup {Torn}]
      /\ \A i \in Entities : destAudit'[i] = IF i = e.id THEN v ELSE destAudit[i]
    BY <1>1, <1>2, <1>4, <1>4a DEF ArchiveTypeOK, v
<1>6. /\ job' \in FileRecords /\ job'.audit = job.audit \ {e} /\ job'.objects = job.objects
      /\ job'.rels = job.rels /\ job'.packages = job.packages
      /\ job'.meta = job.meta
    BY <1>1, <1>4 DEF FileRecords
<1>7. ArchiveTypeOK'
    BY <1>1, <1>2, <1>5, <1>6 DEF ArchiveTypeOK, StoresTypeOK, storeVars
<1>8. Progress(wanted', job', destObjects', destRels', destAudit', destPackages', touched')
    <2>1. wanted.audit \ job'.audit = (wanted.audit \ job.audit) \cup {e}
        BY <1>3, <1>6 DEF Progress
    <2>2. \A f \in wanted.audit \ job.audit : f.id \in Entities /\ f.event # "None"
        BY <1>4, FileFields, EventsLoad
    <2>3. EventsRestored(wanted.audit \ job'.audit, destAudit', touched')
        <3>1. EventsRestored(wanted.audit \ job.audit, destAudit, touched)
            BY <1>3 DEF Progress
        <3> DEFINE done == wanted.audit \ job.audit
        <3>2. (touched = "short" => touched' = "short") /\ (v = Torn => touched' = "short")
            BY <1>1, <1>4a, TouchGrows
        <3>3. \A f \in done : f.id \in Entities /\ f.event # "None"
            BY <2>2
        <3> HIDE DEF done
        <3>4. EventsRestored(done \cup {e}, destAudit', touched')
            <4>1. EventPut(destAudit, touched, e, v, destAudit', touched')
                BY <1>1, <1>4, <1>4a, <1>5, <3>2 DEF EventPut
            <4>2. EventsRestored(done, destAudit, touched)
                BY <3>1 DEF done
            <4> QED
                BY <3>3, <4>1, <4>2, RestoreOneEvent
        <3> QED
            BY <3>4, <2>1 DEF done
    <2>4. Restored(ObjectIds, wanted.objects \ job'.objects, destObjects', touched')
        <3>1. Restored(ObjectIds, wanted.objects \ job.objects, destObjects, touched)
            BY <1>3 DEF Progress
        <3> QED
            BY <1>1, <1>6, <3>1, TouchGrows, RestoredStays
    <2>5. Restored(RelIds, wanted.rels \ job'.rels, destRels', touched')
        <3>1. Restored(RelIds, wanted.rels \ job.rels, destRels, touched)
            BY <1>3 DEF Progress
        <3> QED
            BY <1>1, <1>6, <3>1, TouchGrows, RestoredStays
    <2> QED
        BY <1>1, <1>3, <1>6, <2>3, <2>4, <2>5, TouchGrows DEF Progress
<1>9. RebuildInProgress'
    BY <1>1, <1>2, <1>3, <1>8, TouchGrows DEF RebuildInProgress
<1>10. RebuildIsFaithful'
    BY <1>1, <1>2, <1>3, NothingDangles
    DEF RebuildIsFaithful, SuccessIsExact, ConsistentIsRestored
<1> QED
    BY <1>7, <1>9, <1>10 DEF ArchiveOrder

LEMMA RestorePackageKeeps ==
    ASSUME ArchiveOrder, NEW p \in job.packages, NEW out \in WriteOutcomes, RestorePackage(p, out)
    PROVE  ArchiveOrder'
<1>1. /\ phase = "restore" /\ phase' = phase
      /\ destPackages' = IF out = "torn" THEN destPackages ELSE destPackages \cup {p}
      /\ destObjects' = destObjects /\ destRels' = destRels /\ destAudit' = destAudit
      /\ destMeta' = destMeta
      /\ job' = [job EXCEPT !.packages = @ \ {p}]
      /\ Touch(out)
      /\ UNCHANGED <<storeVars, archive, templates, overwrite, reply, wanted, wreck>>
    BY DEF RestorePackage, KeepOn, sourceVars, fileVars
<1>2. ArchiveTypeOK /\ RebuildInProgress /\ RebuildIsFaithful
    BY DEF ArchiveOrder
<1>3. Progress(wanted, job, destObjects, destRels, destAudit, destPackages, touched) /\ reply = "none"
    BY <1>1, <1>2 DEF RebuildInProgress
<1>4. job \in FileRecords /\ wanted \in FileRecords
    BY <1>2 DEF ArchiveTypeOK
<1>5. /\ job' \in FileRecords /\ job'.packages = job.packages \ {p}
      /\ job'.objects = job.objects /\ job'.rels = job.rels /\ job'.audit = job.audit
      /\ job'.meta = job.meta
    BY <1>1, <1>4 DEF FileRecords
<1>6. ArchiveTypeOK'
    BY <1>1, <1>2, <1>5 DEF ArchiveTypeOK, StoresTypeOK, storeVars
<1>7. Progress(wanted', job', destObjects', destRels', destAudit', destPackages', touched')
    <2>1. /\ destPackages' \subseteq wanted.packages
          /\ touched' # "short" => wanted.packages \ job'.packages \subseteq destPackages'
        BY <1>1, <1>3, <1>5, TouchGrows DEF Progress
    <2>2. Restored(ObjectIds, wanted.objects \ job'.objects, destObjects', touched')
        <3>1. Restored(ObjectIds, wanted.objects \ job.objects, destObjects, touched)
            BY <1>3 DEF Progress
        <3> QED
            BY <1>1, <1>5, <3>1, TouchGrows, RestoredStays
    <2>3. Restored(RelIds, wanted.rels \ job'.rels, destRels', touched')
        <3>1. Restored(RelIds, wanted.rels \ job.rels, destRels, touched)
            BY <1>3 DEF Progress
        <3> QED
            BY <1>1, <1>5, <3>1, TouchGrows, RestoredStays
    <2>4. EventsRestored(wanted.audit \ job'.audit, destAudit', touched')
        <3>1. EventsRestored(wanted.audit \ job.audit, destAudit, touched)
            BY <1>3 DEF Progress
        <3> QED
            BY <1>1, <1>5, <3>1, TouchGrows, EventsStay
    <2> QED
        BY <1>1, <1>3, <1>5, <2>1, <2>2, <2>3, <2>4, TouchGrows DEF Progress
<1>8. RebuildInProgress'
    BY <1>1, <1>2, <1>3, <1>7, TouchGrows DEF RebuildInProgress
<1>9. RebuildIsFaithful'
    BY <1>1, <1>2, <1>3, NothingDangles
    DEF RebuildIsFaithful, SuccessIsExact, ConsistentIsRestored
<1> QED
    BY <1>6, <1>8, <1>9 DEF ArchiveOrder

LEMMA SaveMetadataKeeps ==
    ASSUME ArchiveOrder, NEW out \in WriteOutcomes, SaveMetadata(out)
    PROVE  ArchiveOrder'
<1>1. /\ phase = "metadata" /\ phase' = "restore" /\ job' = job
      /\ destMeta' = IF out = "torn" THEN Meta("torn", "now") ELSE Meta(job.meta, "now")
      /\ destObjects' = destObjects /\ destRels' = destRels /\ destAudit' = destAudit
      /\ destPackages' = destPackages
      /\ Touch(out)
      /\ UNCHANGED <<storeVars, archive, templates, overwrite, reply, wanted, wreck>>
    BY DEF SaveMetadata, KeepOn, sourceVars, fileVars
<1>2. ArchiveTypeOK /\ RebuildInProgress /\ RebuildIsFaithful
    BY DEF ArchiveOrder
<1>3. Progress(wanted, job, destObjects, destRels, destAudit, destPackages, touched) /\ reply = "none"
    BY <1>1, <1>2 DEF RebuildInProgress
<1>4. ArchiveTypeOK'
    BY <1>1, <1>2 DEF ArchiveTypeOK, StoresTypeOK, storeVars
<1>5. Progress(wanted', job', destObjects', destRels', destAudit', destPackages', touched')
    <2>1. Restored(ObjectIds, wanted.objects \ job.objects, destObjects, touched')
        <3>1. Restored(ObjectIds, wanted.objects \ job.objects, destObjects, touched)
            BY <1>3 DEF Progress
        <3> QED
            BY <1>1, <3>1, TouchGrows, RestoredStays
    <2>2. Restored(RelIds, wanted.rels \ job.rels, destRels, touched')
        <3>1. Restored(RelIds, wanted.rels \ job.rels, destRels, touched)
            BY <1>3 DEF Progress
        <3> QED
            BY <1>1, <3>1, TouchGrows, RestoredStays
    <2>3. EventsRestored(wanted.audit \ job.audit, destAudit, touched')
        <3>1. EventsRestored(wanted.audit \ job.audit, destAudit, touched)
            BY <1>3 DEF Progress
        <3> QED
            BY <1>1, <3>1, TouchGrows, EventsStay
    <2> QED
        BY <1>1, <1>3, <2>1, <2>2, <2>3, TouchGrows DEF Progress
<1>6. RebuildInProgress'
    <2>1. touched' # "short" => destMeta' = Meta(wanted'.meta, "now")
        BY <1>1, <1>3, TouchGrows DEF Progress
    <2> QED
        BY <1>1, <1>3, <1>5, <2>1 DEF RebuildInProgress
<1>7. RebuildIsFaithful'
    BY <1>1, <1>2, <1>3, NothingDangles
    DEF RebuildIsFaithful, SuccessIsExact, ConsistentIsRestored
<1> QED
    BY <1>4, <1>6, <1>7 DEF ArchiveOrder

\* Nothing is done yet at an empty destination.
LEMMA NothingDone ==
    ASSUME NEW w, NEW xo, NEW xr, NEW xa, NEW t,
           \A i \in ObjectIds : xo[i] = Absent, \A i \in RelIds : xr[i] = Absent,
           \A e \in Entities : xa[e] = "None"
    PROVE  Progress(w, w, xo, xr, xa, {}, t)
    BY DEF Progress, Restored, EventsRestored, AuditEvents

LEMMA ClearKeeps == ASSUME ArchiveOrder, Clear PROVE ArchiveOrder'
<1>1. /\ phase = "clear" /\ phase' = "metadata" /\ Cleared /\ wreck' = FALSE
      /\ UNCHANGED <<storeVars, archive, templates, overwrite, reply, wanted, job>>
    BY DEF Clear, KeepOn, sourceVars, fileVars
<1>2. /\ destObjects' = [o \in ObjectIds |-> Absent]
      /\ destRels' = [r \in RelIds |-> Absent]
      /\ destAudit' = [e \in Entities |-> "None"]
      /\ destPackages' = {}
    BY <1>1 DEF Cleared
<1>3. ArchiveTypeOK /\ RebuildInProgress /\ job = wanted /\ reply = "none"
    BY <1>1 DEF ArchiveOrder, RebuildInProgress
<1>4. ArchiveTypeOK'
    BY <1>1, <1>2, <1>3 DEF ArchiveTypeOK, StoresTypeOK, storeVars, ObjectFiles, RelFiles, AuditEvents
<1>5. /\ \A i \in ObjectIds : destObjects'[i] = Absent
      /\ \A i \in RelIds : destRels'[i] = Absent
      /\ \A e \in Entities : destAudit'[e] = "None"
    BY <1>2
<1>6. Progress(wanted', job', destObjects', destRels', destAudit', destPackages', touched')
    <2>1. Progress(wanted', wanted', destObjects', destRels', destAudit', {}, touched')
        BY <1>5, NothingDone
    <2> QED
        BY <1>1, <1>2, <1>3, <2>1
<1>7. RebuildInProgress'
    BY <1>1, <1>3, <1>6 DEF RebuildInProgress
<1>8. DestinationNeverDangles'
    BY <1>5 DEF DestinationNeverDangles, Dest!RelLoads, Dest!Relationships, Relationships
<1>9. SuccessIsExact' /\ ConsistentIsRestored'
    BY <1>1, <1>3 DEF SuccessIsExact, ConsistentIsRestored
<1> QED
    BY <1>4, <1>7, <1>8, <1>9 DEF ArchiveOrder, RebuildIsFaithful

LEMMA NoFileLeft == Nothing \in FileRecords
    BY DEF Nothing, FileRecords, Faults

LEMMA ClearHalfWayKeeps == ASSUME ArchiveOrder, ClearHalfWay PROVE ArchiveOrder'
<1>1. /\ phase' = "idle" /\ job' = Nothing /\ reply' \in {"io", "none"} /\ wreck' = TRUE
      /\ UNCHANGED <<storeVars, archive, templates, overwrite, wanted, destAudit>>
    BY DEF ClearHalfWay, Return, sourceVars, fileVars
<1>2. ArchiveTypeOK
    BY DEF ArchiveOrder
<1>3. destObjects' \in [ObjectIds -> ObjectFiles] /\ destRels' \in [RelIds -> RelFiles]
    BY <1>2 DEF ClearHalfWay, ArchiveTypeOK, ObjectFiles, RelFiles
<1>4. ArchiveTypeOK'
    BY <1>1, <1>2, <1>3, NoFileLeft DEF ArchiveTypeOK, StoresTypeOK, storeVars
<1>5. RebuildInProgress'
    BY <1>1 DEF RebuildInProgress
<1>6. RebuildIsFaithful'
    BY <1>1
    DEF RebuildIsFaithful, SuccessIsExact, ConsistentIsRestored, DestinationNeverDangles
<1> QED
    BY <1>4, <1>5, <1>6 DEF ArchiveOrder

\* A rebuild that ends without touching the destination once more.
LEMMA ReturnKeeps ==
    ASSUME ArchiveOrder, NEW how, Return(how), UNCHANGED <<destVars, touched, wreck>>,
           how = "ok" => SuccessIsExact',
           how = "invalid" /\ Consistent(wanted) => touched = "short"
    PROVE  ArchiveOrder'
<1>1. /\ phase' = "idle" /\ job' = Nothing /\ reply' = how
      /\ UNCHANGED <<storeVars, archive, templates, wanted>>
      /\ UNCHANGED <<destObjects, destRels, destAudit, destPackages, touched, wreck>>
    BY DEF Return, sourceVars, fileVars, destVars
<1>2. ArchiveTypeOK'
    BY <1>1, NoFileLeft DEF ArchiveOrder, ArchiveTypeOK, StoresTypeOK, storeVars
<1>3. RebuildInProgress'
    BY <1>1 DEF RebuildInProgress
<1>4. DestinationNeverDangles'
    BY <1>1, NothingDangles DEF ArchiveOrder, RebuildIsFaithful
<1>5. SuccessIsExact'
    BY <1>1 DEF SuccessIsExact
<1>6. ConsistentIsRestored'
    BY <1>1 DEF ConsistentIsRestored, Consistent
<1> QED
    BY <1>2, <1>3, <1>4, <1>5, <1>6 DEF ArchiveOrder, RebuildIsFaithful

\* Of a consistent file, restore() refuses a record only over an object a short write tore.
LEMMA OnlyTornIsRefused ==
    ASSUME ArchiveOrder, phase = "restore", Refused, Consistent(wanted)
    PROVE  touched = "short"
<1>1. ArchiveTypeOK /\ Progress(wanted, job, destObjects, destRels, destAudit, destPackages, touched)
    BY DEF ArchiveOrder, RebuildInProgress
<1>2. /\ job.objects \subseteq wanted.objects /\ job.rels \subseteq wanted.rels
      /\ Restored(ObjectIds, wanted.objects \ job.objects, destObjects, touched)
      /\ Restored(RelIds, wanted.rels \ job.rels, destRels, touched)
      /\ job.audit \subseteq wanted.audit
      /\ EventsRestored(wanted.audit \ job.audit, destAudit, touched)
    BY <1>1 DEF Progress
<1>3. /\ wanted.objects \subseteq ObjectRecords /\ wanted.rels \subseteq RelRecords
      /\ wanted.audit \subseteq EventRecords
    BY <1>1, FileFields DEF ArchiveTypeOK
<1>3a. ASSUME NEW e \in job.audit
       PROVE  e.event # Invalid /\ destAudit[e.id] = "None"
    <2>1. e \in wanted.audit /\ e.id \in Entities
        BY <1>2, <1>3, <1>3a, EventsLoad
    <2>2. ~\E f \in wanted.audit \ job.audit : f.id = e.id
        BY <1>3a, <2>1 DEF Consistent
    <2> QED
        BY <1>2, <2>1, <2>2 DEF Consistent, EventsRestored
<1>4. ASSUME NEW e \in job.objects
      PROVE  e.value # Invalid /\ destObjects[e.id] = Absent
    <2>1. e \in wanted.objects /\ e.id \in ObjectIds
        BY <1>2, <1>3, <1>4, RecordsLoad
    <2>2. ~\E f \in wanted.objects \ job.objects : f.id = e.id
        BY <1>4, <2>1 DEF Consistent
    <2> QED
        BY <1>2, <2>1, <2>2 DEF Consistent, Restored
<1>5. job.objects = {} /\ \E e \in job.rels : ~Dest!RelFits(e.id, e.value)
    BY <1>3a, <1>4 DEF Refused
<1>6. PICK e \in job.rels : ~Dest!RelFits(e.id, e.value)
    BY <1>5
<1>7. e \in wanted.rels /\ e.id \in RelIds /\ e.value \in Relationships
    BY <1>2, <1>3, <1>6, RecordsLoad
<1>8. destRels[e.id] = Absent
    <2>1. ~\E f \in wanted.rels \ job.rels : f.id = e.id
        BY <1>6, <1>7 DEF Consistent
    <2> QED
        BY <1>2, <1>7, <2>1 DEF Restored
<1>9. \E f \in wanted.objects : f.id \in {e.value.src, e.value.dst} /\ ~(destObjects[f.id] \in Contents)
    <2>1. \E s, d \in wanted.objects : s.id = e.value.src /\ d.id = e.value.dst
        BY <1>7 DEF Consistent
    <2>2. ~Dest!EndpointsLoad(e.value)
        BY <1>6, <1>8 DEF Dest!RelFits
    <2> QED
        BY <2>1, <2>2 DEF Dest!EndpointsLoad, Dest!ObjectLoads
<1>10. PICK f \in wanted.objects : ~(destObjects[f.id] \in Contents)
    BY <1>9
<1>11. f.value \in Contents /\ f.id \in ObjectIds
    BY <1>3, <1>10, RecordsLoad DEF Consistent
<1>12. destObjects[f.id] = Torn
    BY <1>2, <1>5, <1>10, <1>11 DEF Restored
<1> QED
    BY <1>2, <1>11, <1>12 DEF Restored

\* What was restored is what the records say.
LEMMA ValueIs ==
    ASSUME NEW ids, NEW done, NEW x, NEW t, Restored(ids, done, x, t),
           \A e \in done : e.id \in ids /\ e.value # Absent
    PROVE  \A i \in ids : x[i] \in Value(done, i) \cup {Torn}
<1> SUFFICES ASSUME NEW i \in ids PROVE x[i] \in Value(done, i) \cup {Torn}
    OBVIOUS
<1>1. CASE \E e \in done : e.id = i
    BY <1>1 DEF Restored, Value
<1>2. CASE ~\E e \in done : e.id = i
    BY <1>2 DEF Restored, Value
<1> QED
    BY <1>1, <1>2

\* When nothing is left to do, the destination is what the file says.
LEMMA FinishedIsExact ==
    ASSUME ArchiveOrder, Finish
    PROVE  SuccessIsExact'
<1>1. /\ ArchiveTypeOK
      /\ Progress(wanted, job, destObjects, destRels, destAudit, destPackages, touched)
      /\ touched # "short" => destMeta = Meta(wanted.meta, "now")
    BY DEF ArchiveOrder, RebuildInProgress, Finish
<1>2. /\ job.objects = {} /\ job.rels = {} /\ job.audit = {} /\ job.packages = {}
      /\ wanted' = wanted
      /\ UNCHANGED <<destMeta, destObjects, destRels, destAudit, destPackages, touched>>
    BY DEF Finish, Return, destVars
<1>3. /\ Restored(ObjectIds, wanted.objects, destObjects, touched)
      /\ Restored(RelIds, wanted.rels, destRels, touched)
      /\ EventsRestored(wanted.audit, destAudit, touched)
      /\ destPackages \subseteq wanted.packages
      /\ touched # "short" => wanted.packages \subseteq destPackages
    <2>1. /\ wanted.objects \ job.objects = wanted.objects /\ wanted.rels \ job.rels = wanted.rels
          /\ wanted.audit \ job.audit = wanted.audit
          /\ wanted.packages \ job.packages = wanted.packages
        BY <1>2
    <2> QED
        BY <1>1, <2>1 DEF Progress
<1>4. /\ wanted.objects \subseteq ObjectRecords /\ wanted.rels \subseteq RelRecords
      /\ wanted.audit \subseteq EventRecords
    BY <1>1, FileFields DEF ArchiveTypeOK
<1>5. \A o \in ObjectIds : destObjects[o] \in Value(wanted.objects, o) \cup {Torn}
    <2>1. \A e \in wanted.objects : e.id \in ObjectIds /\ e.value # Absent
        BY <1>4, RecordsLoad
    <2> QED
        BY <1>3, <2>1, ValueIs
<1>6. \A r \in RelIds : destRels[r] \in Value(wanted.rels, r) \cup {Torn}
    <2>1. \A e \in wanted.rels : e.id \in RelIds /\ e.value # Absent
        BY <1>4, RecordsLoad
    <2> QED
        BY <1>3, <2>1, ValueIs
<1>7. touched # "short" => /\ \A o \in ObjectIds : destObjects[o] # Torn
                           /\ \A r \in RelIds : destRels[r] # Torn
    BY <1>3 DEF Restored
<1>8. /\ \A e \in Entities :
            destAudit[e] \notin {"None", Torn} => Event(e, destAudit[e]) \in wanted.audit
      /\ \A e \in wanted.audit : destAudit[e.id] \in {e.event, Torn}
      /\ touched # "short" => \A e \in Entities : destAudit[e] # Torn
    <2>1. ASSUME NEW i \in Entities, destAudit[i] \notin {"None", Torn}
          PROVE  Event(i, destAudit[i]) \in wanted.audit
        <3>1. PICK e \in wanted.audit : e.id = i
            BY <1>3, <2>1 DEF EventsRestored
        <3>2. e.event = destAudit[i] /\ e \in EventRecords
            BY <1>3, <1>4, <2>1, <3>1 DEF EventsRestored
        <3>3. e = Event(i, destAudit[i])
            BY <3>1, <3>2 DEF EventRecords, Event
        <3> QED
            BY <3>1, <3>3
    <2> QED
        BY <1>3, <2>1 DEF EventsRestored
<1> QED
    BY <1>1, <1>2, <1>3, <1>5, <1>6, <1>7, <1>8 DEF SuccessIsExact, Value

LEMMA EndingKeeps ==
    ASSUME ArchiveOrder, RefuseRecord \/ FailWrite \/ Finish \/ Crash
    PROVE  ArchiveOrder'
<1>1. CASE RefuseRecord
    <2>1. Consistent(wanted) => touched = "short"
        BY <1>1, OnlyTornIsRefused DEF RefuseRecord
    <2>2. Return("invalid") /\ UNCHANGED <<destVars, touched, wreck>>
        BY <1>1 DEF RefuseRecord
    <2> QED
        BY <2>1, <2>2, ReturnKeeps
<1>2. CASE FailWrite
    <2>1. Return("io") /\ UNCHANGED <<destVars, touched, wreck>>
        BY <1>2 DEF FailWrite
    <2> QED
        BY <2>1, ReturnKeeps
<1>3. CASE Finish
    <2>1. Return("ok") /\ UNCHANGED <<destVars, touched, wreck>>
        BY <1>3 DEF Finish
    <2> QED
        BY <1>3, <2>1, FinishedIsExact, ReturnKeeps
<1>4. CASE Crash
    <2>1. Return("none") /\ UNCHANGED <<destVars, touched, wreck>>
        BY <1>4 DEF Crash
    <2> QED
        BY <2>1, ReturnKeeps
<1> QED
    BY <1>1, <1>2, <1>3, <1>4

LEMMA StartKeeps ==
    ASSUME ArchiveOrder, NEW file \in FileRecords, NEW over, Start(file, over)
    PROVE  ArchiveOrder'
<1>1. /\ phase' = (IF DestEmpty THEN "metadata" ELSE "clear")
      /\ job' = file /\ wanted' = file /\ reply' = "none"
      /\ UNCHANGED <<storeVars, archive, templates>>
      /\ UNCHANGED <<destObjects, destRels, destAudit, destPackages, wreck>>
    BY DEF Start, sourceVars, fileVars, destVars
<1>2. ArchiveTypeOK'
    BY <1>1 DEF ArchiveOrder, ArchiveTypeOK, StoresTypeOK, storeVars
<1>3. phase' = "metadata" =>
          Progress(wanted', job', destObjects', destRels', destAudit', destPackages', touched')
    <2> SUFFICES ASSUME DestEmpty
                 PROVE  Progress(file, file, destObjects, destRels, destAudit, destPackages, touched')
        BY <1>1
    <2>1. Progress(file, file, destObjects, destRels, destAudit, {}, touched')
        BY NothingDone DEF DestEmpty
    <2> QED
        BY <2>1 DEF DestEmpty
<1>4. RebuildInProgress'
    BY <1>1, <1>3 DEF RebuildInProgress
<1>5. RebuildIsFaithful'
    BY <1>1, NothingDangles
    DEF ArchiveOrder, RebuildIsFaithful, SuccessIsExact, ConsistentIsRestored
<1> QED
    BY <1>2, <1>4, <1>5 DEF ArchiveOrder

LEMMA BeginKeeps == ASSUME ArchiveOrder, Begin PROVE ArchiveOrder'
<1>1. ASSUME NEW over \in BOOLEAN, StartImport(over)
      PROVE  ArchiveOrder'
    <2>1. archive \in FileRecords /\ Start(archive, over)
        BY <1>1 DEF StartImport, Acceptable, ArchiveOrder, ArchiveTypeOK
    <2> QED
        BY <2>1, StartKeeps
<1>2. ASSUME NEW t \in TemplateIds, StartTemplate(t)
      PROVE  ArchiveOrder'
    <2>1. templates[t] \in FileRecords /\ Start(templates[t], FALSE)
        BY <1>2 DEF StartTemplate, AcceptableTemplate, ArchiveOrder, ArchiveTypeOK
    <2> QED
        BY <2>1, StartKeeps
<1> QED
    BY <1>1, <1>2 DEF Begin

\* What is captured is a file of the repository's records.
LEMMA CapturedFits ==
    ASSUME StoresTypeOK
    PROVE  /\ CapturedObjects \subseteq ObjectRecords
           /\ CapturedRels \subseteq RelRecords
           /\ CapturedAudit \subseteq EventRecords
<1>1. CapturedObjects \subseteq ObjectRecords
    BY DEF CapturedObjects, ObjectRecords, ObjectLoads
<1>2. CapturedRels \subseteq RelRecords
    BY DEF CapturedRels, RelRecords, RelLoads
<1>3. CapturedAudit \subseteq EventRecords
    BY DEF CapturedAudit, StoresTypeOK, EventRecords, Event
<1> QED
    BY <1>1, <1>2, <1>3

\* Only the archive and the templates are written.
LEMMA FilesAlone ==
    ASSUME ArchiveOrder, UNCHANGED <<sourceVars, destVars, jobVars>>,
           archive' \in FileRecords \cup {Absent, Torn},
           templates' \in [TemplateIds -> FileRecords \cup {Absent, Torn}]
    PROVE  ArchiveOrder'
<1>1. /\ UNCHANGED <<storeVars, phase, job, overwrite, reply, wanted, touched, wreck>>
      /\ UNCHANGED <<destMeta, destObjects, destRels, destAudit, destPackages>>
    BY DEF sourceVars, destVars, jobVars
<1>2. ArchiveTypeOK'
    BY <1>1 DEF ArchiveOrder, ArchiveTypeOK, StoresTypeOK, storeVars
<1>3. RebuildInProgress'
    BY <1>1 DEF ArchiveOrder, RebuildInProgress, Progress, Restored, EventsRestored
<1>4. SuccessIsExact' /\ ConsistentIsRestored'
    BY <1>1 DEF ArchiveOrder, RebuildIsFaithful, SuccessIsExact, ConsistentIsRestored,
                Value, Consistent
<1>5. DestinationNeverDangles'
    BY <1>1, NothingDangles DEF ArchiveOrder, RebuildIsFaithful
<1> QED
    BY <1>2, <1>3, <1>4, <1>5 DEF ArchiveOrder, RebuildIsFaithful

LEMMA CaptureKeeps == ASSUME ArchiveOrder, Capture PROVE ArchiveOrder'
<1>1. /\ StoresTypeOK /\ archive \in FileRecords \cup {Absent, Torn}
      /\ templates \in [TemplateIds -> FileRecords \cup {Absent, Torn}]
    BY DEF ArchiveOrder, ArchiveTypeOK
<1>2. ASSUME NEW out \in SuccessfulWrites, Export(out)
      PROVE  ArchiveOrder'
    <2>1. [Nothing EXCEPT !.meta = "source", !.objects = CapturedObjects,
                          !.rels = CapturedRels, !.audit = CapturedAudit, !.packages = Packages] \in FileRecords
        BY <1>1, CapturedFits DEF Nothing, FileRecords, Faults
    <2>2. archive' \in FileRecords \cup {Absent, Torn}
        BY <1>2, <2>1 DEF Export
    <2> QED
        BY <1>1, <1>2, <2>2, FilesAlone DEF Export
<1>3. ASSUME NEW t \in TemplateIds, NEW out \in SuccessfulWrites, CreateTemplate(t, out)
      PROVE  ArchiveOrder'
    <2>1. [Nothing EXCEPT !.meta = "new", !.objects = CapturedObjects,
                          !.rels = CapturedRels, !.packages = Packages] \in FileRecords
        BY <1>1, CapturedFits DEF Nothing, FileRecords, Faults
    <2>2. templates' \in [TemplateIds -> FileRecords \cup {Absent, Torn}]
        BY <1>1, <1>3, <2>1 DEF CreateTemplate
    <2> QED
        BY <1>1, <1>3, <2>2, FilesAlone DEF CreateTemplate
<1>4. CASE ReceiveArchive
    <2>1. ForeignArchives \subseteq FileRecords
        <3>1. {[Nothing EXCEPT !.fault = f] : f \in Faults \ {"none"}} \subseteq FileRecords
            BY DEF Nothing, FileRecords, Faults
        <3>2. [fault : {"none"}, meta : {"foreign"},
               objects : SUBSET ObjectRecords, rels : SUBSET RelRecords,
               audit : SUBSET {e \in EventRecords : e.id \in RelIds},
               packages : {{}}] \subseteq FileRecords
            BY DEF FileRecords, Faults
        <3> QED
            BY <3>1, <3>2 DEF ForeignArchives
    <2> QED
        BY <1>1, <1>4, <2>1, FilesAlone DEF ReceiveArchive
<1> QED
    BY <1>2, <1>3, <1>4 DEF Capture

LEMMA ArchiveStepKeeps == ASSUME ArchiveOrder, Next PROVE ArchiveOrder'
<1>1. CASE Continue
    <2>1. SuccessfulWrites \subseteq WriteOutcomes
        BY DEF SuccessfulWrites
    <2>2. ASSUME NEW out \in SuccessfulWrites, SaveMetadata(out)
          PROVE  ArchiveOrder'
        BY <2>1, <2>2, SaveMetadataKeeps
    <2>3. ASSUME NEW out \in SuccessfulWrites, NEW e \in job.objects, RestoreObject(e, out)
          PROVE  ArchiveOrder'
        BY <2>1, <2>3, RestoreObjectKeeps
    <2>4. ASSUME NEW out \in SuccessfulWrites, NEW e \in job.rels, RestoreRel(e, out)
          PROVE  ArchiveOrder'
        BY <2>1, <2>4, RestoreRelKeeps
    <2>5. ASSUME NEW out \in SuccessfulWrites, NEW e \in job.audit, RestoreEvent(e, out)
          PROVE  ArchiveOrder'
        BY <2>1, <2>5, RestoreEventKeeps
    <2>6. ASSUME NEW out \in SuccessfulWrites, NEW p \in job.packages, RestorePackage(p, out)
          PROVE  ArchiveOrder'
        BY <2>1, <2>6, RestorePackageKeeps
    <2> QED
        BY <1>1, <2>2, <2>3, <2>4, <2>5, <2>6, ClearKeeps, ClearHalfWayKeeps, EndingKeeps
        DEF Continue
<1> QED
    BY <1>1, CaptureKeeps, BeginKeeps, EndingKeeps DEF Next

LEMMA ArchiveBegins == ASSUME Init PROVE ArchiveOrder
<1>1. /\ archive = Absent /\ templates = [t \in TemplateIds |-> Absent]
      /\ destObjects \in [ObjectIds -> {Absent} \cup {c \in Contents : destMeta # NoMeta}]
      /\ destRels = [r \in RelIds |-> Absent]
      /\ phase = "idle" /\ job = Nothing /\ wanted = Nothing /\ reply = "none"
    BY DEF Init
<1>2. StoresTypeOK
    <2>1. objects \in [ObjectIds -> ObjectFiles]
        BY DEF Init, ObjectFiles
    <2>2. rels \in [RelIds -> RelFiles]
        BY DEF Init, RelFiles
    <2>3. audit \in [Entities -> AuditEvents]
        BY DEF Init, AuditEvents
    <2> QED
        BY <2>1, <2>2, <2>3 DEF Init, StoresTypeOK
<1>3. destAudit \in [Entities -> AuditEvents]
    BY DEF Init, AuditEvents
<1>4. ArchiveTypeOK
    <2>1. destObjects \in [ObjectIds -> ObjectFiles] /\ destRels \in [RelIds -> RelFiles]
        BY <1>1 DEF ObjectFiles, RelFiles
    <2> QED
        BY <1>1, <1>2, <1>3, <2>1, NoFileLeft DEF ArchiveTypeOK
<1>5. DestinationNeverDangles
    BY <1>1 DEF DestinationNeverDangles, Dest!RelLoads, Dest!Relationships, Relationships
<1> QED
    BY <1>1, <1>4, <1>5
    DEF ArchiveOrder, RebuildInProgress, RebuildIsFaithful, SuccessIsExact, ConsistentIsRestored

ArchiveInv == subject = "archive" => ArchiveOrder

\* import_repository and instantiate_template: whatever the file holds, whatever was at
\* the destination, and whichever writes fail, are cut short or die on the way, a rebuild
\* that reports success is exactly the file - all of its records and audit events, and its
\* metadata but for lastModifiedUtc - none leaves a relationship that dangles (but for a
\* removal stopped half way), and a file that is consistent, its audit events too, is
\* refused half way only over what a short write tore.
THEOREM RebuildsHold == PlatformSpec => []RebuildsAreFaithful
<1>1. PlatformInit => ArchiveInv
    BY ArchiveBegins DEF PlatformInit, ArchiveInv
<1>2. ArchiveInv /\ [PlatformNext]_allVars => ArchiveInv'
    <2> SUFFICES ASSUME ArchiveInv, [PlatformNext]_allVars, subject' = "archive"
                 PROVE  ArchiveOrder'
        BY DEF ArchiveInv
    <2>1. CASE ArchiveStep
        BY <2>1, ArchiveStepKeeps DEF ArchiveStep, ArchiveInv
    <2>2. CASE ~ArchiveStep
        <3>1. subject' = subject /\ archiveVars' = archiveVars
            BY <2>2 DEF PlatformNext, ArchiveStep, TrustStep, ListStep, RecordStep, ManagerStep,
                        SearchStep, allVars
        <3>2. /\ UNCHANGED <<sourceVars, destVars, jobVars>>
              /\ archive' = archive /\ templates' = templates
            BY <3>1 DEF archiveVars, vars, fileVars
        <3> QED
            BY <3>1, <3>2, FilesAlone DEF ArchiveInv, ArchiveOrder, ArchiveTypeOK
    <2> QED
        BY <2>1, <2>2
<1>3. ArchiveInv => RebuildsAreFaithful
    BY DEF ArchiveInv, ArchiveOrder, RebuildsAreFaithful
<1> QED
    BY <1>1, <1>2, <1>3, PTL DEF PlatformSpec
=============================================================================
