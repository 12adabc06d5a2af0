-------------------------- MODULE StoredFilesProofs --------------------------
(***************************************************************************)
(* Theorems about the records of objects and transactions, package lists   *)
(* and searches, for any number of ids, names, directories and records.    *)
(***************************************************************************)
EXTENDS MCPlatform, Sorting, Sequences, FiniteSetTheorems, WellFoundedInduction, TLAPS

-----------------------------------------------------------------------------
(* Sorting.  The library's induction takes an operator; a set of numbers does as well. *)

LEMMA AllNumbers ==
    ASSUME NEW G \in SUBSET Nat, 0 \in G, \A n \in G : n + 1 \in G
    PROVE  G = Nat
<1> SUFFICES ASSUME Nat \ G # {} PROVE FALSE
    OBVIOUS
<1>1. PICK m \in Nat \ G : \A n \in Nat \ G : ~(<<n, m>> \in OpToRel(<, Nat))
    <2> DEFINE rest == Nat \ G
    <2>1. rest \subseteq Nat /\ rest # {}
        OBVIOUS
    <2> HIDE DEF rest
    <2>2. \E m \in rest : \A n \in rest : ~(<<n, m>> \in OpToRel(<, Nat))
        BY <2>1, NatLessThanWellFounded, WFMin, Zenon
    <2> QED
        BY <2>2 DEF rest
<1>2. m \in Nat /\ m # 0
    OBVIOUS
<1>3. m - 1 \in Nat /\ m - 1 < m /\ (m - 1) + 1 = m
    BY <1>2
<1>4. m - 1 \in G
    BY <1>1, <1>3 DEF OpToRel
<1> QED
    BY <1>3, <1>4

\* Each two elements of S are in the order R one way.
Orders(R, S) ==
    /\ \A x \in S : <<x, x>> \notin R
    /\ \A x, y \in S : x = y \/ <<x, y>> \in R \/ <<y, x>> \in R
    /\ \A x, y, z \in S : <<x, y>> \in R /\ <<y, z>> \in R => <<x, z>> \in R

\* A finite set that is not empty has a first element.
LEMMA FirstExists ==
    ASSUME NEW S, NEW R, Orders(R, S)
    PROVE  \A n \in Nat : \A T \in SUBSET S :
               IsFiniteSet(T) /\ Cardinality(T) = n + 1 =>
                   \E m \in T : \A x \in T \ {m} : <<m, x>> \in R
<1> DEFINE Has(T) == \E m \in T : \A x \in T \ {m} : <<m, x>> \in R
           G == {n \in Nat : \A T \in SUBSET S : IsFiniteSet(T) /\ Cardinality(T) = n + 1 => Has(T)}
<1>1. 0 \in G
    <2> SUFFICES ASSUME NEW T \in SUBSET S, IsFiniteSet(T), Cardinality(T) = 1
                 PROVE  Has(T)
        OBVIOUS
    <2>1. PICK x : T = {x}
        BY FS_Singleton
    <2> QED
        BY <2>1
<1>2. ASSUME NEW n \in G PROVE n + 1 \in G
    <2> SUFFICES ASSUME NEW T \in SUBSET S, IsFiniteSet(T), Cardinality(T) = n + 2
                 PROVE  Has(T)
        OBVIOUS
    <2>1. T # {}
        BY FS_EmptySet
    <2>2. PICK x \in T : TRUE
        BY <2>1
    <2>3. IsFiniteSet(T \ {x}) /\ Cardinality(T \ {x}) = n + 1
        BY FS_RemoveElement
    <2>4. PICK m \in T \ {x} : \A y \in (T \ {x}) \ {m} : <<m, y>> \in R
        BY <2>3
    <2>5. CASE <<x, m>> \in R
        BY <2>4, <2>5 DEF Orders
    <2>6. CASE <<m, x>> \in R
        BY <2>4, <2>6
    <2> QED
        BY <2>2, <2>4, <2>5, <2>6 DEF Orders
<1> HIDE DEF G
<1>3. G = Nat
    <2>1. G \in SUBSET Nat
        BY DEF G
    <2> QED
        BY <1>1, <1>2, <2>1, AllNumbers
<1> QED
    BY <1>3 DEF G

InOrder(s, n, T, R) ==
    /\ s \in [1..n -> T]
    /\ \A i, j \in 1..n : i < j => <<s[i], s[j]>> \in R

\* A finite set can be sorted: first its first element, then the rest.
LEMMA SortedExists ==
    ASSUME NEW S, NEW R, Orders(R, S)
    PROVE  \A n \in Nat : \A T \in SUBSET S :
               IsFiniteSet(T) /\ Cardinality(T) = n => \E s : InOrder(s, n, T, R)
<1> DEFINE G == {n \in Nat : \A T \in SUBSET S :
                    IsFiniteSet(T) /\ Cardinality(T) = n => \E s : InOrder(s, n, T, R)}
<1>1. 0 \in G
    <2> SUFFICES ASSUME NEW T \in SUBSET S, IsFiniteSet(T), Cardinality(T) = 0
                 PROVE  \E s : InOrder(s, 0, T, R)
        OBVIOUS
    <2>1. InOrder([i \in 1..0 |-> i], 0, T, R)
        BY DEF InOrder
    <2> QED
        BY <2>1
<1>2. ASSUME NEW n \in G PROVE n + 1 \in G
    <2> SUFFICES ASSUME NEW T \in SUBSET S, IsFiniteSet(T), Cardinality(T) = n + 1
                 PROVE  \E s : InOrder(s, n + 1, T, R)
        OBVIOUS
    <2>0. n \in Nat
        OBVIOUS
    <2>1. PICK m \in T : \A x \in T \ {m} : <<m, x>> \in R
        BY <2>0, FirstExists
    <2>2. IsFiniteSet(T \ {m}) /\ Cardinality(T \ {m}) = n
        BY FS_RemoveElement
    <2>3. PICK s : InOrder(s, n, T \ {m}, R)
        BY <2>2
    <2> DEFINE t == [i \in 1..(n + 1) |-> IF i = 1 THEN m ELSE s[i - 1]]
    <2>4. \A i \in 1..(n + 1) : i # 1 => i - 1 \in 1..n /\ t[i] = s[i - 1] /\ t[i] \in T \ {m}
        BY <2>0, <2>3 DEF InOrder
    <2>5. t[1] = m
        BY <2>0
    <2>6. t \in [1..(n + 1) -> T]
        BY <2>4, <2>5
    <2>7. ASSUME NEW i \in 1..(n + 1), NEW j \in 1..(n + 1), i < j
          PROVE  <<t[i], t[j]>> \in R
        <3>1. j # 1 /\ (i # 1 => i - 1 < j - 1)
            BY <2>7
        <3> HIDE DEF t
        <3>2. CASE i = 1
            BY <2>1, <2>4, <2>5, <3>1, <3>2
        <3>3. CASE i # 1
            BY <2>3, <2>4, <3>1, <3>3 DEF InOrder
        <3> QED
            BY <3>2, <3>3
    <2> HIDE DEF t
    <2>8. InOrder(t, n + 1, T, R)
        BY <2>6, <2>7 DEF InOrder
    <2> QED
        BY <2>8
<1> HIDE DEF G
<1>3. G = Nat
    <2>1. G \in SUBSET Nat
        BY DEF G
    <2> QED
        BY <1>1, <1>2, <2>1, AllNumbers
<1> QED
    BY <1>3 DEF G

\* An injection from the numbers up to the size of a finite set leaves nothing out.
LEMMA NothingLeftOut ==
    ASSUME NEW T, IsFiniteSet(T), NEW s \in [1..Cardinality(T) -> T],
           \A i, j \in 1..Cardinality(T) : s[i] = s[j] => i = j
    PROVE  \A x \in T : \E i \in 1..Cardinality(T) : s[i] = x
<1> DEFINE n == Cardinality(T)
<1>0. n \in Nat
    BY FS_CardinalityType
<1> SUFFICES ASSUME NEW x \in T, \A i \in 1..n : s[i] # x
             PROVE  FALSE
    OBVIOUS
<1>1. IsFiniteSet(T \ {x}) /\ Cardinality(T \ {x}) = n - 1
    BY FS_RemoveElement
<1>2. IsFiniteSet(1..n) /\ Cardinality(1..n) = n
    BY <1>0, FS_Interval
<1>3. s \in [1..n -> T \ {x}]
    OBVIOUS
<1> DEFINE rest == T \ {x}
           places == 1..n
<1>4. /\ IsFiniteSet(places) /\ IsFiniteSet(rest) /\ s \in [places -> rest]
      /\ Cardinality(rest) < Cardinality(places)
    BY <1>0, <1>1, <1>2, <1>3
<1> HIDE DEF rest, places
<1>5. \E i, j \in places : i # j /\ s[i] = s[j]
    BY <1>4, FS_PigeonHole, Zenon
<1> QED
    BY <1>5 DEF places

\* What Sorted gives: every element, in order.
LEMMA SortedIs ==
    ASSUME NEW S, IsFiniteSet(S), NEW R, Orders(R, S)
    PROVE  /\ Cardinality(S) \in Nat
           /\ Sorted(S, R) \in [1..Cardinality(S) -> S]
           /\ \A i, j \in 1..Cardinality(S) : i < j => <<Sorted(S, R)[i], Sorted(S, R)[j]>> \in R
           /\ \A x \in S : \E i \in 1..Cardinality(S) : Sorted(S, R)[i] = x
<1> DEFINE n == Cardinality(S)
           s == Sorted(S, R)
<1>0. n \in Nat
    BY FS_CardinalityType
<1>1. \E t : InOrder(t, n, S, R)
    BY <1>0, SortedExists
<1>2. InOrder(s, n, S, R)
    BY <1>1 DEF Sorted, InOrder
<1> HIDE DEF s
<1>3. ASSUME NEW i \in 1..n, NEW j \in 1..n, s[i] = s[j]
      PROVE  i = j
    <2>1. s[i] \in S /\ <<s[i], s[i]>> \notin R
        BY <1>2 DEF InOrder, Orders
    <2>2. ~(i < j) /\ ~(j < i)
        BY <1>2, <1>3, <2>1 DEF InOrder
    <2> QED
        BY <1>0, <2>2
<1>4. \A x \in S : \E i \in 1..n : s[i] = x
    <2>1. s \in [1..Cardinality(S) -> S]
        BY <1>2 DEF InOrder
    <2>2. \A i, j \in 1..Cardinality(S) : s[i] = s[j] => i = j
        BY <1>3
    <2> HIDE DEF n
    <2>3. \A x \in S : \E i \in 1..Cardinality(S) : s[i] = x
        BY <2>1, <2>2, NothingLeftOut
    <2> QED
        BY <2>3 DEF n
<1> QED
    BY <1>0, <1>2, <1>4 DEF InOrder, s

LEMMA IncreasingOrders ==
    ASSUME NEW S \in SUBSET Nat
    PROVE  Orders(Increasing(S), S)
BY DEF Orders, Increasing

-----------------------------------------------------------------------------
(* Package lists. *)

Listed == [name : Dirs, state : {"Loaded", "Disabled", "Invalid"}, id : PackageIds \cup {NoId}]

Fit(id) == [id |-> id, check |-> "fits"]

\* What an entry p tells of what its directory held, in s.
Told(p, s) ==
    /\ p.state = "Loaded" => p.id \in PackageIds /\ Manager!EnabledThen(s[p.name], Fit(p.id))
    /\ p.state = "Disabled" =>
          p.id = NoId /\ \E k \in DOMAIN s[p.name] : s[p.name][k].disabled
    /\ p.state = "Invalid" =>
          \E m \in Manager!Manifests :
              m.id = p.id /\ m.check # "fits" /\ Manager!EnabledThen(s[p.name], m)

\* Every entry tells what was there.
WasThere(list, s) ==
    /\ list \in Seq(Listed)
    /\ \A i \in DOMAIN list : Told(list[i], s)

\* What a manifest holds.
LEMMA ManifestIs ==
    ASSUME NEW m \in Manager!Manifests
    PROVE  /\ m = [id |-> m.id, check |-> m.check]
           /\ m.check \in {"missing", "broken", "fits", "unfit"}
           /\ m.check \in {"missing", "broken"} => m.id = NoId
           /\ m.check \in {"fits", "unfit"} => m.id \in PackageIds
    BY DEF Manager!Manifests, Manager!Unread

LEMMA HoldingIs ==
    ASSUME NEW held \in Manager!Holdings
    PROVE  held.disabled \in BOOLEAN /\ held.manifest \in Manager!Manifests
<1>1. CASE held = Manager!Gone
    <2>1. Manager!Gone.manifest \in Manager!Manifests
        BY DEF Manager!Gone, Manager!Manifests, Manager!Unread
    <2> QED
        BY <1>1, <2>1 DEF Manager!Gone
<1>2. CASE held \in [there : {TRUE}, disabled : BOOLEAN, manifest : Manager!Manifests]
    BY <1>2
<1> QED
    BY <1>1, <1>2 DEF Manager!Holdings

\* What demoting the later claims makes of a list.
LEMMA DemotedIsRight ==
    ASSUME Manager!PackageManagerAssumption,
           NEW list, WasThere(list, seen), packages = Manager!Demoted(list)
    PROVE  Manager!FirstClaimWins /\ Manager!EntriesWereTrue
<1> DEFINE Taken(i) == \E j \in 1..(i - 1) : Manager!Claims(list[j], list[i].id)
<1>1. /\ DOMAIN packages = DOMAIN list
      /\ \E n \in Nat : DOMAIN list = 1..n
      /\ \A i \in DOMAIN list : list[i] \in Listed
    <2>1. list \in Seq(Listed)
        BY DEF WasThere
    <2>2. DOMAIN list = 1..Len(list) /\ Len(list) \in Nat /\ \A i \in 1..Len(list) : list[i] \in Listed
        BY <2>1
    <2>3. DOMAIN packages = DOMAIN list
        BY DEF Manager!Demoted
    <2>4. \E n \in Nat : DOMAIN list = 1..n
        BY <2>2, Zenon
    <2>5. \A i \in DOMAIN list : list[i] \in Listed
        BY <2>1
    <2> QED
        BY <2>3, <2>4, <2>5
<1>2. ASSUME NEW i \in DOMAIN list
      PROVE  /\ packages[i].name = list[i].name /\ packages[i].id = list[i].id
             /\ list[i].state = "Loaded" /\ Taken(i) => packages[i].state = "Invalid"
             /\ ~(list[i].state = "Loaded" /\ Taken(i)) => packages[i] = list[i]
    BY <1>1 DEF Manager!Demoted, Listed
<1>3. ASSUME NEW i \in DOMAIN list
      PROVE  /\ list[i].state \in {"Loaded", "Disabled", "Invalid"}
             /\ list[i].state = "Loaded" =>
                   /\ list[i].id \in PackageIds
                   /\ Manager!EnabledThen(seen[list[i].name], Fit(list[i].id))
             /\ list[i].state = "Disabled" =>
                   /\ list[i].id = NoId
                   /\ \E k \in DOMAIN seen[list[i].name] : seen[list[i].name][k].disabled
             /\ list[i].state = "Invalid" =>
                   \E m \in Manager!Manifests :
                      /\ m.id = list[i].id /\ m.check # "fits"
                      /\ Manager!EnabledThen(seen[list[i].name], m)
    <2>1. list[i].state \in {"Loaded", "Disabled", "Invalid"}
        BY <1>1 DEF Listed
    <2> QED
        BY <2>1, Zenon DEF WasThere, Told
\* An earlier claim in the list is still one after the demotion of somebody: of the first.
<1>4. ASSUME NEW i \in DOMAIN list, list[i].state = "Loaded", Taken(i)
      PROVE  \E j \in 1..(i - 1) : Manager!Claims(packages[j], list[i].id)
    <2> DEFINE claims == {j \in 1..(i - 1) : Manager!Claims(list[j], list[i].id)}
    <2>1. PICK n \in Nat : DOMAIN list = 1..n
        BY <1>1
    <2>2. claims \in SUBSET Nat /\ claims # {} /\ claims \subseteq DOMAIN list
        BY <1>4, <2>1
    <2> HIDE DEF claims
    <2>3. \E j \in claims : \A k \in claims : ~(<<k, j>> \in OpToRel(<, Nat))
        BY <2>2, NatLessThanWellFounded, WFMin, Zenon
    <2>4. PICK j \in claims : \A k \in claims : ~(k < j)
        BY <2>2, <2>3 DEF OpToRel
    <2>5. j \in 1..(i - 1) /\ list[j].state = "Loaded" /\ list[j].id = list[i].id
        BY DEF claims, Manager!Claims
    <2>6. ~Taken(j)
        <3> SUFFICES ASSUME NEW k \in 1..(j - 1), Manager!Claims(list[k], list[j].id)
                     PROVE  FALSE
            OBVIOUS
        <3>1. k \in 1..(i - 1) /\ k < j
            BY <2>1, <2>5
        <3>2. k \in claims
            BY <2>5, <3>1 DEF claims
        <3> QED
            BY <2>4, <3>1, <3>2
    <2>7. j \in DOMAIN list
        BY <2>2
    <2>8. packages[j] = list[j]
        BY <1>2, <2>6, <2>7
    <2> QED
        BY <2>5, <2>8 DEF Manager!Claims
<1>5. Manager!FirstClaimWins
    <2> SUFFICES ASSUME NEW i \in DOMAIN list, NEW j \in DOMAIN list, i < j,
                        packages[j].state = "Loaded", packages[i].id = packages[j].id
                 PROVE  /\ packages[i].state # "Loaded"
                        /\ \E k \in DOMAIN seen[packages[i].name] :
                              seen[packages[i].name][k].manifest =
                                  [id |-> packages[i].id, check |-> "unfit"]
        BY <1>1 DEF Manager!FirstClaimWins
    <2>1. list[j].state = "Loaded" /\ ~Taken(j) /\ list[j].id \in PackageIds
        BY <1>2, <1>3
    <2>2. list[i].id = list[j].id /\ i \in 1..(j - 1)
        BY <1>1, <1>2
    <2>3. list[i].state # "Loaded"
        BY <2>1, <2>2 DEF Manager!Claims
    <2>4. packages[i] = list[i]
        BY <1>2, <2>3
    <2>5. NoId \notin PackageIds
        BY DEF Manager!PackageManagerAssumption
    <2>6. list[i].state = "Invalid"
        BY <1>3, <2>1, <2>2, <2>3, <2>5
    <2>7. PICK m \in Manager!Manifests :
              /\ m.id = list[i].id /\ m.check # "fits"
              /\ Manager!EnabledThen(seen[list[i].name], m)
        BY <1>3, <2>6
    <2>8. m = [id |-> list[i].id, check |-> "unfit"]
        BY <2>1, <2>2, <2>5, <2>7, ManifestIs
    <2> QED
        BY <2>3, <2>4, <2>7, <2>8 DEF Manager!EnabledThen
<1>6. Manager!EntriesWereTrue
    <2> SUFFICES ASSUME NEW i \in DOMAIN list
                 PROVE  /\ packages[i].state = "Loaded" =>
                              Manager!EnabledThen(seen[packages[i].name], Fit(packages[i].id))
                        /\ packages[i].state = "Disabled" =>
                              \E k \in DOMAIN seen[packages[i].name] :
                                  seen[packages[i].name][k].disabled
                        /\ packages[i].state = "Invalid" =>
                              \/ \E m \in Manager!Manifests :
                                    /\ m.id = packages[i].id /\ m.check # "fits"
                                    /\ Manager!EnabledThen(seen[packages[i].name], m)
                              \/ /\ Manager!EnabledThen(seen[packages[i].name],
                                                         Fit(packages[i].id))
                                 /\ \E j \in 1..(i - 1) :
                                       Manager!Claims(packages[j], packages[i].id)
        BY <1>1 DEF Manager!EntriesWereTrue, Fit
    <2>1. CASE list[i].state = "Loaded" /\ Taken(i)
        BY <1>2, <1>3, <1>4, <2>1
    <2>2. CASE ~(list[i].state = "Loaded" /\ Taken(i))
        <3>1. packages[i] = list[i]
            BY <1>2, <2>2
        <3> QED
            BY <1>3, <3>1, Zenon
    <2> QED
        BY <2>1, <2>2
<1> QED
    BY <1>5, <1>6

Held == {d \in Dirs : Manager!HoldsPackage(disk[d])}
All == Sorted(Held, Increasing(Held))

ManagerTypeOK ==
    /\ disk \in [Dirs -> Manager!Holdings]
    /\ seen \in [Dirs -> Seq(Manager!Holdings)]
    /\ changes \in Nat
    /\ step \in {"idle", "discover", "load", "marker", "manifest", "read",
                "done", "failed", "unreadable"}
    /\ unseen \in SUBSET Dirs /\ found \in SUBSET Dirs
    /\ names \in Seq(Dirs)
    /\ packages \in Seq(Listed)

Loading == step \in {"load", "marker", "manifest", "read"}

\* What has been read by now, and what is still to be read.
ManagerOrder ==
    /\ step \notin {"discover", "unreadable"} => found = {}
    /\ step \in {"idle", "discover"} => names = <<>> /\ packages = <<>>
    /\ step \in {"marker", "manifest", "read"} => names # <<>>
    /\ step \in {"manifest", "read"} =>
          \E k \in DOMAIN seen[Head(names)] : ~seen[Head(names)][k].disabled
    /\ step # "idle" => \A d \in Dirs : seen[d] # <<>> /\ seen[d][Len(seen[d])] = disk[d]
    /\ Loading => WasThere(packages, seen)
    /\ step = "done" => \E list : WasThere(list, seen) /\ packages = Manager!Demoted(list)

\* While nothing changes it is the listing, as far as it goes.
QuietSoFar ==
    /\ step # "failed"
    /\ step = "discover" => found = Held \ unseen
    /\ step \in {"manifest", "read"} => ~disk[Head(names)].disabled
    /\ Loading =>
          /\ Cardinality(Held) = Len(packages) + Len(names)
          /\ \A i \in 1..Len(packages) : packages[i] = Manager!Loaded(All[i], disk[All[i]])
          /\ \A i \in 1..Len(names) : names[i] = All[Len(packages) + i]
    /\ step = "done" => packages = Manager!Listing

ManagerInv == ManagerTypeOK /\ ManagerOrder /\ (changes = 0 => QuietSoFar)

LEMMA AllIs ==
    ASSUME Manager!PackageManagerAssumption
    PROVE  /\ Cardinality(Held) \in Nat
           /\ All \in [1..Cardinality(Held) -> Held]
<1>1. Dirs \in SUBSET Nat /\ IsFiniteSet(Dirs)
    BY Zenon DEF Manager!PackageManagerAssumption, Manager!IsFiniteSet, IsFiniteSet
<1>0. Held \in SUBSET Dirs /\ Held \in SUBSET Nat
    BY <1>1 DEF Held
<1>2. IsFiniteSet(Held)
    BY <1>0, <1>1, FS_Subset
<1>3. Orders(Increasing(Held), Held)
    BY <1>0, IncreasingOrders
<1> QED
    BY <1>2, <1>3, SortedIs DEF All

LEMMA NamesSorted ==
    ASSUME Manager!PackageManagerAssumption, NEW S \in SUBSET Dirs
    PROVE  Sorted(S, Increasing(S)) \in Seq(Dirs)
<1>0. Dirs \in SUBSET Nat /\ IsFiniteSet(Dirs)
    BY Zenon DEF Manager!PackageManagerAssumption, Manager!IsFiniteSet, IsFiniteSet
<1>1. S \in SUBSET Nat
    BY <1>0
<1>2. IsFiniteSet(S)
    BY <1>0, FS_Subset
<1>3. Orders(Increasing(S), S)
    BY <1>1, IncreasingOrders
<1>4. Cardinality(S) \in Nat /\ Sorted(S, Increasing(S)) \in [1..Cardinality(S) -> S]
    BY <1>2, <1>3, SortedIs
<1> QED
    BY <1>4

LEMMA SameSorting ==
    ASSUME NEW S
    PROVE  Manager!Sorted(S, Manager!Increasing(S)) = Sorted(S, Increasing(S))
<1>1. Manager!Increasing(S) = Increasing(S)
    BY Zenon DEF Manager!Increasing, Increasing
<1> DEFINE order == Increasing(S)
<1>2. Manager!Sorted(S, order) = Sorted(S, order)
    <2> HIDE DEF order
    <2> QED
        BY Zenon DEF Manager!Sorted, Sorted, Manager!Cardinality, Cardinality
<1> QED
    BY <1>1, <1>2

\* What was so of the holdings so far stays so when there is one more.
LEMMA StillEnabled ==
    ASSUME NEW h \in Seq(Manager!Holdings), NEW held \in Manager!Holdings, NEW m,
           Manager!EnabledThen(h, m)
    PROVE  Manager!EnabledThen(Append(h, held), m)
<1>1. PICK k \in DOMAIN h : h[k].manifest = m /\ \E j \in 1..k : ~h[j].disabled
    BY DEF Manager!EnabledThen
<1>2. /\ DOMAIN h = 1..Len(h) /\ DOMAIN Append(h, held) = 1..(Len(h) + 1) /\ Len(h) \in Nat
      /\ \A j \in 1..Len(h) : Append(h, held)[j] = h[j]
    OBVIOUS
<1>3. PICK j \in 1..k : ~h[j].disabled
    BY <1>1
<1>4. k \in DOMAIN Append(h, held) /\ Append(h, held)[k] = h[k] /\ Append(h, held)[j] = h[j]
    BY <1>1, <1>2, <1>3
<1> QED
    BY <1>1, <1>3, <1>4 DEF Manager!EnabledThen

\* The frame of a change of the disk.
LEMMA StillThere ==
    ASSUME NEW list, NEW s \in [Dirs -> Seq(Manager!Holdings)],
           NEW d \in Dirs, NEW held \in Manager!Holdings, WasThere(list, s)
    PROVE  WasThere(list, [s EXCEPT ![d] = Append(@, held)])
<1> DEFINE t == [s EXCEPT ![d] = Append(@, held)]
<1>1. ASSUME NEW i \in DOMAIN list
      PROVE  Told(list[i], t)
    <2> DEFINE n == list[i].name
    <2>0. list \in Seq(Listed) /\ Told(list[i], s)
        BY DEF WasThere
    <2>1. n \in Dirs
        <3>1. list[i] \in Listed
            BY <2>0
        <3> QED
            BY <3>1 DEF Listed
    <2>2. s[n] \in Seq(Manager!Holdings) /\ (t[n] = s[n] \/ t[n] = Append(s[n], held))
        BY <2>1
    <2>3. \A m : Manager!EnabledThen(s[n], m) => Manager!EnabledThen(t[n], m)
        BY <2>2, StillEnabled
    <2>4. (\E k \in DOMAIN s[n] : s[n][k].disabled) => (\E k \in DOMAIN t[n] : t[n][k].disabled)
        BY <2>2
    <2> HIDE DEF t
    <2> QED
        BY <2>0, <2>3, <2>4, Zenon DEF Told
<1> QED
    BY <1>1 DEF WasThere

LEMMA ListKeeps ==
    ASSUME Manager!PackageManagerAssumption, ManagerInv, Manager!List
    PROVE  ManagerInv'
<1>1. ManagerTypeOK'
    BY DEF ManagerInv, ManagerTypeOK, Manager!List
<1>2. ManagerOrder'
    BY DEF ManagerInv, ManagerTypeOK, ManagerOrder, Loading, Manager!List
<1>3. QuietSoFar'
    BY DEF ManagerInv, ManagerOrder, QuietSoFar, Loading, Manager!List, Held
<1> QED
    BY <1>1, <1>2, <1>3 DEF ManagerInv

LEMMA VisitKeeps ==
    ASSUME Manager!PackageManagerAssumption, ManagerInv, NEW d \in Dirs, Manager!Visit(d)
    PROVE  ManagerInv'
<1>1. /\ step = "discover" /\ step' = step /\ d \in unseen /\ unseen' = unseen \ {d}
      /\ found' = IF Manager!HoldsPackage(disk[d]) THEN found \cup {d} ELSE found
      /\ UNCHANGED <<disk, changes, names, packages, seen>>
    BY DEF Manager!Visit
<1>2. ManagerTypeOK'
    BY <1>1 DEF ManagerInv, ManagerTypeOK
<1>3. ManagerOrder'
    BY <1>1 DEF ManagerInv, ManagerOrder, Loading
<1>4. ASSUME QuietSoFar PROVE QuietSoFar'
    <2>1. Held' = Held
        BY <1>1 DEF Held
    <2>2. found' = Held \ unseen'
        BY <1>1, <1>4 DEF QuietSoFar, Loading, Held
    <2> QED
        BY <1>1, <2>1, <2>2 DEF QuietSoFar, Loading
<1> QED
    BY <1>1, <1>2, <1>3, <1>4 DEF ManagerInv

LEMMA DiscoveredKeeps ==
    ASSUME Manager!PackageManagerAssumption, ManagerInv, Manager!Discovered
    PROVE  ManagerInv'
<1>1. /\ step = "discover" /\ unseen = {} /\ step' = "load" /\ found' = {}
      /\ names' = Sorted(found, Increasing(found))
      /\ UNCHANGED <<disk, changes, unseen, packages, seen>>
    BY SameSorting DEF Manager!Discovered, Manager!SortNames
<1>2. names' \in Seq(Dirs)
    BY <1>1, NamesSorted DEF ManagerInv, ManagerTypeOK
<1>3. ManagerTypeOK'
    BY <1>1, <1>2 DEF ManagerInv, ManagerTypeOK
<1>4. packages = <<>> /\ WasThere(<<>>, seen)
    BY <1>1 DEF ManagerInv, ManagerOrder, Loading, WasThere
<1>5. ManagerOrder'
    BY <1>1, <1>4 DEF ManagerInv, ManagerOrder, Loading
<1>6. ASSUME QuietSoFar PROVE QuietSoFar'
    <2>1. Held' = Held /\ All' = All
        BY <1>1 DEF Held, All
    <2>2. names' = All
        BY <1>1, <1>6 DEF QuietSoFar, Loading, All
    <2>3. Cardinality(Held) \in Nat /\ Len(All) = Cardinality(Held) /\ packages' = <<>>
        BY <1>1, <1>4, AllIs
    <2>4. /\ Cardinality(Held) = Len(packages') + Len(names')
          /\ \A i \in 1..Len(packages') : packages'[i] = Manager!Loaded(All[i], disk'[All[i]])
          /\ \A i \in 1..Len(names') : names'[i] = All[Len(packages') + i]
        BY <2>2, <2>3
    <2> QED
        BY <1>1, <2>1, <2>4 DEF QuietSoFar, Loading
<1> QED
    BY <1>1, <1>3, <1>5, <1>6 DEF ManagerInv

LEMMA EnterKeeps ==
    ASSUME Manager!PackageManagerAssumption, ManagerInv, Manager!Enter
    PROVE  ManagerInv'
<1>1. /\ step = "load" /\ names # <<>>
      /\ step' = IF disk[Head(names)].there THEN "marker" ELSE "failed"
      /\ UNCHANGED <<disk, changes, unseen, found, names, packages, seen>>
    BY DEF Manager!Enter
<1>2. ManagerTypeOK'
    BY <1>1 DEF ManagerInv, ManagerTypeOK
<1>3. ManagerOrder'
    BY <1>1 DEF ManagerInv, ManagerOrder, Loading
<1>4. ASSUME QuietSoFar PROVE QuietSoFar'
    <2>1. names \in Seq(Dirs) /\ packages \in Seq(Listed)
        BY DEF ManagerInv, ManagerTypeOK
    <2>2. Head(names) = names[1] /\ 1 \in 1..Len(names) /\ Len(packages) \in Nat /\ Len(names) \in Nat
        BY <1>1, <2>1
    <2>3. names[1] = All[Len(packages) + 1] /\ Len(packages) + 1 \in 1..Cardinality(Held)
        BY <1>1, <1>4, <2>2 DEF QuietSoFar, Loading
    <2>4. names[1] \in Held
        BY <2>3, AllIs
    <2>5. disk[Head(names)].there
        BY <2>2, <2>4 DEF Held, Manager!HoldsPackage
    <2>6. Held' = Held /\ All' = All
        BY <1>1 DEF Held, All
    <2> QED
        BY <1>1, <1>4, <2>5, <2>6 DEF QuietSoFar, Loading
<1> QED
    BY <1>1, <1>2, <1>3, <1>4 DEF ManagerInv

LEMMA FailKeeps ==
    ASSUME Manager!PackageManagerAssumption, ManagerInv, Manager!EnumerationFails
    PROVE  ManagerInv'
<1>1. /\ step = "discover" /\ step' = "unreadable"
      /\ UNCHANGED <<disk, changes, unseen, found, names, packages, seen>>
    BY DEF Manager!EnumerationFails
<1>2. ManagerTypeOK'
    BY <1>1 DEF ManagerInv, ManagerTypeOK
<1>3. ManagerOrder'
    BY <1>1 DEF ManagerInv, ManagerOrder, Loading
<1>4. QuietSoFar'
    BY <1>1 DEF QuietSoFar, Loading
<1> QED
    BY <1>2, <1>3, <1>4 DEF ManagerInv

\* load_package goes on to the next look.
LEMMA GoOnKeeps ==
    ASSUME Manager!PackageManagerAssumption, ManagerInv,
           step \in {"marker", "manifest"}, names # <<>>,
           NEW to \in {"manifest", "read"}, Manager!GoOn(to),
           \E k \in DOMAIN seen[Head(names)] : ~seen[Head(names)][k].disabled,
           changes = 0 => ~disk[Head(names)].disabled
    PROVE  ManagerInv'
<1>1. /\ step' = to
      /\ UNCHANGED <<disk, changes, unseen, found, names, packages, seen>>
    BY DEF Manager!GoOn
<1>2. ManagerTypeOK'
    BY <1>1 DEF ManagerInv, ManagerTypeOK
<1>3. ManagerOrder'
    BY <1>1 DEF ManagerInv, ManagerOrder, Loading
<1>4. ASSUME QuietSoFar, changes = 0 PROVE QuietSoFar'
    <2>1. Held' = Held /\ All' = All
        BY <1>1 DEF Held, All
    <2> QED
        BY <1>1, <1>4, <2>1 DEF QuietSoFar, Loading
<1> QED
    BY <1>1, <1>2, <1>3, <1>4 DEF ManagerInv

\* load_package returns p for the directory at the head.
LEMMA TakeKeeps ==
    ASSUME Manager!PackageManagerAssumption, ManagerInv,
           step \in {"marker", "manifest", "read"},
           NEW p \in Listed, p.name = Head(names), Manager!Take(p), Told(p, seen),
           changes = 0 => p = Manager!Loaded(Head(names), disk[Head(names)])
    PROVE  ManagerInv'
<1> DEFINE d == Head(names)
           n == Len(packages)
<1>1. /\ step' = "load"
      /\ packages' = Append(packages, p) /\ names' = Tail(names)
      /\ UNCHANGED <<disk, changes, unseen, found, seen>>
    BY DEF Manager!Take
<1>2. names # <<>> /\ names \in Seq(Dirs) /\ packages \in Seq(Listed)
    BY DEF ManagerInv, ManagerTypeOK, ManagerOrder
<1>3. d = names[1] /\ names' \in Seq(Dirs)
    BY <1>1, <1>2
<1> HIDE DEF d
<1>5. /\ n \in Nat /\ packages' \in Seq(Listed) /\ Len(packages') = n + 1
      /\ DOMAIN packages' = 1..(n + 1)
      /\ \A i \in 1..n : packages'[i] = packages[i]
      /\ packages'[n + 1] = p
    BY <1>1, <1>2
<1>6. ManagerTypeOK'
    BY <1>1, <1>3, <1>5 DEF ManagerInv, ManagerTypeOK
<1>7. WasThere(packages', seen')
    <2>1. WasThere(packages, seen) /\ DOMAIN packages = 1..n
        BY <1>2 DEF ManagerInv, ManagerOrder, Loading
    <2>2. ASSUME NEW i \in 1..(n + 1)
          PROVE  Told(packages'[i], seen)
        <3>1. CASE i \in 1..n
            BY <1>5, <2>1, <3>1 DEF WasThere
        <3>2. CASE i = n + 1
            BY <1>5, <3>2
        <3> QED
            BY <1>5, <3>1, <3>2
    <2> QED
        BY <1>1, <1>5, <2>2 DEF WasThere
<1>8. ManagerOrder'
    BY <1>1, <1>7 DEF ManagerInv, ManagerOrder, Loading
<1>9. ASSUME QuietSoFar, changes = 0 PROVE QuietSoFar'
    <2>1. Held' = Held /\ All' = All
        BY <1>1 DEF Held, All
    <2>2. /\ Len(names) \in Nat /\ Len(names) # 0 /\ Len(names') = Len(names) - 1
          /\ \A i \in 1..Len(names') : names'[i] = names[i + 1]
        BY <1>1, <1>2
    <2>3. /\ Cardinality(Held) = n + Len(names)
          /\ \A i \in 1..n : packages[i] = Manager!Loaded(All[i], disk[All[i]])
          /\ \A i \in 1..Len(names) : names[i] = All[n + i]
        BY <1>9 DEF QuietSoFar, Loading
    <2>4. d = All[n + 1]
        BY <1>3, <2>2, <2>3
    <2>5. \A i \in 1..(n + 1) : packages'[i] = Manager!Loaded(All[i], disk[All[i]])
        BY <1>5, <1>9, <2>3, <2>4 DEF d
    <2>6. \A i \in 1..Len(names') : names'[i] = All[(n + 1) + i]
        <3> SUFFICES ASSUME NEW i \in 1..Len(names') PROVE names'[i] = All[(n + 1) + i]
            OBVIOUS
        <3>1. i + 1 \in 1..Len(names) /\ n + (i + 1) = (n + 1) + i
            BY <1>5, <2>2
        <3> QED
            BY <2>2, <2>3, <3>1
    <2>7. Cardinality(Held) = Len(packages') + Len(names')
        BY <1>5, <2>2, <2>3
    <2> QED
        BY <1>1, <1>5, <2>1, <2>5, <2>6, <2>7 DEF QuietSoFar, Loading
<1> QED
    BY <1>1, <1>6, <1>8, <1>9 DEF ManagerInv

\* Where load_package is, and what was at its directory when it looks.
LEMMA AtTheHead ==
    ASSUME ManagerInv, step \in {"marker", "manifest", "read"}
    PROVE  LET d == Head(names) IN
           /\ names # <<>> /\ d \in Dirs /\ disk[d] \in Manager!Holdings
           /\ seen[d] \in Seq(Manager!Holdings)
           /\ Len(seen[d]) \in DOMAIN seen[d] /\ seen[d][Len(seen[d])] = disk[d]
<1> DEFINE d == Head(names)
<1>1. names # <<>> /\ names \in Seq(Dirs)
    BY DEF ManagerInv, ManagerTypeOK, ManagerOrder
<1>2. d \in Dirs
    BY <1>1
<1> HIDE DEF d
<1>3. disk[d] \in Manager!Holdings /\ seen[d] \in Seq(Manager!Holdings)
    BY <1>2 DEF ManagerInv, ManagerTypeOK
<1>4. seen[d] # <<>> /\ seen[d][Len(seen[d])] = disk[d]
    BY <1>2 DEF ManagerInv, ManagerOrder
<1>5. Len(seen[d]) \in DOMAIN seen[d]
    BY <1>3, <1>4
<1> QED
    BY <1>1, <1>2, <1>3, <1>4, <1>5 DEF d

\* What is there now was there after whatever was there before.
LEMMA NowEnabledThen ==
    ASSUME NEW h \in Seq(Manager!Holdings), h # <<>>,
           \E k \in DOMAIN h : ~h[k].disabled
    PROVE  Manager!EnabledThen(h, h[Len(h)].manifest)
<1>1. DOMAIN h = 1..Len(h) /\ Len(h) \in DOMAIN h
    OBVIOUS
<1> QED
    BY <1>1 DEF Manager!EnabledThen

LEMMA CheckMarkerKeeps ==
    ASSUME Manager!PackageManagerAssumption, ManagerInv, Manager!CheckMarker
    PROVE  ManagerInv'
<1> DEFINE d == Head(names)
           p == Manager!Package(d, "Disabled", NoId)
<1>0. step = "marker"
    BY DEF Manager!CheckMarker
<1>1. /\ names # <<>> /\ d \in Dirs /\ disk[d] \in Manager!Holdings
      /\ Len(seen[d]) \in DOMAIN seen[d] /\ seen[d][Len(seen[d])] = disk[d]
    BY <1>0, AtTheHead
<1>2. p = [name |-> d, state |-> "Disabled", id |-> NoId]
    BY DEF Manager!Package
<1>3. CASE disk[d].disabled
    <2>1. Manager!Take(p)
        BY <1>3 DEF Manager!CheckMarker
    <2>2. p \in Listed /\ p.name = d /\ p.state = "Disabled" /\ p.id = NoId
        BY <1>1, <1>2 DEF Listed
    <2>3. p = Manager!Loaded(d, disk[d])
        BY <1>3 DEF Manager!Loaded
    <2> HIDE DEF p, d
    <2>4. Told(p, seen)
        BY <1>1, <1>3, <2>2 DEF Told
    <2> QED
        BY <1>0, <2>1, <2>2, <2>3, <2>4, TakeKeeps DEF d
<1>4. CASE ~disk[d].disabled
    <2>1. Manager!GoOn("manifest")
        BY <1>4 DEF Manager!CheckMarker
    <2>2. \E k \in DOMAIN seen[d] : ~seen[d][k].disabled
        BY <1>1, <1>4
    <2> QED
        BY <1>0, <1>1, <1>4, <2>1, <2>2, GoOnKeeps
<1> QED
    BY <1>3, <1>4

\* An entry that is not disabled is judged by the manifest that is there now.
LEMMA JudgedTold ==
    ASSUME Manager!PackageManagerAssumption, ManagerInv, step \in {"manifest", "read"}
    PROVE  LET d == Head(names)
               p == Manager!Judged(d, disk[d].manifest)
           IN  /\ p \in Listed /\ p.name = d /\ Told(p, seen)
               /\ changes = 0 => p = Manager!Loaded(d, disk[d])
<1> DEFINE d == Head(names)
           m == disk[d].manifest
           p == Manager!Judged(d, m)
<1>1. /\ d \in Dirs /\ disk[d] \in Manager!Holdings /\ seen[d] \in Seq(Manager!Holdings)
      /\ seen[d] # <<>> /\ seen[d][Len(seen[d])] = disk[d]
    BY AtTheHead
<1>2. \E k \in DOMAIN seen[d] : ~seen[d][k].disabled
    BY DEF ManagerInv, ManagerOrder
<1>3. changes = 0 => p = Manager!Loaded(d, disk[d])
    BY DEF ManagerInv, QuietSoFar, Manager!Loaded
<1>4. p = [name |-> d, state |-> IF m.check = "fits" THEN "Loaded" ELSE "Invalid", id |-> m.id]
    BY DEF Manager!Judged, Manager!Package
<1>5. m \in Manager!Manifests
    BY <1>1, HoldingIs
<1> HIDE DEF m, p, d
<1>6. Manager!EnabledThen(seen[d], m)
    BY <1>1, <1>2, NowEnabledThen DEF m
<1>7. /\ m = [id |-> m.id, check |-> m.check]
      /\ m.check \in {"missing", "broken", "fits", "unfit"}
      /\ m.id \in PackageIds \cup {NoId}
      /\ m.check = "fits" => m.id \in PackageIds
    BY <1>5, ManifestIs
<1>8. p \in Listed /\ p.name = d /\ p.id = m.id
    BY <1>1, <1>4, <1>7 DEF Listed
<1>9. Told(p, seen)
    <2>1. CASE m.check = "fits"
        <3>1. m = Fit(p.id) /\ p.state = "Loaded"
            BY <1>4, <1>7, <1>8, <2>1 DEF Fit
        <3> QED
            BY <1>6, <1>7, <1>8, <2>1, <3>1 DEF Told
    <2>2. CASE m.check # "fits"
        <3>1. p.state = "Invalid"
            BY <1>4, <2>2
        <3> QED
            BY <1>5, <1>6, <1>8, <2>2, <3>1 DEF Told
    <2> QED
        BY <2>1, <2>2
<1> QED
    BY <1>3, <1>8, <1>9 DEF p, m, d

LEMMA FindManifestKeeps ==
    ASSUME Manager!PackageManagerAssumption, ManagerInv, Manager!FindManifest
    PROVE  ManagerInv'
<1> DEFINE d == Head(names)
           m == disk[d].manifest
           p == Manager!Judged(d, m)
<1>0. step = "manifest"
    BY DEF Manager!FindManifest
<1>1. p \in Listed /\ p.name = d /\ Told(p, seen) /\ (changes = 0 => p = Manager!Loaded(d, disk[d]))
    BY <1>0, JudgedTold
<1>2. names # <<>> /\ m \in Manager!Manifests
    BY <1>0, AtTheHead, HoldingIs
<1>3. CASE m.check = "missing"
    <2>1. Manager!Take(Manager!Package(d, "Invalid", NoId))
        BY <1>3 DEF Manager!FindManifest
    <2>2. p = Manager!Package(d, "Invalid", NoId)
        BY <1>2, <1>3, ManifestIs DEF Manager!Judged
    <2> HIDE DEF p
    <2> QED
        BY <1>0, <1>1, <2>1, <2>2, TakeKeeps
<1>4. CASE m.check # "missing"
    <2>1. Manager!GoOn("read")
        BY <1>4 DEF Manager!FindManifest
    <2>2. \E k \in DOMAIN seen[d] : ~seen[d][k].disabled
        BY <1>0 DEF ManagerInv, ManagerOrder
    <2>3. changes = 0 => ~disk[d].disabled
        BY <1>0 DEF ManagerInv, QuietSoFar
    <2> QED
        BY <1>0, <1>2, <2>1, <2>2, <2>3, GoOnKeeps
<1> QED
    BY <1>3, <1>4

LEMMA ReadManifestKeeps ==
    ASSUME Manager!PackageManagerAssumption, ManagerInv, Manager!ReadManifest
    PROVE  ManagerInv'
<1> DEFINE d == Head(names)
           p == Manager!Judged(d, disk[d].manifest)
<1>0. step = "read" /\ Manager!Take(p)
    BY DEF Manager!ReadManifest
<1>1. p \in Listed /\ p.name = d /\ Told(p, seen) /\ (changes = 0 => p = Manager!Loaded(d, disk[d]))
    BY <1>0, JudgedTold
<1> HIDE DEF p
<1> QED
    BY <1>0, <1>1, TakeKeeps

LEMMA DemoteKeeps ==
    ASSUME Manager!PackageManagerAssumption, ManagerInv, Manager!Demote
    PROVE  ManagerInv'
<1>1. /\ step = "load" /\ names = <<>> /\ step' = "done"
      /\ packages' = Manager!Demoted(packages)
      /\ UNCHANGED <<disk, changes, unseen, found, names, seen>>
    BY DEF Manager!Demote
<1>2. packages \in Seq(Listed) /\ WasThere(packages, seen)
    BY <1>1 DEF ManagerInv, ManagerTypeOK, ManagerOrder, Loading
<1>3. packages' \in Seq(Listed)
    <2>1. ASSUME NEW i \in DOMAIN packages
          PROVE  [packages[i] EXCEPT !.state = "Invalid"] \in Listed /\ packages[i] \in Listed
        <3>1. packages[i] \in Listed
            BY <1>2
        <3> QED
            BY <3>1 DEF Listed
    <2>2. packages' \in [1..Len(packages) -> Listed]
        BY <1>1, <1>2, <2>1 DEF Manager!Demoted
    <2> QED
        BY <1>2, <2>2
<1>4. ManagerTypeOK'
    BY <1>1, <1>3 DEF ManagerInv, ManagerTypeOK
<1>5. ManagerOrder'
    BY <1>1, <1>2 DEF ManagerInv, ManagerOrder, Loading
<1>6. ASSUME QuietSoFar PROVE packages' = Manager!Listing'
    <2>1. Held' = Held /\ All' = All
        BY <1>1 DEF Held, All
    <2>2. /\ Cardinality(Held) = Len(packages)
          /\ \A i \in 1..Len(packages) : packages[i] = Manager!Loaded(All[i], disk[All[i]])
        BY <1>1, <1>2, <1>6 DEF QuietSoFar, Loading
    <2>3. All \in [1..Cardinality(Held) -> Held]
        BY AllIs
    <2>4. packages = [i \in DOMAIN All |-> Manager!Loaded(All[i], disk[All[i]])]
        BY <1>2, <2>2, <2>3
    <2>5. Manager!Listing = Manager!Demoted([i \in DOMAIN All |-> Manager!Loaded(All[i], disk[All[i]])])
        BY SameSorting DEF Manager!Listing, All, Held
    <2>6. Manager!Listing' = Manager!Listing
        BY <1>1 DEF Manager!Listing, Manager!HoldsPackage
    <2> QED
        BY <1>1, <2>4, <2>5, <2>6
<1>7. ASSUME QuietSoFar PROVE QuietSoFar'
    BY <1>1, <1>6, <1>7 DEF QuietSoFar, Loading
<1> QED
    BY <1>1, <1>4, <1>5, <1>7 DEF ManagerInv

LEMMA ListReturnKeeps ==
    ASSUME Manager!PackageManagerAssumption, ManagerInv, Manager!Return
    PROVE  ManagerInv'
<1>1. /\ step' = "idle" /\ changes' = 0 /\ names' = <<>> /\ packages' = <<>>
      /\ unseen' = {} /\ found' = {}
      /\ seen' = [d \in Dirs |-> <<>>] /\ disk' = disk
    BY DEF Manager!Return
<1>2. ManagerTypeOK'
    BY <1>1 DEF ManagerInv, ManagerTypeOK
<1> QED
    BY <1>1, <1>2 DEF ManagerInv, ManagerOrder, QuietSoFar, Loading

LEMMA DiskChangeKeeps ==
    ASSUME Manager!PackageManagerAssumption, ManagerInv, NEW d \in Dirs, Manager!Change(d)
    PROVE  ManagerInv'
<1>1. PICK held \in Manager!Holdings :
          /\ step \notin {"idle", "done", "failed", "unreadable"}
          /\ disk' = [disk EXCEPT ![d] = held]
          /\ seen' = [seen EXCEPT ![d] = Append(@, held)]
          /\ changes' = changes + 1
          /\ UNCHANGED <<step, unseen, found, names, packages>>
    BY DEF Manager!Change
<1>0. /\ disk \in [Dirs -> Manager!Holdings] /\ seen \in [Dirs -> Seq(Manager!Holdings)]
      /\ names \in Seq(Dirs)
    BY DEF ManagerInv, ManagerTypeOK
<1>2. ManagerTypeOK'
    BY <1>1 DEF ManagerInv, ManagerTypeOK
<1>3. ASSUME NEW e \in Dirs
      PROVE  /\ seen'[e] # <<>> /\ seen'[e][Len(seen'[e])] = disk'[e]
             /\ (\E k \in DOMAIN seen[e] : ~seen[e][k].disabled) =>
                    \E k \in DOMAIN seen'[e] : ~seen'[e][k].disabled
    <2>1. CASE e = d
        <3>1. seen[d] \in Seq(Manager!Holdings) /\ seen'[d] = Append(seen[d], held) /\ disk'[d] = held
            BY <1>0, <1>1
        <3> QED
            BY <2>1, <3>1
    <2>2. CASE e # d
        BY <1>0, <1>1, <2>2 DEF ManagerInv, ManagerOrder
    <2> QED
        BY <2>1, <2>2
<1>4. Loading => WasThere(packages, seen')
    BY <1>0, <1>1, StillThere DEF ManagerInv, ManagerOrder
<1>5. ManagerOrder'
    <2>1. step \in {"manifest", "read"} =>
              /\ Head(names) \in Dirs
              /\ \E k \in DOMAIN seen[Head(names)] : ~seen[Head(names)][k].disabled
        BY <1>0 DEF ManagerInv, ManagerOrder
    <2> QED
        BY <1>1, <1>3, <1>4, <2>1 DEF ManagerInv, ManagerOrder, Loading
<1>6. changes' # 0
    BY <1>1 DEF ManagerInv, ManagerTypeOK
<1> QED
    BY <1>2, <1>5, <1>6 DEF ManagerInv

PackageInv == subject = "packages" => ManagerInv

\* PackageManager::list_packages: whatever changes in the directory between any two looks
\* at it, a package is listed as loaded only on a manifest that fitted when or after it
\* was not disabled, each other entry on what was there as well, an id is loaded once and
\* by the first claim to it, and without changes the list is that of the directory.
THEOREM PackageListsHold == PlatformSpec => []PackageListsAreRight
<1>1. PlatformInit => PackageInv
    <2> SUFFICES ASSUME Manager!Init PROVE ManagerInv
        BY DEF PlatformInit, PackageInv
    <2> QED
        BY DEF Manager!Init, ManagerInv, ManagerTypeOK, ManagerOrder, QuietSoFar, Loading
<1>2. PackageInv /\ [PlatformNext]_allVars => PackageInv'
    <2> SUFFICES ASSUME PackageInv, [PlatformNext]_allVars, subject' = "packages"
                 PROVE  ManagerInv'
        BY DEF PackageInv
    <2>1. CASE ManagerStep
        <3>1. ManagerInv /\ Manager!PackageManagerAssumption
            BY <2>1, PlatformAssumption DEF ManagerStep, PackageInv
        <3> QED
            BY <2>1, <3>1, ListKeeps, VisitKeeps, DiscoveredKeeps, FailKeeps, EnterKeeps,
               CheckMarkerKeeps, FindManifestKeeps, ReadManifestKeeps, DemoteKeeps, ListReturnKeeps, DiskChangeKeeps
            DEF ManagerStep, Manager!Next, Manager!Step
    <2>2. CASE ~ManagerStep
        <3>1. subject' = subject /\ managerVars' = managerVars
            BY <2>2 DEF PlatformNext, ArchiveStep, TrustStep, ListStep, RecordStep, ManagerStep,
                        SearchStep, allVars
        <3>2. ManagerInv
            BY <3>1 DEF PackageInv
        <3>3. Manager!Listing' = Manager!Listing
            BY <3>1 DEF managerVars, Manager!Listing, Manager!HoldsPackage
        <3> QED
            BY <3>1, <3>2, <3>3
            DEF managerVars, ManagerInv, ManagerTypeOK, ManagerOrder, QuietSoFar, Loading, Held, All
    <2> QED
        BY <2>1, <2>2
<1>3. PackageInv => PackageListsAreRight
    <2> SUFFICES ASSUME ManagerInv PROVE Manager!ListsAreRight
        BY DEF PackageInv, PackageListsAreRight
    <2>1. Manager!PackageManagerAssumption
        BY PlatformAssumption
    <2>2. Manager!FirstClaimWins /\ Manager!EntriesWereTrue
        <3>1. CASE step = "done"
            <4>1. PICK list : WasThere(list, seen) /\ packages = Manager!Demoted(list)
                BY <3>1 DEF ManagerInv, ManagerOrder
            <4> QED
                BY <2>1, <4>1, DemotedIsRight
        <3>2. CASE step # "done"
            BY <3>2 DEF Manager!FirstClaimWins, Manager!EntriesWereTrue
        <3> QED
            BY <3>1, <3>2
    <2>3. Manager!QuietListIsExact
        BY DEF ManagerInv, QuietSoFar, Manager!QuietListIsExact
    <2> QED
        BY <2>2, <2>3 DEF Manager!ListsAreRight
<1> QED
    BY <1>1, <1>2, <1>3, PTL DEF PlatformSpec

-----------------------------------------------------------------------------
(* Searches. *)

Stored == [RecordIds -> Fields \cup {Absent}]
Indexed == [id : RecordIds, content : Fields]

\* What an index of the records in b is, in whatever order.
IndexOf(entries, b) ==
    /\ entries \in Seq(Indexed)
    /\ \A k \in 1..Len(entries) : b[entries[k].id] = entries[k].content
    /\ \A j, k \in 1..Len(entries) : entries[j].id = entries[k].id => j = k
    /\ \A i \in RecordIds : b[i] # Absent => \E k \in 1..Len(entries) : entries[k].id = i

SearchTypeOK == stored \in Stored /\ built \in Stored /\ asked \in Stored

SearchInv == SearchTypeOK /\ IndexOf(index, built) /\ Engine!AnswersAreRight

\* The score of a field is its best one.
LEMMA FieldScoreIs ==
    ASSUME NEW f \in SUBSET (0..2)
    PROVE  /\ Engine!FieldScore(f) \in 0..2
           /\ Engine!FieldScore(f) > 0 <=> f \cap {1, 2} # {}
           /\ Engine!FieldScore(f) > 0 => Engine!FieldScore(f) \in f
<1>1. \E x \in f \cup {0} : \A y \in f : y <= x
    <2>1. CASE 2 \in f
        BY <2>1
    <2>2. CASE 2 \notin f /\ 1 \in f
        BY <2>2
    <2>3. CASE 2 \notin f /\ 1 \notin f
        BY <2>3
    <2> QED
        BY <2>1, <2>2, <2>3
<1>2. Engine!FieldScore(f) = CHOOSE x \in f \cup {0} : \A y \in f : y <= x
    BY DEF Engine!FieldScore
<1> DEFINE x == Engine!FieldScore(f)
<1> HIDE DEF x
<1>3. x \in f \cup {0} /\ \A y \in f : y <= x
    BY <1>1, <1>2 DEF x
<1>4. x \in 0..2 /\ (x > 0 => x \in f)
    BY <1>3
<1>5. x > 0 => f \cap {1, 2} # {}
    BY <1>4
<1>6. f \cap {1, 2} # {} => x > 0
    BY <1>3, <1>4
<1> QED
    BY <1>4, <1>5, <1>6 DEF x

\* A set of numbers that is not empty has a least one.
LEMMA LeastExists ==
    ASSUME NEW S \in SUBSET Nat, S # {}
    PROVE  \E k \in S : \A other \in S : k <= other
<1>1. PICK k \in S : \A other \in S : ~(<<other, k>> \in OpToRel(<, Nat))
    BY NatLessThanWellFounded, WFMin, Zenon
<1>2. \A other \in S : ~(other < k)
    BY <1>1 DEF OpToRel
<1> QED
    BY <1>2

\* The result of a record says where the query was found first.
LEMMA ResultIs ==
    ASSUME Engine!SearchAssumption, NEW c \in Fields, NEW q \in Queries,
           Engine!Matching(c, q) # {}
    PROVE  LET k == Engine!BestCandidate(c, q)
           IN  /\ k \in DOMAIN c[q] /\ k \in Nat
               /\ Engine!FieldScore(c[q][k]) \in c[q][k]
               /\ Engine!FieldScore(c[q][k]) \in 0..2
               /\ \A f \in 1..(k - 1) : c[q][f] \subseteq {0}
<1> DEFINE M == Engine!Matching(c, q)
           k == Engine!BestCandidate(c, q)
<1>1. c[q] \in Seq(SUBSET (0..2))
    BY DEF Engine!SearchAssumption, Engine!Scores
<1>2. Len(c[q]) \in Nat /\ DOMAIN c[q] = 1..Len(c[q])
      /\ \A f \in 1..Len(c[q]) : c[q][f] \in SUBSET (0..2)
    BY <1>1
<1>3. M = {f \in DOMAIN c[q] : Engine!FieldScore(c[q][f]) > 0}
    BY DEF Engine!Matching
<1>4. M \in SUBSET Nat
    BY <1>2, <1>3
<1>5. \E j \in M : \A other \in M : j <= other
    <2> HIDE DEF M
    <2> QED
        BY <1>4, LeastExists DEF M
<1>6. k = CHOOSE j \in M : \A other \in M : j <= other
    BY DEF Engine!BestCandidate
<1> HIDE DEF k, M
<1>7. k \in M /\ \A other \in M : k <= other
    BY <1>5, <1>6
<1>8. k \in 1..Len(c[q]) /\ Engine!FieldScore(c[q][k]) > 0
    BY <1>2, <1>3, <1>7
<1>9. ASSUME NEW f \in 1..(k - 1) PROVE c[q][f] \subseteq {0}
    <2>1. f \in 1..Len(c[q]) /\ f < k
        BY <1>2, <1>8
    <2>2. f \notin M
        BY <1>4, <1>7, <2>1
    <2>3. ~(Engine!FieldScore(c[q][f]) > 0)
        BY <1>2, <1>3, <2>1, <2>2
    <2>4. c[q][f] \in SUBSET (0..2)
        BY <1>2, <2>1
    <2>5. c[q][f] \cap {1, 2} = {}
        BY <2>3, <2>4, FieldScoreIs
    <2> QED
        BY <2>4, <2>5
<1>10. Engine!FieldScore(c[q][k]) \in c[q][k] /\ Engine!FieldScore(c[q][k]) \in 0..2
    BY <1>2, <1>8, FieldScoreIs
<1> QED
    BY <1>2, <1>8, <1>9, <1>10 DEF k

\* A record matches where some field holds the query.
LEMMA MatchingIs ==
    ASSUME Engine!SearchAssumption, NEW c \in Fields, NEW q \in Queries
    PROVE  Engine!Matching(c, q) # {} <=> \E f \in DOMAIN c[q] : c[q][f] \cap {1, 2} # {}
<1>1. c[q] \in Seq(SUBSET (0..2))
    BY DEF Engine!SearchAssumption, Engine!Scores
<1>2. \A f \in DOMAIN c[q] : c[q][f] \in SUBSET (0..2)
    BY <1>1
<1>3. \A f \in DOMAIN c[q] : Engine!FieldScore(c[q][f]) > 0 <=> c[q][f] \cap {1, 2} # {}
    BY <1>2, FieldScoreIs
<1> QED
    BY <1>3 DEF Engine!Matching

LEMMA SameSortingInSearch ==
    ASSUME NEW S, NEW R
    PROVE  Engine!Sorted(S, R) = Sorted(S, R)
BY Zenon DEF Engine!Sorted, Sorted, Engine!Cardinality, Cardinality

\* The places that match can be ranked, and the answer is made of their results.
LEMMA AnswerIs ==
    ASSUME Engine!SearchAssumption, NEW q \in Queries, NEW b, IndexOf(index, b)
    PROVE  LET S == Engine!Matches(q)
               n == Cardinality(S)
               order == Sorted(S, Engine!Ranking(q))
           IN  /\ n \in Nat /\ order \in [1..n -> S]
               /\ \A j, k \in 1..n : j < k => <<order[j], order[k]>> \in Engine!Ranking(q)
               /\ \A p \in S : \E k \in 1..n : order[k] = p
               /\ Engine!Answer(q) = [k \in 1..n |-> Engine!Result(index[order[k]], q)]
               /\ \A p \in S : /\ p \in 1..Len(index)
                               /\ index[p] \in Indexed
<1> DEFINE S == Engine!Matches(q)
           R == Engine!Ranking(q)
           Score(p) == Engine!Result(index[p], q).score
<1>1. Len(index) \in Nat /\ DOMAIN index = 1..Len(index)
      /\ \A p \in 1..Len(index) : index[p] \in Indexed
    BY DEF IndexOf
<1>2. S \subseteq 1..Len(index)
    BY <1>1 DEF Engine!Matches
<1>3. IsFiniteSet(S)
    <2>1. IsFiniteSet(1..Len(index))
        BY <1>1, FS_Interval
    <2> QED
        BY <1>2, <2>1, FS_Subset
<1>4. ASSUME NEW p \in S PROVE Score(p) \in Nat
    <2>1. index[p].content \in Fields /\ Engine!Matching(index[p].content, q) # {}
        BY <1>1, <1>2 DEF Indexed, Engine!Matches
    <2>2. Score(p) \in 0..2
        BY <2>1, ResultIs DEF Engine!Result
    <2> QED
        BY <2>2
<1>5. R = {p \in S \X S : \/ Score(p[1]) > Score(p[2])
                          \/ Score(p[1]) = Score(p[2]) /\ p[1] < p[2]}
    BY DEF Engine!Ranking
<1>6. Orders(R, S)
    <2> HIDE DEF S, R, Score
    <2>0. \A p \in S : p \in Nat
        BY <1>1, <1>2
    <2>1. \A x, y \in S : <<x, y>> \in R <=>
              \/ Score(x) > Score(y)
              \/ Score(x) = Score(y) /\ x < y
        BY <1>5
    <2>2. \A x \in S : <<x, x>> \notin R
        BY <1>4, <2>0, <2>1
    <2>3. ASSUME NEW x \in S, NEW y \in S, x # y
          PROVE  <<x, y>> \in R \/ <<y, x>> \in R
        <3>1. Score(x) \in Nat /\ Score(y) \in Nat /\ x \in Nat /\ y \in Nat
            BY <1>4, <2>0
        <3>2. \/ Score(x) > Score(y) \/ (Score(x) = Score(y) /\ x < y)
              \/ Score(y) > Score(x) \/ (Score(y) = Score(x) /\ y < x)
            BY <2>3, <3>1
        <3> QED
            BY <2>1, <3>2
    <2>4. ASSUME NEW x \in S, NEW y \in S, NEW z \in S, <<x, y>> \in R, <<y, z>> \in R
          PROVE  <<x, z>> \in R
        <3>1. /\ Score(x) \in Nat /\ Score(y) \in Nat /\ Score(z) \in Nat
              /\ x \in Nat /\ y \in Nat /\ z \in Nat
            BY <1>4, <2>0
        <3>2. /\ Score(x) > Score(y) \/ (Score(x) = Score(y) /\ x < y)
              /\ Score(y) > Score(z) \/ (Score(y) = Score(z) /\ y < z)
            BY <2>1, <2>4
        <3>3. Score(x) > Score(z) \/ (Score(x) = Score(z) /\ x < z)
            BY <3>1, <3>2
        <3> QED
            BY <2>1, <3>3
    <2> QED
        BY <2>2, <2>3, <2>4 DEF Orders
<1> DEFINE order == Sorted(S, R)
<1>7. /\ Cardinality(S) \in Nat /\ order \in [1..Cardinality(S) -> S]
      /\ \A j, k \in 1..Cardinality(S) : j < k => <<order[j], order[k]>> \in R
      /\ \A p \in S : \E k \in 1..Cardinality(S) : order[k] = p
    <2> HIDE DEF S, R
    <2> QED
        BY <1>3, <1>6, SortedIs
<1>8. Engine!Sorted(S, R) = order
    BY SameSortingInSearch
<1>9. Engine!Answer(q) = [k \in DOMAIN order |-> Engine!Result(index[order[k]], q)]
    BY <1>8 DEF Engine!Answer
<1>10. DOMAIN order = 1..Cardinality(S)
    <2> HIDE DEF order
    <2> QED
        BY <1>7
<1>11. Engine!Answer(q) = [k \in 1..Cardinality(S) |-> Engine!Result(index[order[k]], q)]
    BY <1>9, <1>10
<1> QED
    BY <1>1, <1>2, <1>7, <1>11

\* search_objects and search_relationships, on the index of what was built.
LEMMA SearchKeeps ==
    ASSUME Engine!SearchAssumption, SearchInv, NEW q \in Queries, Engine!Search(q)
    PROVE  SearchInv'
<1>1. /\ query' = q /\ results' = Engine!Answer(q) /\ asked' = built
      /\ UNCHANGED <<stored, index, built>>
    BY DEF Engine!Search
<1> DEFINE S == Engine!Matches(q)
           n == Cardinality(S)
           order == Sorted(S, Engine!Ranking(q))
<1>2. /\ n \in Nat /\ order \in [1..n -> S]
      /\ \A j, k \in 1..n : j < k => <<order[j], order[k]>> \in Engine!Ranking(q)
      /\ \A p \in S : \E k \in 1..n : order[k] = p
      /\ Engine!Answer(q) = [k \in 1..n |-> Engine!Result(index[order[k]], q)]
      /\ \A p \in S : p \in 1..Len(index) /\ index[p] \in Indexed
    BY AnswerIs DEF SearchInv
<1>3. /\ \A k \in 1..Len(index) : built[index[k].id] = index[k].content
      /\ \A j, k \in 1..Len(index) : index[j].id = index[k].id => j = k
      /\ \A i \in RecordIds : built[i] # Absent => \E k \in 1..Len(index) : index[k].id = i
      /\ \A k \in 1..Len(index) : index[k] \in Indexed
      /\ DOMAIN index = 1..Len(index)
    BY DEF SearchInv, IndexOf
<1>4. S = {p \in 1..Len(index) : Engine!Matching(index[p].content, q) # {}}
    BY <1>3 DEF Engine!Matches
<1> HIDE DEF S, n, order
<1>5. DOMAIN results' = 1..n
    BY <1>1, <1>2
<1>6. ASSUME NEW k \in 1..n
      PROVE  /\ order[k] \in S /\ order[k] \in 1..Len(index) /\ index[order[k]] \in Indexed
             /\ results'[k] = Engine!Result(index[order[k]], q)
             /\ results'[k].id = index[order[k]].id
    <2>1. order[k] \in S /\ order[k] \in 1..Len(index) /\ index[order[k]] \in Indexed
        BY <1>2
    <2>2. results'[k] = Engine!Result(index[order[k]], q)
        BY <1>1, <1>2
    <2>3. results'[k].id = index[order[k]].id
        BY <2>2 DEF Engine!Result
    <2> QED
        BY <2>1, <2>2, <2>3
<1>7. ASSUME NEW p \in S
      PROVE  index[p].content \in Fields /\ Engine!Matching(index[p].content, q) # {}
             /\ built[index[p].id] = index[p].content /\ p \in 1..Len(index)
    BY <1>2, <1>3, <1>4 DEF Indexed
<1>8. Absent \notin Fields
    BY DEF Engine!SearchAssumption
<1>9. Engine!FindsEveryMatch'
    <2> DEFINE Found == {results'[k].id : k \in DOMAIN results'}
               Wanted == {i \in RecordIds : /\ built[i] # Absent
                                            /\ \E f \in DOMAIN built[i][q] :
                                                  built[i][q][f] \cap {1, 2} # {}}
    <2>1. ASSUME NEW k \in 1..n PROVE results'[k].id \in Wanted
        <3> DEFINE p == order[k]
        <3>1. p \in S /\ index[p] \in Indexed /\ results'[k].id = index[p].id
            BY <1>6
        <3> HIDE DEF p
        <3>2. index[p].content \in Fields /\ Engine!Matching(index[p].content, q) # {}
              /\ built[index[p].id] = index[p].content
            BY <1>7, <3>1
        <3>3. \E f \in DOMAIN index[p].content[q] : index[p].content[q][f] \cap {1, 2} # {}
            BY <3>2, MatchingIs
        <3>4. index[p].id \in RecordIds
            BY <3>1 DEF Indexed
        <3> QED
            BY <1>8, <3>1, <3>2, <3>3, <3>4
    <2>2. ASSUME NEW i \in Wanted PROVE i \in Found
        <3>1. i \in RecordIds /\ built[i] # Absent
              /\ \E f \in DOMAIN built[i][q] : built[i][q][f] \cap {1, 2} # {}
            OBVIOUS
        <3>2. PICK p \in 1..Len(index) : index[p].id = i
            BY <1>3, <3>1
        <3>3. index[p].content \in Fields /\ built[i] = index[p].content
            BY <1>3, <3>2 DEF Indexed
        <3>4. Engine!Matching(index[p].content, q) # {}
            BY <3>1, <3>3, MatchingIs
        <3>5. p \in S
            BY <1>4, <3>4
        <3>6. PICK k \in 1..n : order[k] = p
            BY <1>2, <3>5
        <3>7. results'[k].id = i
            BY <1>6, <3>2, <3>6
        <3> QED
            BY <1>5, <3>7
    <2>3. Found = Wanted
        BY <1>5, <2>1, <2>2
    <2> QED
        BY <1>1, <2>3 DEF Engine!FindsEveryMatch
<1>10. Engine!LocationIsFirst'
    <2>1. ASSUME NEW k \in 1..n
          PROVE  /\ results'[k].score \in built[results'[k].id][q][results'[k].location]
                 /\ \A f \in 1..(results'[k].location - 1) :
                       built[results'[k].id][q][f] \subseteq {0}
        <3> DEFINE p == order[k]
                   c == index[p].content
        <3>1. p \in S /\ results'[k] = Engine!Result(index[p], q) /\ results'[k].id = index[p].id
            BY <1>6
        <3> HIDE DEF p
        <3>2. c \in Fields /\ Engine!Matching(c, q) # {} /\ built[index[p].id] = c
            BY <1>7, <3>1
        <3>3. /\ results'[k].location = Engine!BestCandidate(c, q)
              /\ results'[k].score = Engine!FieldScore(c[q][Engine!BestCandidate(c, q)])
            BY <3>1 DEF Engine!Result
        <3> HIDE DEF c
        <3>4. /\ Engine!FieldScore(c[q][Engine!BestCandidate(c, q)])
                    \in c[q][Engine!BestCandidate(c, q)]
              /\ \A f \in 1..(Engine!BestCandidate(c, q) - 1) : c[q][f] \subseteq {0}
            BY <3>2, ResultIs
        <3> QED
            BY <3>1, <3>2, <3>3, <3>4
    <2> QED
        BY <1>1, <1>5, <2>1 DEF Engine!LocationIsFirst
<1>11. Engine!ResultsAreRanked'
    <2>1. ASSUME NEW j \in 1..n, NEW k \in 1..n, j < k
          PROVE  results'[j].id # results'[k].id /\ results'[j].score >= results'[k].score
        <3>1. <<order[j], order[k]>> \in Engine!Ranking(q)
            BY <1>2, <2>1
        <3> DEFINE x == order[j]
                   y == order[k]
                   Score(p) == Engine!Result(index[p], q).score
        <3>2. /\ x \in S /\ y \in S /\ x \in 1..Len(index) /\ y \in 1..Len(index)
              /\ results'[j] = Engine!Result(index[x], q) /\ results'[k] = Engine!Result(index[y], q)
              /\ results'[j].id = index[x].id /\ results'[k].id = index[y].id
            BY <1>6
        <3>3. Score(x) > Score(y) \/ (Score(x) = Score(y) /\ x < y)
            BY <3>1 DEF Engine!Ranking
        <3>4. \A p \in S : Score(p) \in 0..2
            <4> SUFFICES ASSUME NEW p \in S PROVE Score(p) \in 0..2
                OBVIOUS
            <4>1. index[p].content \in Fields /\ Engine!Matching(index[p].content, q) # {}
                BY <1>7
            <4> QED
                BY <4>1, ResultIs DEF Engine!Result
        <3> HIDE DEF x, y, Score
        <3>5. Score(x) >= Score(y) /\ Score(x) \in 0..2 /\ Score(y) \in 0..2
            BY <3>2, <3>3, <3>4
        <3>6. x # y
            BY <3>2, <3>3, <3>4
        <3> QED
            BY <1>3, <3>2, <3>5, <3>6 DEF Score
    <2> QED
        BY <1>5, <2>1 DEF Engine!ResultsAreRanked
<1>12. SearchTypeOK' /\ IndexOf(index, built)'
    BY <1>1 DEF SearchInv, SearchTypeOK, IndexOf
<1> QED
    BY <1>9, <1>10, <1>11, <1>12 DEF SearchInv, Engine!AnswersAreRight

LEMMA EmptyIndex ==
    IndexOf(<<>>, Engine!Nothing)
BY DEF IndexOf, Engine!Nothing

\* build_index, on whatever order list_all gives the records in.
LEMMA BuildIndexKeeps ==
    ASSUME Engine!SearchAssumption, SearchInv, Engine!BuildIndex
    PROVE  SearchInv'
<1>1. Engine!AnswersAreRight'
    BY DEF SearchInv, Engine!BuildIndex, Engine!AnswersAreRight, Engine!FindsEveryMatch,
           Engine!LocationIsFirst, Engine!ResultsAreRanked
<1>2. SearchTypeOK'
    BY DEF SearchInv, SearchTypeOK, Stored, Engine!BuildIndex, Engine!Nothing
<1>3. ASSUME index' = <<>>, built' = Engine!Nothing
      PROVE  IndexOf(index', built')
    BY <1>3, EmptyIndex
<1>4. ASSUME index' \in Engine!Listings, built' = stored
      PROVE  IndexOf(index', built')
    <2> DEFINE all == {i \in RecordIds : stored[i] # Absent}
               n == Cardinality(all)
    <2>1. PICK order \in {f \in [1..n -> all] : \A j, k \in 1..n : f[j] = f[k] => j = k} :
              index' = [k \in 1..n |-> [id |-> order[k], content |-> stored[order[k]]]]
        <3>1. Engine!Cardinality(all) = n
            BY Zenon DEF Engine!Cardinality, Cardinality
        <3> DEFINE Listing(m) ==
                \E order \in {f \in [1..m -> all] : \A j, k \in 1..m : f[j] = f[k] => j = k} :
                    index' = [k \in 1..m |-> [id |-> order[k], content |-> stored[order[k]]]]
        <3>2. Listing(Engine!Cardinality(all))
            BY <1>4, Zenon DEF Engine!Listings
        <3>3. Listing(n)
            <4> HIDE DEF Listing, n, all
            <4> QED
                BY <3>1, <3>2
        <3> QED
            BY <3>3
    <2>2. IsFiniteSet(RecordIds)
        BY Zenon DEF Engine!SearchAssumption, Engine!IsFiniteSet, IsFiniteSet
    <2>3. IsFiniteSet(all) /\ n \in Nat
        BY <2>2, FS_Subset, FS_CardinalityType
    <2>4. order \in [1..n -> all] /\ \A j, k \in 1..n : order[j] = order[k] => j = k
        OBVIOUS
    <2>5. \A i \in all : \E k \in 1..n : order[k] = i
        <3> HIDE DEF all
        <3> QED
            BY <2>3, <2>4, NothingLeftOut
    <2>6. \A i \in all : stored[i] \in Fields
        BY DEF SearchInv, SearchTypeOK, Stored
    <2>7. all \subseteq RecordIds /\ \A i \in RecordIds : stored[i] # Absent => i \in all
        OBVIOUS
    <2> HIDE DEF all, n
    <2>8. \A k \in 1..n : /\ index'[k] \in Indexed
                          /\ index'[k].id = order[k] /\ index'[k].content = stored[order[k]]
        BY <2>1, <2>4, <2>6, <2>7 DEF Indexed
    <2>9. Len(index') = n /\ index' \in Seq(Indexed)
        <3>1. index' \in [1..n -> Indexed]
            BY <2>1, <2>8
        <3> QED
            BY <2>3, <3>1
    <2>10. IndexOf(index', stored)
        BY <2>4, <2>5, <2>7, <2>8, <2>9 DEF IndexOf
    <2> QED
        BY <1>4, <2>10
<1>5. IndexOf(index', built')
    BY <1>3, <1>4 DEF Engine!BuildIndex
<1> QED
    BY <1>1, <1>2, <1>5 DEF SearchInv, IndexOf

SearchesInv == subject = "search" => SearchInv

\* SearchEngine: whatever the order of the directory, and whatever became of the records
\* since, a search finds every record of its index that matches, says where first, and
\* ranks what it found.
THEOREM SearchHolds == PlatformSpec => []SearchIsRight
<1>1. PlatformInit => SearchesInv
    <2> SUFFICES ASSUME Engine!SearchInit PROVE SearchInv
        BY DEF PlatformInit, SearchesInv
    <2>1. SearchTypeOK
        BY DEF Engine!SearchInit, Engine!Nothing, SearchTypeOK, Stored
    <2>2. IndexOf(index, built)
        BY EmptyIndex DEF Engine!SearchInit
    <2>3. Engine!AnswersAreRight
        BY DEF Engine!SearchInit, Engine!Nothing, Engine!AnswersAreRight,
               Engine!FindsEveryMatch, Engine!LocationIsFirst, Engine!ResultsAreRanked
    <2> QED
        BY <2>1, <2>2, <2>3 DEF SearchInv
<1>2. SearchesInv /\ [PlatformNext]_allVars => SearchesInv'
    <2> SUFFICES ASSUME SearchesInv, [PlatformNext]_allVars, subject' = "search"
                 PROVE  SearchInv'
        BY DEF SearchesInv
    <2>1. CASE SearchStep
        <3>1. SearchInv /\ Engine!SearchAssumption /\ Engine!SearchNext
            BY <2>1, PlatformAssumption DEF SearchStep, SearchesInv
        <3>2. ASSUME NEW i \in RecordIds, NEW c \in Fields \cup {Absent}, Engine!Change(i, c)
              PROVE  SearchInv'
            <4>1. stored' \in Stored
                BY <3>1, <3>2 DEF SearchInv, SearchTypeOK, Stored, Engine!Change
            <4> QED
                BY <3>1, <3>2, <4>1
                DEF SearchInv, SearchTypeOK, IndexOf, Engine!Change, Engine!AnswersAreRight,
                    Engine!FindsEveryMatch, Engine!LocationIsFirst, Engine!ResultsAreRanked
        <3>3. CASE Engine!ClearIndex
            <4>1. IndexOf(index', built')
                BY <3>3, EmptyIndex DEF Engine!ClearIndex
            <4>2. SearchTypeOK'
                BY <3>1, <3>3 DEF Engine!ClearIndex, SearchInv, SearchTypeOK, Stored, Engine!Nothing
            <4> QED
                BY <3>1, <3>3, <4>1, <4>2
                DEF Engine!ClearIndex, SearchInv, IndexOf, Engine!AnswersAreRight,
                    Engine!FindsEveryMatch, Engine!LocationIsFirst, Engine!ResultsAreRanked
        <3>4. CASE Engine!SearchEmpty
            <4>1. query' \notin Queries
                BY <3>1, <3>4 DEF Engine!SearchEmpty, Engine!SearchAssumption
            <4>2. Engine!AnswersAreRight'
                BY <3>4, <4>1 DEF Engine!SearchEmpty, Engine!AnswersAreRight,
                    Engine!FindsEveryMatch, Engine!LocationIsFirst, Engine!ResultsAreRanked
            <4> QED
                BY <3>1, <3>4, <4>2 DEF Engine!SearchEmpty, SearchInv, SearchTypeOK, IndexOf
        <3> QED
            BY <3>1, <3>2, <3>3, <3>4, SearchKeeps, BuildIndexKeeps DEF Engine!SearchNext
    <2>2. CASE ~SearchStep
        <3>1. subject' = subject /\ searchVars' = searchVars
            BY <2>2 DEF PlatformNext, ArchiveStep, TrustStep, ListStep, RecordStep, ManagerStep,
                        SearchStep, allVars
        <3>2. SearchInv
            BY <3>1 DEF SearchesInv
        <3> QED
            BY <3>1, <3>2
            DEF searchVars, SearchInv, SearchTypeOK, IndexOf, Engine!AnswersAreRight,
                Engine!FindsEveryMatch, Engine!LocationIsFirst, Engine!ResultsAreRanked
    <2> QED
        BY <2>1, <2>2
<1>3. SearchesInv => SearchIsRight
    BY DEF SearchesInv, SearchInv, SearchIsRight
<1> QED
    BY <1>1, <1>2, <1>3, PTL DEF PlatformSpec

-----------------------------------------------------------------------------
(* The records of objects and transactions. *)

Kept == [name : Names, created : Nat, modified : Nat] \cup {Record!Nothing}
JournalEntry ==
    [at : Nat, id : ObjectIds, previous : Names \cup {Absent}, new : Names \cup {Absent}]
TxRecord ==
    [id : TxIds, state : {"Opened", "Committed", "RolledBack"}, opened : Nat, closed : Nat,
     entries : Seq(JournalEntry)]
Logged == [id : ObjectIds, before : Kept]

RecordTypeOK ==
    /\ clock \in Nat /\ undoing \in BOOLEAN
    /\ records \in [ObjectIds -> Kept] /\ base \in [ObjectIds -> Kept]
    /\ closed \in Seq(TxRecord) /\ log \in Seq(Logged)
    /\ journal \in [TxIds -> Seq(TxRecord)]
    /\ \/ tx = <<>> /\ log = <<>> /\ ~undoing
       \/ tx = <<tx[1]>> /\ tx[1] \in TxRecord /\ tx[1].state = "Opened"
    /\ \A i \in 1..Len(closed) : closed[i].state # "Opened"

\* What a change found or left there agrees with the entry of the change before, and
\* with what that one found.
Continues(x, entry, before) ==
    /\ x.name = entry.new
    /\ x # Record!Nothing /\ before # Record!Nothing => x.created = before.created

\* What a rollback has restored, but for the time.
Restamped(x, was, id, entries) ==
    /\ x = [was EXCEPT !.modified = x.modified]
    /\ \E k \in 1..Len(entries) :
          /\ entries[k].id = id /\ Absent \notin {entries[k].previous, entries[k].new}
          /\ entries[k].at <= x.modified

\* The undo log and the journal tell of the same changes: each found what the one before
\* it left, the first of an object what there was when the transaction was opened, and
\* what the last one left is there.
Paired(l, entries) ==
    /\ Len(l) <= Len(entries)
    /\ \A k \in 1..Len(l) :
          entries[k].id = l[k].id /\ entries[k].previous = l[k].before.name
Chained(l, entries) ==
    \A j, k \in 1..Len(l) :
        (/\ j < k /\ l[j].id = l[k].id
         /\ \A i \in 1..Len(l) : j < i /\ i < k => l[i].id # l[k].id)
        => Continues(l[k].before, entries[j], l[j].before)
LastIsThere(l, entries, objs) ==
    \A j \in 1..Len(l) :
        (\A i \in 1..Len(l) : j < i => l[i].id # l[j].id)
        => Continues(objs[l[j].id], entries[j], l[j].before)
FirstWasThere(l, were) ==
    \A j \in 1..Len(l) :
        (\A i \in 1..Len(l) : i < j => l[i].id # l[j].id)
        => l[j].before = were[l[j].id]
RestIsThere(l, entries, objs, were, back) ==
    \A id \in ObjectIds :
        (\A i \in 1..Len(l) : l[i].id # id)
        => objs[id] = were[id] \/ (back /\ Restamped(objs[id], were[id], id, entries))

Undoes(l, entries, objs, were, back) ==
    /\ Paired(l, entries) /\ Chained(l, entries)
    /\ LastIsThere(l, entries, objs) /\ FirstWasThere(l, were)
    /\ RestIsThere(l, entries, objs, were, back)

LogInv ==
    tx # <<>> =>
        /\ Undoes(log, tx[1].entries, records, base, undoing)
        /\ ~undoing => Len(log) = Len(tx[1].entries)

Stamped(x, time) == x.created <= x.modified /\ x.modified <= time
EntryTimes(record, end) ==
    \A k \in 1..Len(record.entries) :
        record.opened <= record.entries[k].at /\ record.entries[k].at <= end

TimesInv ==
    /\ \A i \in 1..Len(closed) :
          /\ closed[i].opened <= closed[i].closed /\ closed[i].closed <= clock
          /\ EntryTimes(closed[i], closed[i].closed)
          /\ i > 1 => closed[i - 1].closed <= closed[i].opened
    /\ tx # <<>> =>
          /\ tx[1].opened <= clock /\ EntryTimes(tx[1], clock)
          /\ closed # <<>> => closed[Len(closed)].closed <= tx[1].opened
    /\ \A id \in ObjectIds : Stamped(records[id], clock)
    /\ \A k \in 1..Len(log) : Stamped(log[k].before, clock)

\* Ids that were drawn are not drawn again.
KeptInv ==
    /\ Record!RecordsAreKept
    /\ tx # <<>> => \A i \in 1..Len(closed) : closed[i].id # tx[1].id

\* Places, entries and what they leave, of any history.
PlacesIn(h, id) ==
    {place \in UNION {{i} \X DOMAIN h[i].entries : i \in DOMAIN h} :
        h[place[1]].state # "RolledBack" /\ h[place[1]].entries[place[2]].id = id}
EntryAt(h, place) == h[place[1]].entries[place[2]]
LeftIn(h, places, name) ==
    /\ places = {} => name = Absent
    /\ \A p \in places : (\A q \in places : ~Record!Earlier(p, q)) => name = EntryAt(h, p).new

\* Each entry found what the one before it left.
Story(h) ==
    \A id \in ObjectIds : \A p \in PlacesIn(h, id) :
        LeftIn(h, {q \in PlacesIn(h, id) : Record!Earlier(q, p)}, EntryAt(h, p).previous)
\* It is a story of these objects.
Tells(h, objs) == \A id \in ObjectIds : LeftIn(h, PlacesIn(h, id), objs[id].name)

StoryInv ==
    /\ Story(closed)
    /\ tx = <<>> => Tells(closed, records)
    /\ tx # <<>> =>
          /\ Story(Append(closed, tx[1])) /\ Tells(closed, base)
          /\ ~undoing => Tells(Append(closed, tx[1]), records)

\* The records whatever ids are drawn.
RecordInv == RecordTypeOK /\ LogInv /\ TimesInv /\ StoryInv /\ Record!RollbackOnlyRestamps

LEMMA PlaceIs ==
    ASSUME NEW h \in Seq(TxRecord), NEW id, NEW p
    PROVE  p \in PlacesIn(h, id) <=>
               \E i \in 1..Len(h), k \in Nat :
                   /\ k \in 1..Len(h[i].entries) /\ p = <<i, k>>
                   /\ h[i].state # "RolledBack" /\ h[i].entries[k].id = id
<1>1. DOMAIN h = 1..Len(h) /\ \A i \in 1..Len(h) : h[i] \in TxRecord
    OBVIOUS
<1>2. ASSUME NEW i \in 1..Len(h) PROVE DOMAIN h[i].entries = 1..Len(h[i].entries)
    BY <1>1 DEF TxRecord
<1> QED
    BY <1>1, <1>2 DEF PlacesIn

\* The same places with the same entries tell the same story.
LEMMA StoryMoves ==
    ASSUME NEW h, NEW g,
           \A id \in ObjectIds : PlacesIn(g, id) = PlacesIn(h, id),
           \A id \in ObjectIds : \A p \in PlacesIn(h, id) : EntryAt(g, p) = EntryAt(h, p)
    PROVE  /\ Story(h) => Story(g)
           /\ \A objs : Tells(h, objs) => Tells(g, objs)
<1>1. ASSUME NEW id \in ObjectIds, NEW places \in SUBSET PlacesIn(h, id), NEW name,
             LeftIn(h, places, name)
      PROVE  LeftIn(g, places, name)
    BY <1>1 DEF LeftIn
<1>2. ASSUME Story(h), NEW id \in ObjectIds, NEW p \in PlacesIn(g, id)
      PROVE  LeftIn(g, {q \in PlacesIn(g, id) : Record!Earlier(q, p)}, EntryAt(g, p).previous)
    <2> DEFINE before == {q \in PlacesIn(h, id) : Record!Earlier(q, p)}
    <2>1. p \in PlacesIn(h, id) /\ EntryAt(g, p) = EntryAt(h, p)
        BY <1>2
    <2>2. LeftIn(h, before, EntryAt(h, p).previous)
        BY <1>2, <2>1 DEF Story
    <2>3. before \in SUBSET PlacesIn(h, id)
        OBVIOUS
    <2> HIDE DEF before
    <2>4. LeftIn(g, before, EntryAt(h, p).previous)
        BY <1>1, <2>2, <2>3
    <2>5. before = {q \in PlacesIn(g, id) : Record!Earlier(q, p)}
        BY DEF before
    <2> QED
        BY <2>1, <2>4, <2>5
<1>3. ASSUME NEW objs, Tells(h, objs) PROVE Tells(g, objs)
    <2>1. ASSUME NEW id \in ObjectIds
          PROVE  LeftIn(g, PlacesIn(g, id), objs[id].name)
        <3>1. LeftIn(h, PlacesIn(h, id), objs[id].name)
            BY <1>3 DEF Tells
        <3>2. LeftIn(g, PlacesIn(h, id), objs[id].name)
            BY <1>1, <3>1
        <3> QED
            BY <3>2
    <2> QED
        BY <2>1, Zenon DEF Tells
<1> QED
    BY <1>2, <1>3 DEF Story

\* A transaction without entries, or one rolled back, adds nothing.
LEMMA NothingAdded ==
    ASSUME NEW h \in Seq(TxRecord), NEW r \in TxRecord,
           r.entries = <<>> \/ r.state = "RolledBack"
    PROVE  /\ Story(h) => Story(Append(h, r))
           /\ \A objs : Tells(h, objs) => Tells(Append(h, r), objs)
<1> DEFINE g == Append(h, r)
<1>1. /\ g \in Seq(TxRecord) /\ Len(h) \in Nat /\ Len(g) = Len(h) + 1
      /\ g[Len(h) + 1] = r /\ \A i \in 1..Len(h) : g[i] = h[i]
    OBVIOUS
<1> HIDE DEF g
<1>2. ASSUME NEW id \in ObjectIds, NEW p
      PROVE  p \in PlacesIn(g, id) <=> p \in PlacesIn(h, id)
    <2>1. ASSUME NEW i \in 1..Len(g), NEW k \in 1..Len(g[i].entries), g[i].state # "RolledBack"
          PROVE  i \in 1..Len(h)
        BY <1>1, <2>1
    <2>2. ASSUME p \in PlacesIn(g, id) PROVE p \in PlacesIn(h, id)
        <3>1. PICK i \in 1..Len(g), k \in Nat :
                  /\ k \in 1..Len(g[i].entries) /\ p = <<i, k>>
                  /\ g[i].state # "RolledBack" /\ g[i].entries[k].id = id
            BY <1>1, <2>2, PlaceIs
        <3>2. i \in 1..Len(h) /\ g[i] = h[i]
            BY <1>1, <2>1, <3>1
        <3> QED
            BY <3>1, <3>2, PlaceIs
    <2>3. ASSUME p \in PlacesIn(h, id) PROVE p \in PlacesIn(g, id)
        <3>1. PICK i \in 1..Len(h), k \in Nat :
                  /\ k \in 1..Len(h[i].entries) /\ p = <<i, k>>
                  /\ h[i].state # "RolledBack" /\ h[i].entries[k].id = id
            BY <2>3, PlaceIs
        <3>2. i \in 1..Len(g) /\ g[i] = h[i]
            BY <1>1, <3>1
        <3> QED
            BY <1>1, <3>1, <3>2, PlaceIs
    <2> QED
        BY <2>2, <2>3
<1>3. ASSUME NEW id \in ObjectIds, NEW p \in PlacesIn(h, id)
      PROVE  EntryAt(g, p) = EntryAt(h, p)
    <2>1. PICK i \in 1..Len(h), k \in Nat : k \in 1..Len(h[i].entries) /\ p = <<i, k>>
        BY PlaceIs
    <2> QED
        BY <1>1, <2>1 DEF EntryAt
<1>4. ASSUME NEW id \in ObjectIds PROVE PlacesIn(g, id) = PlacesIn(h, id)
    <2>1. \A p : p \in PlacesIn(g, id) <=> p \in PlacesIn(h, id)
        BY <1>2
    <2> QED
        BY <2>1
<1>5. /\ Story(h) => Story(g)
      /\ \A objs : Tells(h, objs) => Tells(g, objs)
    BY <1>3, <1>4, StoryMoves
<1> QED
    BY <1>5 DEF g

\* A commit changes nothing of the story.
LEMMA StoryCommitted ==
    ASSUME NEW h \in Seq(TxRecord), NEW r \in TxRecord, NEW t \in TxRecord,
           r.entries = t.entries, r.state # "RolledBack", t.state # "RolledBack"
    PROVE  /\ Story(Append(h, r)) => Story(Append(h, t))
           /\ \A objs : Tells(Append(h, r), objs) => Tells(Append(h, t), objs)
<1> DEFINE f == Append(h, r)
           g == Append(h, t)
<1>1. /\ f \in Seq(TxRecord) /\ g \in Seq(TxRecord)
      /\ Len(h) \in Nat /\ Len(f) = Len(h) + 1 /\ Len(g) = Len(f)
      /\ \A i \in 1..Len(f) : /\ f[i].entries = g[i].entries
                              /\ f[i].state = "RolledBack" <=> g[i].state = "RolledBack"
    OBVIOUS
<1> HIDE DEF f, g
<1>2. ASSUME NEW id \in ObjectIds, NEW p
      PROVE  p \in PlacesIn(g, id) <=> p \in PlacesIn(f, id)
    <2>1. ASSUME NEW u \in Seq(TxRecord), NEW v \in Seq(TxRecord), Len(u) = Len(v),
                 \A i \in 1..Len(u) : /\ u[i].entries = v[i].entries
                                      /\ u[i].state = "RolledBack" <=> v[i].state = "RolledBack",
                 p \in PlacesIn(u, id)
          PROVE  p \in PlacesIn(v, id)
        <3>1. PICK i \in 1..Len(u), k \in Nat :
                  /\ k \in 1..Len(u[i].entries) /\ p = <<i, k>>
                  /\ u[i].state # "RolledBack" /\ u[i].entries[k].id = id
            BY <2>1, PlaceIs
        <3>2. /\ i \in 1..Len(v) /\ k \in 1..Len(v[i].entries) /\ p = <<i, k>>
              /\ v[i].state # "RolledBack" /\ v[i].entries[k].id = id
            BY <2>1, <3>1
        <3> QED
            BY <3>2, PlaceIs
    <2> QED
        BY <1>1, <2>1
<1>3. ASSUME NEW id \in ObjectIds, NEW p \in PlacesIn(f, id)
      PROVE  EntryAt(g, p) = EntryAt(f, p)
    <2>1. PICK i \in 1..Len(f), k \in Nat : k \in 1..Len(f[i].entries) /\ p = <<i, k>>
        BY <1>1, PlaceIs
    <2> QED
        BY <1>1, <2>1 DEF EntryAt
<1>4. ASSUME NEW id \in ObjectIds PROVE PlacesIn(g, id) = PlacesIn(f, id)
    <2>1. \A p : p \in PlacesIn(g, id) <=> p \in PlacesIn(f, id)
        BY <1>2
    <2> QED
        BY <2>1
<1>5. /\ Story(f) => Story(g)
      /\ \A objs : Tells(f, objs) => Tells(g, objs)
    BY <1>3, <1>4, StoryMoves
<1> QED
    BY <1>5 DEF f, g

\* The record r of the objects objs is continued to t with the entry e, and they are next.
GoesOn(h, r, t, e, objs, next) ==
    /\ h \in Seq(TxRecord) /\ r \in TxRecord /\ t \in TxRecord /\ e \in JournalEntry
    /\ t.entries = Append(r.entries, e)
    /\ r.state # "RolledBack" /\ t.state # "RolledBack"
    /\ Story(Append(h, r)) /\ Tells(Append(h, r), objs)
    /\ e.previous = objs[e.id].name /\ e.new = next[e.id].name
    /\ \A id \in ObjectIds : id # e.id => next[id] = objs[id]

\* A new entry continues the story of its object: it found what was left, and is the last.
LEMMA StoryGoesOn ==
    ASSUME NEW h, NEW r, NEW t, NEW e, NEW objs, NEW next, GoesOn(h, r, t, e, objs, next)
    PROVE  Story(Append(h, t)) /\ Tells(Append(h, t), next)
<1> USE DEF GoesOn
<1> DEFINE f == Append(h, r)
           g == Append(h, t)
           new == <<Len(h) + 1, Len(r.entries) + 1>>
<1>0. r.entries \in Seq(JournalEntry) /\ e.id \in ObjectIds
    BY DEF TxRecord, JournalEntry
<1>1. /\ f \in Seq(TxRecord) /\ g \in Seq(TxRecord)
      /\ Len(h) \in Nat /\ Len(f) = Len(h) + 1 /\ Len(g) = Len(h) + 1
      /\ f[Len(h) + 1] = r /\ g[Len(h) + 1] = t
      /\ \A i \in 1..Len(h) : f[i] = h[i] /\ g[i] = h[i]
    OBVIOUS
<1>2. /\ Len(r.entries) \in Nat /\ Len(t.entries) = Len(r.entries) + 1
      /\ t.entries[Len(r.entries) + 1] = e
      /\ \A k \in 1..Len(r.entries) : t.entries[k] = r.entries[k]
    BY <1>0
<1> HIDE DEF f, g
<1>3. ASSUME NEW id \in ObjectIds, NEW p \in PlacesIn(f, id)
      PROVE  /\ p \in PlacesIn(g, id) /\ EntryAt(g, p) = EntryAt(f, p)
             /\ Record!Earlier(p, new) /\ ~Record!Earlier(new, p)
    <2>1. PICK i \in 1..Len(f), k \in Nat :
              /\ k \in 1..Len(f[i].entries) /\ p = <<i, k>>
              /\ f[i].state # "RolledBack" /\ f[i].entries[k].id = id
        BY <1>1, PlaceIs
    <2>2. CASE i \in 1..Len(h)
        <3>1. p \in PlacesIn(g, id)
            BY <1>1, <2>1, <2>2, PlaceIs
        <3>2. i < Len(h) + 1 /\ i # Len(h) + 1 /\ ~(Len(h) + 1 < i)
            BY <1>1, <2>2
        <3> QED
            BY <1>1, <2>1, <2>2, <3>1, <3>2 DEF EntryAt, Record!Earlier
    <2>3. CASE i = Len(h) + 1
        <3>1. k \in 1..Len(r.entries) /\ k \in 1..Len(t.entries) /\ t.entries[k] = r.entries[k]
            BY <1>1, <1>2, <2>1, <2>3
        <3>2. p \in PlacesIn(g, id)
            <4>1. /\ i \in 1..Len(g) /\ f[i] = r /\ g[i] = t
                  /\ g[i].entries[k].id = id /\ k \in 1..Len(g[i].entries)
                BY <1>1, <2>1, <2>3, <3>1
            <4> QED
                BY <1>1, <2>1, <4>1, PlaceIs
        <3>3. k < Len(r.entries) + 1 /\ ~(Len(r.entries) + 1 < k) /\ ~(Len(h) + 1 < Len(h) + 1)
            BY <1>1, <1>2, <3>1
        <3> QED
            BY <1>1, <2>1, <2>3, <3>1, <3>2, <3>3 DEF EntryAt, Record!Earlier
    <2> QED
        BY <1>1, <2>2, <2>3
<1>4. new \in PlacesIn(g, e.id) /\ EntryAt(g, new) = e
    <2> DEFINE i == Len(h) + 1
               k == Len(r.entries) + 1
    <2>1. /\ i \in 1..Len(g) /\ g[i] = t /\ t.state # "RolledBack"
          /\ k \in Nat /\ k \in 1..Len(t.entries) /\ t.entries[k] = e
        BY <1>1, <1>2
    <2>2. new = <<i, k>>
        OBVIOUS
    <2> HIDE DEF i, k, new
    <2>3. EntryAt(g, new) = e
        BY <2>1, <2>2 DEF EntryAt
    <2>4. new \in PlacesIn(g, e.id)
        <3>1. g \in Seq(TxRecord)
            BY <1>1
        <3>2. /\ i \in 1..Len(g) /\ k \in Nat /\ k \in 1..Len(g[i].entries)
              /\ g[i].state # "RolledBack" /\ g[i].entries[k].id = e.id
            BY <2>1
        <3> QED
            BY <2>2, <3>1, <3>2, PlaceIs
    <2> QED
        BY <2>3, <2>4
<1>5. ASSUME NEW id \in ObjectIds, NEW p \in PlacesIn(g, id), p \notin PlacesIn(f, id)
      PROVE  p = new /\ id = e.id
    <2>1. PICK i \in 1..Len(g), k \in Nat :
              /\ k \in 1..Len(g[i].entries) /\ p = <<i, k>>
              /\ g[i].state # "RolledBack" /\ g[i].entries[k].id = id
        BY <1>1, PlaceIs
    <2>2. i = Len(h) + 1
        <3>1. ASSUME i \in 1..Len(h) PROVE FALSE
            BY <1>1, <1>5, <2>1, <3>1, PlaceIs
        <3> QED
            BY <1>1, <3>1
    <2>3. k = Len(r.entries) + 1
        <3>1. ASSUME k \in 1..Len(r.entries) PROVE FALSE
            <4>1. f[i] = r /\ g[i] = t /\ r.entries[k] = t.entries[k] /\ i \in 1..Len(f)
                BY <1>1, <1>2, <2>2, <3>1
            <4>2. /\ k \in 1..Len(f[i].entries) /\ f[i].state # "RolledBack"
                  /\ f[i].entries[k].id = id
                BY <2>1, <3>1, <4>1
            <4>3. p \in PlacesIn(f, id)
                BY <1>1, <2>1, <4>1, <4>2, PlaceIs
            <4> QED
                BY <1>5, <4>3
        <3> QED
            BY <1>1, <1>2, <2>1, <2>2, <3>1
    <2> QED
        BY <1>1, <1>2, <2>1, <2>2, <2>3
<1>6. ~Record!Earlier(new, new)
    BY <1>1, <1>2 DEF Record!Earlier
<1> HIDE DEF new
<1>7. ASSUME NEW id \in ObjectIds, NEW places \in SUBSET PlacesIn(f, id), NEW name,
             LeftIn(f, places, name)
      PROVE  LeftIn(g, places, name)
    BY <1>3, <1>7 DEF LeftIn
<1>8. ASSUME NEW id \in ObjectIds, NEW p \in PlacesIn(f, id)
      PROVE  LeftIn(g, {q \in PlacesIn(g, id) : Record!Earlier(q, p)}, EntryAt(g, p).previous)
    <2> DEFINE before == {q \in PlacesIn(f, id) : Record!Earlier(q, p)}
    <2>1. {q \in PlacesIn(g, id) : Record!Earlier(q, p)} = before
        BY <1>3, <1>5, <1>8
    <2>2. LeftIn(f, before, EntryAt(f, p).previous)
        BY <1>8 DEF Story, f
    <2>3. before \in SUBSET PlacesIn(f, id)
        OBVIOUS
    <2> HIDE DEF before
    <2>4. LeftIn(g, before, EntryAt(f, p).previous)
        BY <1>7, <2>2, <2>3
    <2> QED
        BY <1>3, <1>8, <2>1, <2>4
<1>9. LeftIn(g, {q \in PlacesIn(g, e.id) : Record!Earlier(q, new)}, EntryAt(g, new).previous)
    <2>1. {q \in PlacesIn(g, e.id) : Record!Earlier(q, new)} = PlacesIn(f, e.id)
        BY <1>0, <1>3, <1>5, <1>6
    <2>2. LeftIn(f, PlacesIn(f, e.id), e.previous)
        BY <1>0 DEF Tells, f
    <2>3. LeftIn(g, PlacesIn(f, e.id), e.previous)
        BY <1>0, <1>7, <2>2
    <2> QED
        BY <1>4, <2>1, <2>3
<1>10. Story(g)
    BY <1>5, <1>8, <1>9 DEF Story
<1>11. ASSUME NEW id \in ObjectIds, id # e.id
       PROVE  LeftIn(g, PlacesIn(g, id), next[id].name)
    <2>1. PlacesIn(g, id) = PlacesIn(f, id)
        BY <1>3, <1>5, <1>11
    <2>2. LeftIn(f, PlacesIn(f, id), objs[id].name)
        BY DEF Tells, f
    <2> QED
        BY <1>7, <1>11, <2>1, <2>2
<1>12. LeftIn(g, PlacesIn(g, e.id), next[e.id].name)
    <2>1. ASSUME NEW p \in PlacesIn(g, e.id), \A q \in PlacesIn(g, e.id) : ~Record!Earlier(p, q)
          PROVE  next[e.id].name = EntryAt(g, p).new
        <3>1. p = new
            BY <1>0, <1>3, <1>4, <1>5, <2>1
        <3> QED
            BY <1>4, <3>1
    <2> QED
        BY <1>4, <2>1 DEF LeftIn
<1>13. Tells(g, next)
    BY <1>11, <1>12, Zenon DEF Tells
<1> QED
    BY <1>10, <1>13 DEF g

\* A change that is logged and journaled.
LEMMA LogGrows ==
    ASSUME NEW l \in Seq(Logged), NEW entries \in Seq(JournalEntry), Len(l) = Len(entries),
           NEW objs \in [ObjectIds -> Kept], NEW were, Undoes(l, entries, objs, were, FALSE),
           NEW e \in JournalEntry, NEW c \in Logged, NEW next \in Kept,
           c.id = e.id, c.before = objs[e.id], e.previous = objs[e.id].name, e.new = next.name,
           next # Record!Nothing /\ objs[e.id] # Record!Nothing =>
               next.created = objs[e.id].created
    PROVE  Undoes(Append(l, c), Append(entries, e), [objs EXCEPT ![e.id] = next], were, FALSE)
<1> DEFINE m == Append(l, c)
           es == Append(entries, e)
           os == [objs EXCEPT ![e.id] = next]
           n == Len(l)
<1>1. /\ n \in Nat /\ Len(m) = n + 1 /\ Len(es) = n + 1
      /\ m[n + 1] = c /\ es[n + 1] = e
      /\ \A k \in 1..n : m[k] = l[k] /\ es[k] = entries[k] /\ l[k] \in Logged
    OBVIOUS
<1>2. e.id \in ObjectIds /\ c.id \in ObjectIds /\ \A k \in 1..n : l[k].id \in ObjectIds
    BY <1>1 DEF JournalEntry, Logged
<1>3. os[e.id] = next /\ \A id \in ObjectIds : id # e.id => os[id] = objs[id]
    BY <1>2
<1>4. /\ Paired(l, entries) /\ Chained(l, entries) /\ LastIsThere(l, entries, objs)
      /\ FirstWasThere(l, were) /\ RestIsThere(l, entries, objs, were, FALSE)
    BY DEF Undoes
<1> HIDE DEF m, es, os
<1>5. Paired(m, es)
    <2>1. ASSUME NEW k \in 1..Len(m)
          PROVE  es[k].id = m[k].id /\ es[k].previous = m[k].before.name
        <3>1. CASE k \in 1..n
            BY <1>1, <1>4, <3>1 DEF Paired
        <3>2. CASE k = n + 1
            BY <1>1, <3>2
        <3> QED
            BY <1>1, <3>1, <3>2
    <2> QED
        BY <1>1, <2>1 DEF Paired
<1>6. Chained(m, es)
    <2> SUFFICES ASSUME NEW j \in 1..Len(m), NEW k \in 1..Len(m), j < k, m[j].id = m[k].id,
                        \A i \in 1..Len(m) : j < i /\ i < k => m[i].id # m[k].id
                 PROVE  Continues(m[k].before, es[j], m[j].before)
        BY Zenon DEF Chained
    <2>1. j \in 1..n /\ m[j] = l[j] /\ es[j] = entries[j]
        BY <1>1
    <2>2. CASE k \in 1..n
        <3>1. ASSUME NEW i \in 1..n, j < i, i < k PROVE l[i].id # l[k].id
            <4>1. i \in 1..Len(m) /\ m[i] = l[i] /\ m[k] = l[k]
                BY <1>1, <2>2
            <4> QED
                BY <3>1, <4>1
        <3>2. m[k] = l[k] /\ l[j].id = l[k].id
            BY <1>1, <2>1, <2>2
        <3> QED
            BY <1>4, <2>1, <2>2, <3>1, <3>2 DEF Chained
    <2>3. CASE k = n + 1
        <3>1. m[k] = c /\ l[j].id = e.id
            BY <1>1, <2>1, <2>3
        <3>2. \A i \in 1..n : j < i => l[i].id # l[j].id
            BY <1>1, <2>3, <3>1
        <3>3. Continues(objs[l[j].id], entries[j], l[j].before)
            BY <1>4, <2>1, <3>2 DEF LastIsThere
        <3> QED
            BY <2>1, <3>1, <3>3
    <2>4. k \in 1..n \/ k = n + 1
        BY <1>1
    <2> QED
        BY <2>2, <2>3, <2>4
<1>7. LastIsThere(m, es, os)
    <2> SUFFICES ASSUME NEW j \in 1..Len(m), \A i \in 1..Len(m) : j < i => m[i].id # m[j].id
                 PROVE  Continues(os[m[j].id], es[j], m[j].before)
        BY Zenon DEF LastIsThere
    <2>1. CASE j \in 1..n
        <3>1. l[j].id # e.id
            BY <1>1, <2>1
        <3>2. \A i \in 1..n : j < i => l[i].id # l[j].id
            BY <1>1, <2>1
        <3>3. Continues(objs[l[j].id], entries[j], l[j].before)
            BY <1>4, <2>1, <3>2 DEF LastIsThere
        <3>4. os[l[j].id] = objs[l[j].id] /\ m[j] = l[j] /\ es[j] = entries[j]
            BY <1>1, <1>2, <1>3, <2>1, <3>1
        <3> QED
            BY <3>3, <3>4
    <2>2. CASE j = n + 1
        <3>1. m[j] = c /\ es[j] = e
            BY <1>1, <2>2
        <3> QED
            BY <1>3, <3>1 DEF Continues
    <2> QED
        BY <1>1, <2>1, <2>2
<1>8. FirstWasThere(m, were)
    <2> SUFFICES ASSUME NEW j \in 1..Len(m), \A i \in 1..Len(m) : i < j => m[i].id # m[j].id
                 PROVE  m[j].before = were[m[j].id]
        BY Zenon DEF FirstWasThere
    <2>1. CASE j \in 1..n
        <3>1. \A i \in 1..n : i < j => l[i].id # l[j].id
            BY <1>1, <2>1
        <3> QED
            BY <1>1, <1>4, <2>1, <3>1 DEF FirstWasThere
    <2>2. CASE j = n + 1
        <3>1. m[j] = c
            BY <1>1, <2>2
        <3>2. \A i \in 1..n : l[i].id # e.id
            BY <1>1, <2>2, <3>1
        <3>3. objs[e.id] = were[e.id]
            BY <1>2, <1>4, <3>2 DEF RestIsThere
        <3> QED
            BY <3>1, <3>3
    <2> QED
        BY <1>1, <2>1, <2>2
<1>9. RestIsThere(m, es, os, were, FALSE)
    <2> SUFFICES ASSUME NEW id \in ObjectIds, \A i \in 1..Len(m) : m[i].id # id
                 PROVE  os[id] = were[id]
        BY Zenon DEF RestIsThere
    <2>1. id # e.id
        BY <1>1
    <2>2. \A i \in 1..n : l[i].id # id
        BY <1>1
    <2>3. objs[id] = were[id]
        BY <1>4, <2>2 DEF RestIsThere
    <2> QED
        BY <1>3, <2>1, <2>3
<1> QED
    BY <1>5, <1>6, <1>7, <1>8, <1>9 DEF Undoes, m, es, os

\* The object of c, the last change of the log, becomes y.
LastUndone(l, entries, objs, were, c, y, time) ==
    /\ l \in Seq(Logged) /\ l # <<>> /\ entries \in Seq(JournalEntry)
    /\ objs \in [ObjectIds -> Kept] /\ were \in [ObjectIds -> Kept]
    /\ Undoes(l, entries, objs, were, TRUE)
    /\ c = l[Len(l)]
    /\ Absent \notin Names
    /\ time \in Nat /\ \A k \in 1..Len(entries) : entries[k].at <= time
    /\ IF objs[c.id] # Record!Nothing /\ c.before # Record!Nothing
       THEN y = [c.before EXCEPT !.created = objs[c.id].created, !.modified = time]
       ELSE y = c.before

\* Undoing the last change of the log.
LEMMA LogShrinks ==
    ASSUME NEW l, NEW entries, NEW objs, NEW were, NEW c, NEW y, NEW time,
           LastUndone(l, entries, objs, were, c, y, time)
    PROVE  Undoes(SubSeq(l, 1, Len(l) - 1), entries, [objs EXCEPT ![c.id] = y], were, TRUE)
<1> USE DEF LastUndone
<1> DEFINE m == SubSeq(l, 1, Len(l) - 1)
           os == [objs EXCEPT ![c.id] = y]
           n == Len(l)
<1>1. n \in Nat /\ n > 0
    OBVIOUS
<1>2. /\ Len(m) = n - 1 /\ \A k \in 1..(n - 1) : m[k] = l[k]
      /\ \A k \in 1..n : l[k] \in Logged
    <2>1. n - 1 \in Nat /\ 1..(n - 1) \subseteq 1..n
        BY <1>1
    <2>2. m = [k \in 1..(n - 1) |-> l[k]]
        BY <2>1
    <2> HIDE DEF m, n
    <2>3. Len(m) = n - 1
        BY <2>1, <2>2
    <2>4. \A k \in 1..n : l[k] \in Logged
        BY DEF n
    <2> QED
        BY <2>1, <2>2, <2>3, <2>4
<1>3. c.id \in ObjectIds /\ c.before \in Kept /\ \A k \in 1..n : l[k].id \in ObjectIds
    BY <1>1, <1>2 DEF Logged
<1>4. os[c.id] = y /\ \A id \in ObjectIds : id # c.id => os[id] = objs[id]
    BY <1>3
<1>5. /\ Paired(l, entries) /\ Chained(l, entries) /\ LastIsThere(l, entries, objs)
      /\ FirstWasThere(l, were) /\ RestIsThere(l, entries, objs, were, TRUE)
    BY DEF Undoes
<1> HIDE DEF m, os
<1>6. \A i \in 1..n : n < i => l[i].id # l[n].id
    BY <1>1
<1>7. Continues(objs[c.id], entries[n], c.before)
    BY <1>1, <1>5, <1>6 DEF LastIsThere
<1>8. /\ entries[n].id = c.id /\ entries[n].previous = c.before.name
      /\ n \in 1..Len(entries) /\ Len(entries) \in Nat
    BY <1>1, <1>5 DEF Paired
<1>9. /\ y.name = c.before.name
      /\ y # Record!Nothing => c.before # Record!Nothing /\ y.created = c.before.created
    <2>1. CASE objs[c.id] # Record!Nothing /\ c.before # Record!Nothing
        <3>1. y = [c.before EXCEPT !.created = objs[c.id].created, !.modified = time]
            BY <2>1
        <3>2. objs[c.id].created = c.before.created
            BY <1>7, <2>1 DEF Continues
        <3> QED
            BY <1>3, <2>1, <3>1, <3>2 DEF Kept, Record!Nothing
    <2>2. CASE ~(objs[c.id] # Record!Nothing /\ c.before # Record!Nothing)
        BY <2>2
    <2> QED
        BY <2>1, <2>2
<1>10. Paired(m, entries)
    BY <1>1, <1>2, <1>5, <1>8 DEF Paired
<1>11. Chained(m, entries)
    <2> SUFFICES ASSUME NEW j \in 1..Len(m), NEW k \in 1..Len(m), j < k, m[j].id = m[k].id,
                        \A i \in 1..Len(m) : j < i /\ i < k => m[i].id # m[k].id
                 PROVE  Continues(m[k].before, entries[j], m[j].before)
        BY Zenon DEF Chained
    <2>1. j \in 1..n /\ k \in 1..n /\ m[j] = l[j] /\ m[k] = l[k]
        BY <1>1, <1>2
    <2>2. ASSUME NEW i \in 1..n, j < i, i < k PROVE l[i].id # l[k].id
        <3>1. i \in 1..Len(m) /\ m[i] = l[i]
            BY <1>1, <1>2, <2>2
        <3> QED
            BY <2>1, <2>2, <3>1
    <2> QED
        BY <1>5, <2>1, <2>2 DEF Chained
<1>12. LastIsThere(m, entries, os)
    <2> SUFFICES ASSUME NEW j \in 1..Len(m), \A i \in 1..Len(m) : j < i => m[i].id # m[j].id
                 PROVE  Continues(os[m[j].id], entries[j], m[j].before)
        BY Zenon DEF LastIsThere
    <2>1. j \in 1..n /\ n \in 1..n /\ j < n /\ m[j] = l[j]
        BY <1>1, <1>2
    <2>2. ASSUME NEW i \in 1..n, j < i, i < n PROVE l[i].id # l[j].id
        <3>1. i \in 1..Len(m) /\ m[i] = l[i]
            BY <1>1, <1>2, <2>2
        <3> QED
            BY <2>1, <2>2, <3>1
    <2>3. CASE l[j].id = c.id
        <3>1. \A i \in 1..n : j < i /\ i < n => l[i].id # l[n].id
            BY <2>2, <2>3
        <3>2. Continues(c.before, entries[j], l[j].before)
            BY <1>5, <2>1, <2>3, <3>1 DEF Chained
        <3> QED
            BY <1>4, <1>9, <2>1, <2>3, <3>2 DEF Continues
    <2>4. CASE l[j].id # c.id
        <3>1. \A i \in 1..n : j < i => l[i].id # l[j].id
            BY <1>1, <2>2, <2>4
        <3>2. Continues(objs[l[j].id], entries[j], l[j].before)
            BY <1>5, <2>1, <3>1 DEF LastIsThere
        <3>3. os[l[j].id] = objs[l[j].id]
            BY <1>3, <1>4, <2>1, <2>4
        <3> QED
            BY <2>1, <3>2, <3>3
    <2> QED
        BY <2>3, <2>4
<1>13. FirstWasThere(m, were)
    <2> SUFFICES ASSUME NEW j \in 1..Len(m), \A i \in 1..Len(m) : i < j => m[i].id # m[j].id
                 PROVE  m[j].before = were[m[j].id]
        BY Zenon DEF FirstWasThere
    <2>1. j \in 1..n /\ m[j] = l[j]
        BY <1>1, <1>2
    <2>2. ASSUME NEW i \in 1..n, i < j PROVE l[i].id # l[j].id
        <3>1. i \in 1..Len(m) /\ m[i] = l[i]
            BY <1>1, <1>2, <2>2
        <3> QED
            BY <2>1, <2>2, <3>1
    <2> QED
        BY <1>5, <2>1, <2>2 DEF FirstWasThere
<1>14. RestIsThere(m, entries, os, were, TRUE)
    <2> SUFFICES ASSUME NEW id \in ObjectIds, \A i \in 1..Len(m) : m[i].id # id
                 PROVE  os[id] = were[id] \/ Restamped(os[id], were[id], id, entries)
        BY Zenon DEF RestIsThere
    <2>1. ASSUME NEW i \in 1..n, i # n PROVE l[i].id # id
        <3>1. i \in 1..Len(m) /\ m[i] = l[i]
            BY <1>1, <1>2, <2>1
        <3> QED
            BY <3>1
    <2>2. CASE id # c.id
        <3>1. \A i \in 1..n : l[i].id # id
            BY <2>1, <2>2
        <3>2. objs[id] = were[id] \/ Restamped(objs[id], were[id], id, entries)
            BY <1>5, <3>1 DEF RestIsThere
        <3> QED
            BY <1>4, <2>2, <3>2
    <2>3. CASE id = c.id
        <3>1. \A i \in 1..n : i < n => l[i].id # l[n].id
            BY <1>1, <2>1, <2>3
        <3>2. n \in 1..n
            BY <1>1
        <3>3. c.before = were[id]
            BY <1>5, <2>3, <3>1, <3>2 DEF FirstWasThere
        <3>4. CASE objs[c.id] # Record!Nothing /\ c.before # Record!Nothing
            <4>1. y = [c.before EXCEPT !.created = objs[c.id].created, !.modified = time]
                BY <3>4
            <4>2. objs[c.id].created = c.before.created /\ entries[n].new = objs[c.id].name
                BY <1>7, <3>4 DEF Continues
            <4>3. objs[c.id] \in Kept
                BY <1>3
            <4>4. c.before.name # Absent /\ objs[c.id].name # Absent
                BY <1>3, <3>4, <4>3 DEF Kept
            <4>5. y = [c.before EXCEPT !.modified = y.modified] /\ y.modified = time
                BY <1>3, <3>4, <4>1, <4>2 DEF Kept
            <4>6. /\ entries[n].id = id /\ Absent \notin {entries[n].previous, entries[n].new}
                  /\ entries[n].at <= y.modified /\ n \in 1..Len(entries)
                BY <1>8, <2>3, <4>2, <4>4, <4>5
            <4>7. Restamped(y, c.before, id, entries)
                BY <4>5, <4>6 DEF Restamped
            <4> QED
                BY <1>4, <2>3, <3>3, <4>7
        <3>5. CASE ~(objs[c.id] # Record!Nothing /\ c.before # Record!Nothing)
            BY <1>4, <2>3, <3>3, <3>5
        <3> QED
            BY <3>4, <3>5
    <2> QED
        BY <2>2, <2>3
<1> QED
    BY <1>10, <1>11, <1>12, <1>13, <1>14 DEF Undoes, m, os

LEMMA HistoryIs ==
    ASSUME RecordTypeOK
    PROVE  /\ tx = <<>> => Record!History = closed
           /\ tx # <<>> => Record!History = Append(closed, tx[1])
<1>1. closed \in Seq(TxRecord)
    BY DEF RecordTypeOK
<1>2. CASE tx = <<>>
    BY <1>1, <1>2 DEF Record!History
<1>3. CASE tx # <<>>
    <2>1. tx = <<tx[1]>> /\ tx[1] \in TxRecord
        BY <1>3 DEF RecordTypeOK
    <2> DEFINE r == tx[1]
    <2>2. Record!History = closed \o <<r>>
        BY <2>1 DEF Record!History
    <2> HIDE DEF r
    <2>3. r \in TxRecord
        BY <2>1 DEF r
    <2>4. closed \o <<r>> = Append(closed, r)
        BY <1>1, <2>3
    <2> QED
        BY <1>3, <2>2, <2>4 DEF r
<1> QED
    BY <1>2, <1>3

\* What can become of an object in a call.
Changes(id, next) ==
    /\ next \in Kept /\ Stamped(next, clock)
    /\ next # Record!Nothing /\ records[id] # Record!Nothing => next.created = records[id].created

\* journal_operation, and the record as it is written.
WithEntries(r, es) == [r EXCEPT !.entries = es]
LEMMA JournaledIs ==
    ASSUME NEW r \in TxRecord, NEW es \in Seq(JournalEntry), NEW t, t = WithEntries(r, es)
    PROVE  /\ t \in TxRecord /\ t.entries = es
           /\ t.id = r.id /\ t.state = r.state /\ t.opened = r.opened
BY DEF TxRecord, WithEntries

AsWritten(w, r, state, time) ==
    /\ r \in TxRecord /\ state \in {"Committed", "RolledBack"} /\ time \in Nat
    /\ w = [r EXCEPT !.state = state, !.closed = time]
LEMMA WrittenIs ==
    ASSUME NEW w, NEW r, NEW state, NEW time, AsWritten(w, r, state, time)
    PROVE  /\ w \in TxRecord /\ w.entries = r.entries
           /\ w.id = r.id /\ w.state = state /\ w.opened = r.opened /\ w.closed = time
BY DEF TxRecord, AsWritten

\* A mutation within a transaction.
LEMMA MutatedOpenKeeps ==
    ASSUME RecordInv, tx # <<>>, ~undoing, NEW id \in ObjectIds, NEW next, Changes(id, next),
           Record!Mutated(tx[1], id, next), UNCHANGED <<clock, base>>
    PROVE  RecordInv'
<1> DEFINE e == [at |-> clock, id |-> id, previous |-> records[id].name, new |-> next.name]
           t == [tx[1] EXCEPT !.entries = Append(@, e)]
           c == [id |-> id, before |-> records[id]]
<1>1. /\ clock \in Nat /\ tx = <<tx[1]>> /\ tx[1] \in TxRecord /\ tx[1].state = "Opened"
      /\ records \in [ObjectIds -> Kept] /\ base \in [ObjectIds -> Kept]
      /\ closed \in Seq(TxRecord) /\ log \in Seq(Logged) /\ undoing = FALSE
    BY DEF RecordInv, RecordTypeOK
<1>2. /\ tx' = <<t>> /\ log' = Append(log, c) /\ records' = [records EXCEPT ![id] = next]
      /\ UNCHANGED <<undoing, journal, closed>>
    BY DEF Record!Mutated, Record!Journaled
<1>3. records[id] \in Kept /\ next \in Kept
    BY <1>1 DEF Changes
<1>4. records[id].name \in Names \cup {Absent} /\ next.name \in Names \cup {Absent}
    BY <1>3 DEF Kept, Record!Nothing
<1>5. e \in JournalEntry /\ e.id = id /\ e.at = clock
      /\ e.previous = records[id].name /\ e.new = next.name
    BY <1>1, <1>4 DEF JournalEntry
<1>6. c \in Logged /\ c.id = id /\ c.before = records[id]
    BY <1>3 DEF Logged
<1> HIDE DEF e, c
<1>7. tx[1].entries \in Seq(JournalEntry)
    BY <1>1 DEF TxRecord
<1>8. /\ t \in TxRecord /\ t.entries = Append(tx[1].entries, e)
      /\ t.state = "Opened" /\ t.opened = tx[1].opened
    <2> DEFINE es == Append(tx[1].entries, e)
    <2>1. es \in Seq(JournalEntry) /\ t = WithEntries(tx[1], es)
        BY <1>1, <1>5, <1>7 DEF WithEntries
    <2> HIDE DEF es, t
    <2>2. /\ t \in TxRecord /\ t.entries = es /\ t.state = tx[1].state
          /\ t.opened = tx[1].opened
        BY <1>1, <2>1, JournaledIs
    <2> QED
        BY <1>1, <2>2 DEF es
<1> HIDE DEF t
<1>9. tx'[1] = t /\ tx' = <<tx'[1]>> /\ tx' # <<>>
    BY <1>2
<1>10. RecordTypeOK'
    <2>1. records' \in [ObjectIds -> Kept] /\ log' \in Seq(Logged)
        BY <1>1, <1>2, <1>3, <1>6
    <2> QED
        BY <1>1, <1>2, <1>8, <1>9, <2>1 DEF RecordInv, RecordTypeOK
<1>11. LogInv'
    <2>1. Undoes(log, tx[1].entries, records, base, FALSE) /\ Len(log) = Len(tx[1].entries)
        BY <1>1 DEF RecordInv, LogInv
    <2>2. next # Record!Nothing /\ records[id] # Record!Nothing =>
              next.created = records[id].created
        BY DEF Changes
    <2> DEFINE es == tx[1].entries
    <2>3. es \in Seq(JournalEntry) /\ Undoes(log, es, records, base, FALSE) /\ Len(log) = Len(es)
        BY <1>7, <2>1
    <2> HIDE DEF es
    <2>4. Undoes(Append(log, c), Append(es, e), [records EXCEPT ![id] = next], base, FALSE)
        BY <1>1, <1>3, <1>5, <1>6, <2>2, <2>3, LogGrows
    <2>5. Len(Append(log, c)) = Len(Append(es, e))
        BY <1>1, <2>3
    <2>6. t.entries = Append(es, e)
        BY <1>8 DEF es
    <2> QED
        BY <1>1, <1>2, <1>9, <2>4, <2>5, <2>6 DEF LogInv
<1>12. TimesInv'
    <2>1. TimesInv
        BY DEF RecordInv
    <2>2. EntryTimes(t, clock)
        <3>1. EntryTimes(tx[1], clock) /\ tx[1].opened <= clock
            BY <2>1 DEF TimesInv
        <3>2. ASSUME NEW k \in 1..Len(t.entries)
              PROVE  t.opened <= t.entries[k].at /\ t.entries[k].at <= clock
            <4>1. CASE k \in 1..Len(tx[1].entries)
                BY <1>7, <1>8, <3>1, <4>1 DEF EntryTimes
            <4>2. CASE k \notin 1..Len(tx[1].entries)
                <5>1. t.entries[k] = e
                    BY <1>7, <1>8, <4>2
                <5> QED
                    BY <1>1, <1>5, <1>8, <3>1, <5>1
            <4> QED
                BY <4>1, <4>2
        <3> QED
            BY <3>2 DEF EntryTimes
    <2>3. \A i \in ObjectIds : Stamped(records'[i], clock)
        BY <1>1, <1>2, <2>1 DEF TimesInv, Changes
    <2>4. \A k \in 1..Len(log') : Stamped(log'[k].before, clock)
        BY <1>1, <1>2, <1>6, <2>1 DEF TimesInv
    <2> QED
        BY <1>2, <1>8, <1>9, <2>1, <2>2, <2>3, <2>4 DEF TimesInv
<1>13. StoryInv'
    <2>1. /\ Story(closed) /\ Story(Append(closed, tx[1])) /\ Tells(closed, base)
          /\ Tells(Append(closed, tx[1]), records)
        BY DEF RecordInv, StoryInv
    <2>2. records'[id] = next /\ \A i \in ObjectIds : i # id => records'[i] = records[i]
        BY <1>1, <1>2
    <2>3. Story(Append(closed, t)) /\ Tells(Append(closed, t), records')
        <3> DEFINE r == tx[1]
                   n == records'
        <3>1. /\ r \in TxRecord /\ t.entries = Append(r.entries, e)
              /\ t \in TxRecord /\ e \in JournalEntry /\ closed \in Seq(TxRecord)
              /\ e.previous = records[e.id].name
              /\ r.state # "RolledBack" /\ t.state # "RolledBack"
              /\ Story(Append(closed, r)) /\ Tells(Append(closed, r), records)
              /\ n[e.id].name = e.new /\ \A i \in ObjectIds : i # e.id => n[i] = records[i]
            BY <1>1, <1>5, <1>8, <2>1, <2>2
        <3> HIDE DEF r, n
        <3>2. GoesOn(closed, r, t, e, records, n)
            BY <3>1 DEF GoesOn
        <3>3. Story(Append(closed, t)) /\ Tells(Append(closed, t), n)
            BY <3>2, StoryGoesOn
        <3> QED
            BY <3>3 DEF n
    <2> QED
        BY <1>2, <1>9, <2>1, <2>3 DEF StoryInv
<1>14. Record!RollbackOnlyRestamps'
    BY <1>9 DEF Record!RollbackOnlyRestamps
<1> QED
    BY <1>10, <1>11, <1>12, <1>13, <1>14 DEF RecordInv

\* A transaction is opened, and perhaps to be rolled back at once.
LEMMA OpenedKeeps ==
    ASSUME RecordInv, tx = <<>>, NEW t \in TxIds, tx' = <<Record!Opened(t)>>,
           base' = records, undoing' \in BOOLEAN,
           UNCHANGED <<clock, records, log, journal, closed>>
    PROVE  RecordInv'
<1> DEFINE r == Record!Opened(t)
<1>1. /\ clock \in Nat /\ log = <<>> /\ records \in [ObjectIds -> Kept]
      /\ closed \in Seq(TxRecord)
    BY DEF RecordInv, RecordTypeOK
<1>2. /\ r \in TxRecord /\ r.state = "Opened" /\ r.opened = clock /\ r.entries = <<>>
    BY <1>1 DEF Record!Opened, TxRecord
<1>3. tx'[1] = r /\ tx' = <<tx'[1]>> /\ tx' # <<>>
    OBVIOUS
<1> HIDE DEF r
<1>4. RecordTypeOK'
    BY <1>2, <1>3 DEF RecordInv, RecordTypeOK
<1>5. LogInv'
    <2>1. Len(log) = 0 /\ Len(r.entries) = 0
        BY <1>1, <1>2
    <2>2. Undoes(log, r.entries, records, records, undoing')
        BY <2>1 DEF Undoes, Paired, Chained, LastIsThere, FirstWasThere, RestIsThere
    <2> QED
        BY <1>3, <2>1, <2>2 DEF LogInv
<1>6. TimesInv'
    <2>1. closed # <<>> => Len(closed) \in 1..Len(closed)
        BY <1>1
    <2>2. EntryTimes(r, clock)
        BY <1>2 DEF EntryTimes
    <2> QED
        BY <1>1, <1>2, <1>3, <2>1, <2>2 DEF RecordInv, TimesInv
<1>7. StoryInv'
    <2>1. Story(closed) /\ Tells(closed, records)
        BY DEF RecordInv, StoryInv
    <2>2. Story(Append(closed, r)) /\ Tells(Append(closed, r), records)
        BY <1>1, <1>2, <2>1, NothingAdded
    <2> QED
        BY <1>3, <2>1, <2>2 DEF StoryInv
<1>8. Record!RollbackOnlyRestamps'
    BY <1>3 DEF Record!RollbackOnlyRestamps
<1> QED
    BY <1>4, <1>5, <1>6, <1>7, <1>8 DEF RecordInv

\* A record that is journaled ends its transaction.
LEMMA ClosedTimes ==
    ASSUME RecordTypeOK, TimesInv, NEW w \in TxRecord, w.opened <= w.closed, w.closed = clock,
           EntryTimes(w, clock), closed # <<>> => closed[Len(closed)].closed <= w.opened,
           closed' = Append(closed, w), tx' = <<>>, log' = <<>>, clock' = clock,
           \A id \in ObjectIds : Stamped(records'[id], clock)
    PROVE  TimesInv'
<1>1. closed \in Seq(TxRecord) /\ clock \in Nat
    BY DEF RecordTypeOK
<1>2. /\ Len(closed) \in Nat /\ Len(closed') = Len(closed) + 1
      /\ closed'[Len(closed) + 1] = w /\ \A i \in 1..Len(closed) : closed'[i] = closed[i]
    BY <1>1
<1>3. ASSUME NEW i \in 1..Len(closed')
      PROVE  /\ closed'[i].opened <= closed'[i].closed /\ closed'[i].closed <= clock
             /\ EntryTimes(closed'[i], closed'[i].closed)
             /\ i > 1 => closed'[i - 1].closed <= closed'[i].opened
    <2>1. CASE i \in 1..Len(closed)
        <3>1. i > 1 => i - 1 \in 1..Len(closed)
            BY <1>2, <2>1
        <3> QED
            BY <1>2, <2>1, <3>1 DEF TimesInv
    <2>2. CASE i = Len(closed) + 1
        <3>1. i > 1 => closed # <<>> /\ i - 1 = Len(closed) /\ i - 1 \in 1..Len(closed)
            BY <1>1, <1>2, <2>2
        <3>2. closed'[i] = w /\ w.closed <= clock
            BY <1>1, <1>2, <2>2
        <3> QED
            BY <1>2, <3>1, <3>2
    <2> QED
        BY <1>2, <2>1, <2>2
<1>4. Len(log') = 0
    OBVIOUS
<1> QED
    BY <1>3, <1>4 DEF TimesInv

\* A mutation in a transaction of its own.
LEMMA MutatedAloneKeeps ==
    ASSUME RecordInv, tx = <<>>, NEW id \in ObjectIds, NEW next, Changes(id, next),
           NEW t \in TxIds, Record!Mutated(Record!Opened(t), id, next),
           base' = records, clock' = clock
    PROVE  RecordInv'
<1> DEFINE e == [at |-> clock, id |-> id, previous |-> records[id].name, new |-> next.name]
           r == Record!Opened(t)
           w == [[r EXCEPT !.entries = Append(@, e)] EXCEPT !.state = "Committed", !.closed = clock]
<1>1. /\ clock \in Nat /\ log = <<>> /\ ~undoing /\ records \in [ObjectIds -> Kept]
      /\ closed \in Seq(TxRecord) /\ journal \in [TxIds -> Seq(TxRecord)]
      /\ \A i \in 1..Len(closed) : closed[i].state # "Opened"
    BY DEF RecordInv, RecordTypeOK
<1>2. /\ records' = [records EXCEPT ![id] = next]
      /\ Record!Write([r EXCEPT !.entries = Append(@, e)], "Committed")
    BY DEF Record!Mutated, Record!Journaled
<1>3. /\ closed' = Append(closed, w) /\ tx' = <<>> /\ log' = <<>> /\ undoing' = FALSE
      /\ journal' = [journal EXCEPT ![w.id] = <<w>>]
    BY <1>2 DEF Record!Write
<1>4. records[id] \in Kept /\ next \in Kept
    BY <1>1 DEF Changes
<1>5. records[id].name \in Names \cup {Absent} /\ next.name \in Names \cup {Absent}
    BY <1>4 DEF Kept, Record!Nothing
<1>6. e \in JournalEntry /\ e.id = id /\ e.at = clock
      /\ e.previous = records[id].name /\ e.new = next.name
    BY <1>1, <1>5 DEF JournalEntry
<1> HIDE DEF e
<1>7. /\ r \in TxRecord /\ r.state = "Opened" /\ r.opened = clock /\ r.entries = <<>> /\ r.id = t
    BY <1>1 DEF Record!Opened, TxRecord
<1> HIDE DEF r
<1>8. /\ w \in TxRecord /\ w.state = "Committed" /\ w.opened = clock /\ w.closed = clock
      /\ w.entries = Append(r.entries, e) /\ w.id = t
    <2> DEFINE es == Append(r.entries, e)
               j == WithEntries(r, es)
    <2>1. es \in Seq(JournalEntry)
        BY <1>6, <1>7
    <2>2. w = [j EXCEPT !.state = "Committed", !.closed = clock]
        BY <1>7 DEF WithEntries
    <2> HIDE DEF es, j, w
    <2>3. /\ j \in TxRecord /\ j.entries = es /\ j.opened = r.opened /\ j.id = r.id
        BY <1>7, <2>1, JournaledIs DEF j
    <2>4. /\ w \in TxRecord /\ w.entries = j.entries /\ w.id = j.id /\ w.state = "Committed"
          /\ w.opened = j.opened /\ w.closed = clock
        <3>1. AsWritten(w, j, "Committed", clock)
            BY <1>1, <2>2, <2>3 DEF AsWritten
        <3> QED
            BY <3>1, WrittenIs
    <2> QED
        BY <1>7, <2>3, <2>4 DEF es
<1> HIDE DEF w
<1>9. RecordTypeOK'
    <2>1. /\ records' \in [ObjectIds -> Kept] /\ closed' \in Seq(TxRecord)
          /\ journal' \in [TxIds -> Seq(TxRecord)]
          /\ \A i \in 1..Len(closed') : closed'[i].state # "Opened"
        BY <1>1, <1>2, <1>3, <1>4, <1>8
    <2>2. /\ tx' = <<>> /\ log' = <<>> /\ log' \in Seq(Logged) /\ undoing' = FALSE
          /\ clock' \in Nat /\ base' \in [ObjectIds -> Kept]
        BY <1>1, <1>3
    <2> QED
        BY <2>1, <2>2 DEF RecordTypeOK
<1>10. LogInv'
    BY <1>3 DEF LogInv
<1>11. TimesInv'
    <2>1. TimesInv /\ RecordTypeOK
        BY DEF RecordInv
    <2>2. EntryTimes(w, clock)
        <3>1. Len(w.entries) = 1 /\ w.entries[1] = e
            BY <1>7, <1>8
        <3> QED
            BY <1>1, <1>6, <1>8, <3>1 DEF EntryTimes
    <2>3. \A i \in ObjectIds : Stamped(records'[i], clock)
        BY <1>1, <1>2, <2>1 DEF TimesInv, Changes
    <2>4. closed # <<>> => closed[Len(closed)].closed <= clock
        <3>1. closed # <<>> => Len(closed) \in 1..Len(closed)
            BY <1>1
        <3> QED
            BY <2>1, <3>1 DEF TimesInv
    <2>5. w.opened <= w.closed
        BY <1>1, <1>8
    <2> QED
        BY <1>3, <1>8, <2>1, <2>2, <2>3, <2>4, <2>5, ClosedTimes
<1>12. StoryInv'
    <2>1. Story(closed) /\ Tells(closed, records)
        BY DEF RecordInv, StoryInv
    <2>2. Story(Append(closed, r)) /\ Tells(Append(closed, r), records)
        BY <1>1, <1>7, <2>1, NothingAdded
    <2> DEFINE n == records'
    <2>3. n[e.id].name = e.new /\ \A i \in ObjectIds : i # e.id => n[i] = records[i]
        BY <1>1, <1>2, <1>6
    <2>4. r.state # "RolledBack" /\ w.state # "RolledBack"
        BY <1>7, <1>8
    <2> HIDE DEF n
    <2>5. /\ closed \in Seq(TxRecord) /\ r \in TxRecord /\ w \in TxRecord /\ e \in JournalEntry
          /\ w.entries = Append(r.entries, e) /\ e.previous = records[e.id].name
        BY <1>1, <1>6, <1>7, <1>8
    <2>7. GoesOn(closed, r, w, e, records, n)
        BY <2>2, <2>3, <2>4, <2>5 DEF GoesOn
    <2>6. Story(Append(closed, w)) /\ Tells(Append(closed, w), n)
        BY <2>7, StoryGoesOn
    <2> QED
        BY <1>3, <2>6 DEF StoryInv, n
<1>13. Record!RollbackOnlyRestamps'
    <2>1. closed'[Len(closed')] = w
        BY <1>1, <1>3, <1>8
    <2> QED
        BY <1>8, <2>1 DEF Record!RollbackOnlyRestamps
<1> QED
    BY <1>9, <1>10, <1>11, <1>12, <1>13 DEF RecordInv

\* A call that fails, and rollback_transaction, leave the current transaction to be undone.
LEMMA RefusedKeeps ==
    ASSUME RecordInv, tx # <<>>, Record!Refused(tx[1]), UNCHANGED <<clock, base>>
    PROVE  RecordInv'
<1>1. /\ tx' = tx /\ undoing' = TRUE /\ UNCHANGED <<records, log, journal, closed>>
    BY DEF RecordInv, RecordTypeOK, Record!Refused
<1>2. RecordTypeOK'
    BY <1>1 DEF RecordInv, RecordTypeOK
<1>3. LogInv'
    <2>1. RestIsThere(log, tx[1].entries, records, base, TRUE)
        BY DEF RecordInv, LogInv, Undoes, RestIsThere
    <2> QED
        BY <1>1, <2>1 DEF RecordInv, LogInv, Undoes
<1>4. TimesInv'
    BY <1>1 DEF RecordInv, TimesInv
<1>5. StoryInv'
    BY <1>1 DEF RecordInv, StoryInv
<1>6. Record!RollbackOnlyRestamps'
    BY <1>1 DEF Record!RollbackOnlyRestamps
<1> QED
    BY <1>2, <1>3, <1>4, <1>5, <1>6 DEF RecordInv

\* What writing the record of the current transaction does, committed or rolled back.
LEMMA WriteKeeps ==
    ASSUME RecordTypeOK, TimesInv, tx # <<>>, NEW state \in {"Committed", "RolledBack"},
           Record!Write(tx[1], state), UNCHANGED <<clock, records, base>>
    PROVE  \E w \in TxRecord :
              /\ w.entries = tx[1].entries /\ w.state = state /\ w.closed = clock
              /\ w.id = tx[1].id
              /\ closed' = Append(closed, w) /\ journal' = [journal EXCEPT ![w.id] = <<w>>]
              /\ tx' = <<>> /\ log' = <<>> /\ undoing' = FALSE
              /\ RecordTypeOK' /\ LogInv' /\ TimesInv'
<1> DEFINE w == [tx[1] EXCEPT !.state = state, !.closed = clock]
<1>1. /\ clock \in Nat /\ tx[1] \in TxRecord /\ closed \in Seq(TxRecord)
      /\ journal \in [TxIds -> Seq(TxRecord)] /\ records \in [ObjectIds -> Kept]
      /\ base \in [ObjectIds -> Kept] /\ \A i \in 1..Len(closed) : closed[i].state # "Opened"
    BY DEF RecordTypeOK
<1>2. /\ closed' = Append(closed, w) /\ journal' = [journal EXCEPT ![w.id] = <<w>>]
      /\ tx' = <<>> /\ log' = <<>> /\ undoing' = FALSE
    BY DEF Record!Write
<1>3. /\ w \in TxRecord /\ w.entries = tx[1].entries /\ w.id = tx[1].id /\ w.state = state
      /\ w.opened = tx[1].opened /\ w.closed = clock
    <2>1. AsWritten(w, tx[1], state, clock)
        BY <1>1 DEF AsWritten
    <2> HIDE DEF w
    <2> QED
        BY <2>1, WrittenIs
<1> HIDE DEF w
<1>4. RecordTypeOK'
    <2>1. /\ closed' \in Seq(TxRecord) /\ journal' \in [TxIds -> Seq(TxRecord)]
          /\ \A i \in 1..Len(closed') : closed'[i].state # "Opened"
        <3>1. w.id \in TxIds /\ w.state # "Opened" /\ <<w>> \in Seq(TxRecord)
            BY <1>3 DEF TxRecord
        <3>2. closed' \in Seq(TxRecord) /\ journal' \in [TxIds -> Seq(TxRecord)]
            BY <1>1, <1>2, <1>3, <3>1
        <3>3. \A i \in 1..Len(closed') : closed'[i].state # "Opened"
            BY <1>1, <1>2, <1>3, <3>1
        <3> QED
            BY <3>2, <3>3
    <2>2. /\ tx' = <<>> /\ log' = <<>> /\ log' \in Seq(Logged) /\ undoing' = FALSE
          /\ clock' \in Nat /\ base' \in [ObjectIds -> Kept] /\ records' \in [ObjectIds -> Kept]
        BY <1>1, <1>2
    <2> QED
        BY <2>1, <2>2 DEF RecordTypeOK
<1>5. LogInv'
    BY <1>2 DEF LogInv
<1>6. TimesInv'
    <2>1. /\ tx[1].opened <= clock /\ EntryTimes(tx[1], clock)
          /\ closed # <<>> => closed[Len(closed)].closed <= tx[1].opened
          /\ \A id \in ObjectIds : Stamped(records[id], clock)
        BY DEF TimesInv
    <2>2. /\ w.opened <= w.closed /\ EntryTimes(w, clock)
          /\ closed # <<>> => closed[Len(closed)].closed <= w.opened
          /\ \A id \in ObjectIds : Stamped(records'[id], clock)
        BY <1>3, <2>1 DEF EntryTimes
    <2> QED
        BY <1>2, <1>3, <2>2, ClosedTimes
<1> QED
    BY <1>2, <1>3, <1>4, <1>5, <1>6

LEMMA CommitRecordKeeps ==
    ASSUME RecordInv, tx # <<>>, ~undoing, Record!Write(tx[1], "Committed"),
           UNCHANGED <<clock, records, base>>
    PROVE  RecordInv'
<1>1. /\ tx[1] \in TxRecord /\ tx[1].state = "Opened" /\ closed \in Seq(TxRecord)
    BY DEF RecordInv, RecordTypeOK
<1>2. PICK w \in TxRecord :
              /\ w.entries = tx[1].entries /\ w.state = "Committed" /\ w.closed = clock
              /\ closed' = Append(closed, w) /\ tx' = <<>>
              /\ RecordTypeOK' /\ LogInv' /\ TimesInv'
    <2> DEFINE state == "Committed"
    <2>1. state \in {"Committed", "RolledBack"} /\ Record!Write(tx[1], state)
        OBVIOUS
    <2> HIDE DEF state
    <2>2. \E w \in TxRecord :
              /\ w.entries = tx[1].entries /\ w.state = state /\ w.closed = clock
              /\ w.id = tx[1].id
              /\ closed' = Append(closed, w) /\ journal' = [journal EXCEPT ![w.id] = <<w>>]
              /\ tx' = <<>> /\ log' = <<>> /\ undoing' = FALSE
              /\ RecordTypeOK' /\ LogInv' /\ TimesInv'
        BY <2>1, WriteKeeps DEF RecordInv
    <2> QED
        BY <2>2 DEF state
<1>3. StoryInv'
    <2> DEFINE r == tx[1]
    <2>1. /\ r \in TxRecord /\ w.entries = r.entries
          /\ r.state # "RolledBack" /\ w.state # "RolledBack"
          /\ Story(Append(closed, r)) /\ Tells(Append(closed, r), records)
        BY <1>1, <1>2 DEF RecordInv, StoryInv
    <2> HIDE DEF r
    <2>2. Story(Append(closed, w)) /\ Tells(Append(closed, w), records)
        BY <1>1, <2>1, StoryCommitted
    <2> QED
        BY <1>2, <2>2 DEF StoryInv
<1>4. Record!RollbackOnlyRestamps'
    <2>1. closed'[Len(closed')] = w
        BY <1>1, <1>2
    <2> QED
        BY <1>2, <2>1 DEF Record!RollbackOnlyRestamps
<1> QED
    BY <1>2, <1>3, <1>4 DEF RecordInv

\* One change is undone.
LEMMA UndoLastKeeps ==
    ASSUME Record!RecordsAssumption, RecordInv, Record!UndoLast
    PROVE  RecordInv'
<1> DEFINE c == log[Len(log)]
           y == Record!Undone(records[c.id], c.before)
<1>1. /\ clock \in Nat /\ records \in [ObjectIds -> Kept] /\ base \in [ObjectIds -> Kept]
      /\ log \in Seq(Logged) /\ closed \in Seq(TxRecord)
    BY DEF RecordInv, RecordTypeOK
<1>2. /\ undoing /\ log # <<>> /\ records' = [records EXCEPT ![c.id] = y]
      /\ log' = SubSeq(log, 1, Len(log) - 1)
      /\ UNCHANGED <<clock, tx, undoing, journal, base, closed>>
    BY DEF Record!UndoLast
<1>3. tx # <<>> /\ tx[1] \in TxRecord /\ undoing = TRUE
    <2>1. undoing \in BOOLEAN /\ (tx = <<>> => ~undoing)
          /\ (tx # <<>> => tx[1] \in TxRecord)
        BY DEF RecordInv, RecordTypeOK
    <2> QED
        BY <1>2, <2>1
<1>4. Len(log) \in 1..Len(log) /\ c \in Logged
    BY <1>1, <1>2
<1>5. c.id \in ObjectIds /\ c.before \in Kept /\ records[c.id] \in Kept
    BY <1>1, <1>4 DEF Logged
<1>6. IF records[c.id] # Record!Nothing /\ c.before # Record!Nothing
      THEN y = [c.before EXCEPT !.created = records[c.id].created, !.modified = clock]
      ELSE y = c.before
    BY DEF Record!Undone
<1>7. TimesInv /\ Stamped(records[c.id], clock) /\ Stamped(c.before, clock)
    BY <1>4, <1>5 DEF RecordInv, TimesInv
<1>8. y \in Kept /\ Stamped(y, clock)
    <2>1. CASE records[c.id] # Record!Nothing /\ c.before # Record!Nothing
        <3> DEFINE x == records[c.id]
                   b == c.before
                   Full == [name : Names, created : Nat, modified : Nat]
        <3>1. x \in Full /\ b \in Full /\ x.created <= x.modified /\ x.modified <= clock
            BY <1>5, <1>7, <2>1 DEF Kept, Stamped
        <3>2. y = [b EXCEPT !.created = x.created, !.modified = clock]
            BY <1>6, <2>1
        <3> HIDE DEF x, b
        <3>3. y \in Full /\ y.created = x.created /\ y.modified = clock
            BY <1>1, <3>1, <3>2
        <3>4. y.created <= y.modified /\ y.modified <= clock
            BY <1>1, <3>1, <3>3
        <3> QED
            BY <3>3, <3>4 DEF Kept, Stamped
    <2>2. CASE ~(records[c.id] # Record!Nothing /\ c.before # Record!Nothing)
        BY <1>5, <1>6, <1>7, <2>2
    <2> QED
        BY <2>1, <2>2
<1> HIDE DEF y
<1>9. \A k \in 1..Len(log') : log'[k] \in Logged /\ Stamped(log'[k].before, clock)
    <2> DEFINE n == Len(log)
               m == SubSeq(log, 1, n - 1)
    <2>1. n \in Nat /\ n - 1 \in Nat /\ 1..(n - 1) \subseteq 1..n
        BY <1>1, <1>2
    <2>2. m = [k \in 1..(n - 1) |-> log[k]]
        BY <2>1
    <2>3. \A k \in 1..n : log[k] \in Logged /\ Stamped(log[k].before, clock)
        BY <1>1, <1>7 DEF TimesInv
    <2> HIDE DEF m, n
    <2>4. Len(m) = n - 1
        BY <2>1, <2>2
    <2>5. \A k \in 1..Len(m) : m[k] \in Logged /\ Stamped(m[k].before, clock)
        BY <2>1, <2>2, <2>3, <2>4
    <2> QED
        BY <1>2, <2>5 DEF m, n
<1>10. RecordTypeOK'
    <2>1. log' \in Seq(Logged)
        BY <1>1, <1>2
    <2>2. records' \in [ObjectIds -> Kept]
        BY <1>1, <1>2, <1>5, <1>8
    <2> QED
        BY <1>2, <1>3, <2>1, <2>2 DEF RecordInv, RecordTypeOK
<1>11. LogInv'
    <2> DEFINE es == tx[1].entries
    <2>1. es \in Seq(JournalEntry) /\ \A k \in 1..Len(es) : es[k].at <= clock
        BY <1>3, <1>7 DEF TxRecord, TimesInv, EntryTimes
    <2>2. Undoes(log, es, records, base, TRUE)
        BY <1>3 DEF RecordInv, LogInv
    <2>3. Absent \notin Names
        BY DEF Record!RecordsAssumption
    <2> HIDE DEF es
    <2>4. c = log[Len(log)]
        OBVIOUS
    <2> HIDE DEF c
    <2>5. Undoes(SubSeq(log, 1, Len(log) - 1), es, [records EXCEPT ![c.id] = y], base, TRUE)
        <3>1. LastUndone(log, es, records, base, c, y, clock)
            BY <1>1, <1>2, <1>6, <2>1, <2>2, <2>3, <2>4 DEF LastUndone
        <3> QED
            BY <3>1, LogShrinks
    <2> QED
        BY <1>2, <1>3, <2>5 DEF LogInv, es
<1>12. TimesInv'
    <2>1. \A id \in ObjectIds : Stamped(records'[id], clock)
        <3> SUFFICES ASSUME NEW id \in ObjectIds PROVE Stamped(records'[id], clock)
            OBVIOUS
        <3>1. records'[id] = IF id = c.id THEN y ELSE records[id]
            BY <1>1, <1>2
        <3> QED
            BY <1>7, <1>8, <3>1 DEF TimesInv
    <2> QED
        BY <1>2, <1>7, <1>9, <2>1 DEF TimesInv
<1>13. StoryInv'
    BY <1>2, <1>3 DEF RecordInv, StoryInv
<1>14. Record!RollbackOnlyRestamps'
    BY <1>2, <1>3 DEF Record!RollbackOnlyRestamps
<1> QED
    BY <1>10, <1>11, <1>12, <1>13, <1>14 DEF RecordInv

\* Everything is undone.
LEMMA EndRollbackKeeps ==
    ASSUME RecordInv, tx # <<>>, undoing, log = <<>>, Record!Write(tx[1], "RolledBack"),
           UNCHANGED <<clock, records, base>>
    PROVE  RecordInv'
<1>1. /\ tx[1] \in TxRecord /\ closed \in Seq(TxRecord) /\ clock \in Nat
      /\ records \in [ObjectIds -> Kept] /\ base \in [ObjectIds -> Kept]
    BY DEF RecordInv, RecordTypeOK
<1>2. PICK w \in TxRecord :
              /\ w.entries = tx[1].entries /\ w.state = "RolledBack" /\ w.closed = clock
              /\ closed' = Append(closed, w) /\ tx' = <<>>
              /\ RecordTypeOK' /\ LogInv' /\ TimesInv'
    <2> DEFINE state == "RolledBack"
    <2>1. state \in {"Committed", "RolledBack"} /\ Record!Write(tx[1], state)
        OBVIOUS
    <2> HIDE DEF state
    <2>2. \E w \in TxRecord :
              /\ w.entries = tx[1].entries /\ w.state = state /\ w.closed = clock
              /\ w.id = tx[1].id
              /\ closed' = Append(closed, w) /\ journal' = [journal EXCEPT ![w.id] = <<w>>]
              /\ tx' = <<>> /\ log' = <<>> /\ undoing' = FALSE
              /\ RecordTypeOK' /\ LogInv' /\ TimesInv'
        BY <2>1, WriteKeeps DEF RecordInv
    <2> QED
        BY <2>2 DEF state
<1>3. ASSUME NEW id \in ObjectIds
      PROVE  records[id] = base[id] \/ Restamped(records[id], base[id], id, tx[1].entries)
    <2>1. RestIsThere(log, tx[1].entries, records, base, undoing) /\ Len(log) = 0
        BY DEF RecordInv, LogInv, Undoes
    <2> QED
        BY <2>1 DEF RestIsThere
<1>4. ASSUME NEW id \in ObjectIds PROVE records[id].name = base[id].name
    <2>1. records[id] \in Kept /\ base[id] \in Kept
        BY <1>1
    <2>2. CASE records[id] = [base[id] EXCEPT !.modified = records[id].modified]
        <3> DEFINE x == records[id]
                   b == base[id]
        <3>1. x = [b EXCEPT !.modified = x.modified] /\ b \in Kept
            BY <2>1, <2>2
        <3> HIDE DEF x, b
        <3>2. x.name = b.name
            BY <3>1 DEF Kept, Record!Nothing
        <3> QED
            BY <3>2 DEF x, b
    <2> QED
        BY <1>3, <2>2 DEF Restamped
<1>5. StoryInv'
    <2>1. Story(closed) /\ Tells(closed, base)
        BY DEF RecordInv, StoryInv
    <2>2. Story(Append(closed, w)) /\ Tells(Append(closed, w), base)
        BY <1>1, <1>2, <2>1, NothingAdded
    <2>3. Tells(Append(closed, w), records)
        <3>1. ASSUME NEW id \in ObjectIds
              PROVE  LeftIn(Append(closed, w), PlacesIn(Append(closed, w), id), records[id].name)
            BY <1>4, <2>2 DEF Tells
        <3> QED
            BY <3>1, Zenon DEF Tells
    <2> QED
        BY <1>2, <2>2, <2>3 DEF StoryInv
<1>6. Record!RollbackOnlyRestamps'
    <2>1. closed'[Len(closed')] = w
        BY <1>1, <1>2
    <2>2. ASSUME NEW id \in ObjectIds, records[id] # base[id]
          PROVE  /\ records[id] = [base[id] EXCEPT !.modified = records[id].modified]
                 /\ records[id].modified <= w.closed
                 /\ \E entry \in Record!Entries(w) :
                       /\ entry.id = id /\ Absent \notin {entry.previous, entry.new}
                       /\ entry.at <= records[id].modified
        <3>1. Restamped(records[id], base[id], id, w.entries)
            BY <1>2, <1>3, <2>2
        <3>2. records[id].modified <= w.closed
            BY <1>2 DEF RecordInv, TimesInv, Stamped
        <3>3. w.entries \in Seq(JournalEntry)
            BY DEF TxRecord
        <3>4. \A k \in 1..Len(w.entries) : w.entries[k] \in Record!Entries(w)
            BY <3>3 DEF Record!Entries, Record!Elements
        <3> QED
            BY <3>1, <3>2, <3>4 DEF Restamped
    <2>3. /\ records' = records /\ base' = base
        OBVIOUS
    <2> QED
        BY <2>1, <2>2, <2>3 DEF Record!RollbackOnlyRestamps
<1> QED
    BY <1>2, <1>5, <1>6 DEF RecordInv

\* Nothing has happened yet.
LEMMA NewStory ==
    LET objs == [id \in ObjectIds |-> Record!Nothing]
    IN  Story(<<>>) /\ Tells(<<>>, objs)
<1>1. ASSUME NEW id PROVE PlacesIn(<<>>, id) = {}
    BY DEF PlacesIn
<1> DEFINE objs == [id \in ObjectIds |-> Record!Nothing]
<1>2. ASSUME NEW id \in ObjectIds PROVE LeftIn(<<>>, PlacesIn(<<>>, id), objs[id].name)
    BY <1>1 DEF LeftIn, Record!Nothing
<1> HIDE DEF objs
<1>3. Tells(<<>>, objs)
    BY <1>2, Zenon DEF Tells
<1>4. Story(<<>>)
    BY <1>1 DEF Story
<1> QED
    BY <1>3, <1>4 DEF objs

\* Another repository, which is new.
LEMMA OpenAnotherKeeps ==
    ASSUME RecordInv, Record!OpenAnother
    PROVE  RecordInv'
<1>1. /\ tx = <<>> /\ records' = [id \in ObjectIds |-> Record!Nothing] /\ base' = records'
      /\ journal' = [t \in TxIds |-> <<>>] /\ closed' = <<>>
      /\ UNCHANGED <<clock, tx, log, undoing>>
    BY DEF Record!OpenAnother
<1>2. clock \in Nat /\ log = <<>> /\ ~undoing
    BY <1>1 DEF RecordInv, RecordTypeOK
<1>3. RecordTypeOK'
    <2>1. records' \in [ObjectIds -> Kept] /\ base' \in [ObjectIds -> Kept]
        BY <1>1 DEF Kept
    <2>2. journal' \in [TxIds -> Seq(TxRecord)] /\ closed' \in Seq(TxRecord) /\ Len(closed') = 0
        BY <1>1
    <2>3. log' \in Seq(Logged) /\ log' = <<>> /\ tx' = <<>> /\ ~undoing' /\ undoing' \in BOOLEAN
          /\ clock' \in Nat
        BY <1>1, <1>2 DEF RecordInv, RecordTypeOK
    <2> QED
        BY <2>1, <2>2, <2>3 DEF RecordTypeOK
<1>4. LogInv' /\ Record!RollbackOnlyRestamps'
    BY <1>1 DEF LogInv, Record!RollbackOnlyRestamps
<1>5. TimesInv'
    <2>1. \A id \in ObjectIds : Stamped(records'[id], clock')
        BY <1>1, <1>2 DEF Stamped, Record!Nothing
    <2>2. Len(closed') = 0 /\ Len(log') = 0
        BY <1>1, <1>2
    <2> QED
        BY <1>1, <2>1, <2>2 DEF TimesInv
<1>6. StoryInv'
    BY <1>1, NewStory DEF StoryInv
<1> QED
    BY <1>3, <1>4, <1>5, <1>6 DEF RecordInv

LEMMA TickKeeps ==
    ASSUME RecordInv, Record!Tick
    PROVE  RecordInv'
<1>1. /\ clock \in Nat /\ clock' = clock + 1
      /\ UNCHANGED <<records, tx, log, undoing, journal, base, closed>>
    BY DEF RecordInv, RecordTypeOK, Record!Tick
<1>2. RecordTypeOK' /\ LogInv' /\ StoryInv' /\ Record!RollbackOnlyRestamps'
    BY <1>1 DEF RecordInv, RecordTypeOK, LogInv, StoryInv, Record!RollbackOnlyRestamps
<1>3. TimesInv'
    <2>0. TimesInv /\ RecordTypeOK
        BY DEF RecordInv
    <2>1. \A id \in ObjectIds : Stamped(records[id], clock')
        <3> SUFFICES ASSUME NEW id \in ObjectIds PROVE Stamped(records[id], clock')
            OBVIOUS
        <3>1. records[id] \in Kept /\ Stamped(records[id], clock)
            BY <2>0 DEF TimesInv, RecordTypeOK
        <3> QED
            BY <1>1, <3>1 DEF Stamped, Kept, Record!Nothing
    <2>2. \A k \in 1..Len(log) : Stamped(log[k].before, clock')
        <3> SUFFICES ASSUME NEW k \in 1..Len(log) PROVE Stamped(log[k].before, clock')
            OBVIOUS
        <3>1. log[k] \in Logged /\ Stamped(log[k].before, clock)
            BY <2>0 DEF TimesInv, RecordTypeOK
        <3> QED
            BY <1>1, <3>1 DEF Stamped, Logged, Kept, Record!Nothing
    <2>3. \A i \in 1..Len(closed) : closed[i].closed <= clock'
        <3> SUFFICES ASSUME NEW i \in 1..Len(closed) PROVE closed[i].closed <= clock'
            OBVIOUS
        <3>1. closed[i] \in TxRecord /\ closed[i].closed <= clock
            BY <2>0 DEF TimesInv, RecordTypeOK
        <3> QED
            BY <1>1, <3>1 DEF TxRecord
    <2>4. ASSUME tx # <<>> PROVE tx[1].opened <= clock' /\ EntryTimes(tx[1], clock')
        <3>1. /\ tx[1] \in TxRecord /\ tx[1].opened <= clock /\ EntryTimes(tx[1], clock)
            BY <2>0, <2>4 DEF TimesInv, RecordTypeOK
        <3>2. /\ tx[1].opened \in Nat /\ tx[1].entries \in Seq(JournalEntry)
            BY <3>1 DEF TxRecord
        <3> DEFINE es == tx[1].entries
        <3>3. \A k \in 1..Len(es) : es[k].at \in Nat
            <4>1. \A k \in 1..Len(es) : es[k] \in JournalEntry
                BY <3>2
            <4> HIDE DEF es
            <4> QED
                BY <4>1 DEF JournalEntry
        <3>4. \A k \in 1..Len(es) : tx[1].opened <= es[k].at /\ es[k].at <= clock
            BY <3>1 DEF EntryTimes
        <3>5. \A k \in 1..Len(es) : tx[1].opened <= es[k].at /\ es[k].at <= clock'
            <4> HIDE DEF es
            <4> QED
                BY <1>1, <3>3, <3>4
        <3>6. tx[1].opened <= clock'
            BY <1>1, <3>1, <3>2
        <3> QED
            BY <3>5, <3>6 DEF EntryTimes
    <2> QED
        BY <1>1, <2>0, <2>1, <2>2, <2>3, <2>4 DEF TimesInv
<1> QED
    BY <1>2, <1>3 DEF RecordInv

\* A call is refused or changes its object, in the current transaction or one of its own.
Called(id) ==
    /\ ~undoing /\ clock' = clock
    /\ \/ /\ tx # <<>> /\ base' = base
          /\ \/ Record!Refused(tx[1])
             \/ \E next : Changes(id, next) /\ Record!Mutated(tx[1], id, next)
       \/ /\ tx = <<>> /\ base' = records
          /\ \E t \in TxIds :
                /\ Record!Draws(t)
                /\ \/ Record!Refused(Record!Opened(t))
                   \/ \E next : Changes(id, next) /\ Record!Mutated(Record!Opened(t), id, next)

LEMMA TxElements ==
    ASSUME RecordTypeOK
    PROVE  /\ tx = <<>> => Record!Elements(tx) = {}
           /\ tx # <<>> => Record!Elements(tx) = {tx[1]}
<1>1. CASE tx = <<>>
    BY <1>1 DEF Record!Elements
<1>2. CASE tx # <<>>
    <2>1. tx = <<tx[1]>>
        BY <1>2 DEF RecordTypeOK
    <2> DEFINE r == tx[1]
    <2>2. Record!Elements(tx) = Record!Elements(<<r>>)
        BY <2>1
    <2> HIDE DEF r
    <2>3. Record!Elements(<<r>>) = {r}
        BY DEF Record!Elements
    <2> QED
        BY <1>2, <2>2, <2>3 DEF r
<1> QED
    BY <1>1, <1>2

LEMMA CreateIs ==
    ASSUME RecordInv, NEW id \in ObjectIds, NEW name \in Names \cup {Invalid},
           Record!Create(id, name)
    PROVE  Called(id)
<1> DEFINE next == [name |-> name, created |-> clock, modified |-> clock]
           Call(record) == IF name = Invalid \/ Record!Exists(id) THEN Record!Refused(record)
                           ELSE Record!Mutated(record, id, next)
<1>1. /\ ~undoing /\ clock' = clock
      /\ \/ \E record \in Record!Elements(tx) : Call(record) /\ base' = base
         \/ /\ tx = <<>> /\ base' = records
            /\ \E t \in TxIds : Record!Draws(t) /\ Call(Record!Opened(t))
    BY Zenon DEF Record!Create, Record!InTransaction
<1>2. clock \in Nat /\ records[id] \in Kept
    BY DEF RecordInv, RecordTypeOK
<1>3. ~(name = Invalid \/ Record!Exists(id)) => Changes(id, next)
    BY <1>2 DEF Changes, Kept, Stamped, Record!Exists
<1> HIDE DEF next
<1>4. \A record : Call(record) =>
          Record!Refused(record) \/ (Changes(id, next) /\ Record!Mutated(record, id, next))
    BY <1>3
<1> HIDE DEF Call
<1>5. CASE \E record \in Record!Elements(tx) : Call(record) /\ base' = base
    <2>1. tx # <<>> /\ Call(tx[1]) /\ base' = base
        BY <1>5, TxElements DEF RecordInv
    <2> QED
        BY <1>1, <1>4, <2>1 DEF Called
<1>6. CASE /\ tx = <<>> /\ base' = records
           /\ \E t \in TxIds : Record!Draws(t) /\ Call(Record!Opened(t))
    BY <1>1, <1>4, <1>6 DEF Called
<1> QED
    BY <1>1, <1>5, <1>6

LEMMA UpdateIs ==
    ASSUME RecordInv, NEW id \in ObjectIds, NEW name \in Names \cup {Invalid},
           Record!Update(id, name)
    PROVE  Called(id)
<1> DEFINE next == [records[id] EXCEPT !.name = name, !.modified = clock]
           Call(record) == IF name = Invalid \/ ~Record!Exists(id) THEN Record!Refused(record)
                           ELSE Record!Mutated(record, id, next)
<1>1. /\ ~undoing /\ clock' = clock
      /\ \/ \E record \in Record!Elements(tx) : Call(record) /\ base' = base
         \/ /\ tx = <<>> /\ base' = records
            /\ \E t \in TxIds : Record!Draws(t) /\ Call(Record!Opened(t))
    BY Zenon DEF Record!Update, Record!InTransaction
<1>2. clock \in Nat /\ records[id] \in Kept /\ Stamped(records[id], clock)
    BY DEF RecordInv, RecordTypeOK, TimesInv
<1>3. ~(name = Invalid \/ ~Record!Exists(id)) => Changes(id, next)
    <2> SUFFICES ASSUME name \in Names, records[id] # Record!Nothing
                 PROVE  Changes(id, next)
        BY DEF Record!Exists
    <2> DEFINE x == records[id]
               Full == [name : Names, created : Nat, modified : Nat]
    <2>1. x \in Full /\ x.created <= x.modified /\ x.modified <= clock
        BY <1>2 DEF Kept, Stamped
    <2>2. next = [x EXCEPT !.name = name, !.modified = clock]
        OBVIOUS
    <2> HIDE DEF x, next
    <2>3. next \in Full /\ next.created = x.created /\ next.modified = clock
        BY <1>2, <2>1, <2>2
    <2>4. next.created <= next.modified /\ next.modified <= clock
        BY <1>2, <2>1, <2>3
    <2> QED
        BY <2>3, <2>4 DEF Changes, Kept, Stamped, x
<1> HIDE DEF next
<1>4. \A record : Call(record) =>
          Record!Refused(record) \/ (Changes(id, next) /\ Record!Mutated(record, id, next))
    BY <1>3
<1> HIDE DEF Call
<1>5. CASE \E record \in Record!Elements(tx) : Call(record) /\ base' = base
    <2>1. tx # <<>> /\ Call(tx[1]) /\ base' = base
        BY <1>5, TxElements DEF RecordInv
    <2> QED
        BY <1>1, <1>4, <2>1 DEF Called
<1>6. CASE /\ tx = <<>> /\ base' = records
           /\ \E t \in TxIds : Record!Draws(t) /\ Call(Record!Opened(t))
    BY <1>1, <1>4, <1>6 DEF Called
<1> QED
    BY <1>1, <1>5, <1>6

LEMMA DeleteIs ==
    ASSUME RecordInv, NEW id \in ObjectIds, Record!Delete(id)
    PROVE  Called(id)
<1> DEFINE next == Record!Nothing
           Call(record) == IF Record!Exists(id) THEN Record!Mutated(record, id, next)
                           ELSE Record!Refused(record)
<1>1. /\ ~undoing /\ clock' = clock
      /\ \/ \E record \in Record!Elements(tx) : Call(record) /\ base' = base
         \/ /\ tx = <<>> /\ base' = records
            /\ \E t \in TxIds : Record!Draws(t) /\ Call(Record!Opened(t))
    BY Zenon DEF Record!Delete, Record!InTransaction
<1>2. clock \in Nat
    BY DEF RecordInv, RecordTypeOK
<1>3. Changes(id, next)
    BY <1>2 DEF Changes, Kept, Stamped, Record!Nothing
<1> HIDE DEF next
<1>4. \A record : Call(record) =>
          Record!Refused(record) \/ (Changes(id, next) /\ Record!Mutated(record, id, next))
    BY <1>3
<1> HIDE DEF Call
<1>5. CASE \E record \in Record!Elements(tx) : Call(record) /\ base' = base
    <2>1. tx # <<>> /\ Call(tx[1]) /\ base' = base
        BY <1>5, TxElements DEF RecordInv
    <2> QED
        BY <1>1, <1>4, <2>1 DEF Called
<1>6. CASE /\ tx = <<>> /\ base' = records
           /\ \E t \in TxIds : Record!Draws(t) /\ Call(Record!Opened(t))
    BY <1>1, <1>4, <1>6 DEF Called
<1> QED
    BY <1>1, <1>5, <1>6

\* The steps that end a transaction, of the record that is open.
LEMMA OpenRecordIs ==
    ASSUME RecordInv
    PROVE  /\ Record!Commit => /\ tx # <<>> /\ ~undoing /\ Record!Write(tx[1], "Committed")
                               /\ UNCHANGED <<clock, records, base>>
           /\ Record!Rollback => /\ tx # <<>> /\ Record!Refused(tx[1])
                                 /\ UNCHANGED <<clock, base>>
           /\ Record!EndRollback => /\ tx # <<>> /\ undoing /\ log = <<>>
                                    /\ Record!Write(tx[1], "RolledBack")
                                    /\ UNCHANGED <<clock, records, base>>
<1>1. /\ tx = <<>> => Record!Elements(tx) = {}
      /\ tx # <<>> => Record!Elements(tx) = {tx[1]}
    BY TxElements DEF RecordInv
<1> QED
    BY <1>1 DEF Record!Commit, Record!Rollback, Record!EndRollback

LEMMA CalledKeeps ==
    ASSUME RecordInv, NEW id \in ObjectIds, Called(id)
    PROVE  RecordInv'
<1>1. CASE tx # <<>>
    <2>1. CASE Record!Refused(tx[1])
        BY <1>1, <2>1, RefusedKeeps DEF Called
    <2>2. CASE ~Record!Refused(tx[1])
        <3>1. PICK next : Changes(id, next) /\ Record!Mutated(tx[1], id, next)
            BY <1>1, <2>2 DEF Called
        <3> QED
            BY <1>1, <3>1, MutatedOpenKeeps DEF Called
    <2> QED
        BY <2>1, <2>2
<1>2. CASE tx = <<>>
    <2>1. PICK t \in TxIds :
              \/ Record!Refused(Record!Opened(t))
              \/ \E next : Changes(id, next) /\ Record!Mutated(Record!Opened(t), id, next)
        BY <1>2 DEF Called
    <2>2. CASE Record!Refused(Record!Opened(t))
        BY <1>2, <2>2, OpenedKeeps DEF Called, Record!Refused
    <2>3. CASE \E next : Changes(id, next) /\ Record!Mutated(Record!Opened(t), id, next)
        BY <1>2, <2>3, MutatedAloneKeeps DEF Called
    <2> QED
        BY <2>1, <2>2, <2>3
<1> QED
    BY <1>1, <1>2

LEMMA RecordNextKeeps ==
    ASSUME Record!RecordsAssumption, RecordInv, Record!Next
    PROVE  RecordInv'
<1>1. ASSUME NEW id \in ObjectIds, NEW name \in Names \cup {Invalid},
             Record!Create(id, name) \/ Record!Update(id, name)
      PROVE  RecordInv'
    BY <1>1, CreateIs, UpdateIs, CalledKeeps
<1>2. ASSUME NEW id \in ObjectIds, Record!Delete(id)
      PROVE  RecordInv'
    BY <1>2, DeleteIs, CalledKeeps
<1>3. CASE Record!Begin
    <2>1. PICK t \in TxIds : tx' = <<Record!Opened(t)>>
        BY <1>3 DEF Record!Begin
    <2>2. /\ tx = <<>> /\ base' = records
          /\ UNCHANGED <<clock, records, log, undoing, journal, closed>>
        BY <1>3 DEF Record!Begin
    <2>3. undoing' \in BOOLEAN
        BY <2>2 DEF RecordInv, RecordTypeOK
    <2> QED
        BY <2>1, <2>2, <2>3, OpenedKeeps
<1>4. CASE Record!Commit
    BY <1>4, OpenRecordIs, CommitRecordKeeps
<1>5. CASE Record!Rollback
    BY <1>5, OpenRecordIs, RefusedKeeps
<1>6. CASE Record!EndRollback
    BY <1>6, OpenRecordIs, EndRollbackKeeps
<1> QED
    BY <1>1, <1>2, <1>3, <1>4, <1>5, <1>6, UndoLastKeeps, OpenAnotherKeeps, TickKeeps
    DEF Record!Next

\* What the invariant says of the journal, in the words of the properties.
LEMMA RecordsAgree ==
    ASSUME RecordInv
    PROVE  Record!JournalTellsStory /\ Record!TimesInOrder
<1> DEFINE h == Record!History
<1>1. RecordTypeOK /\ TimesInv /\ StoryInv
    BY DEF RecordInv
<1>2. /\ closed \in Seq(TxRecord) /\ clock \in Nat /\ Len(closed) \in Nat
      /\ \A i \in 1..Len(closed) : closed[i] \in TxRecord /\ closed[i].state # "Opened"
      /\ tx # <<>> => tx[1] \in TxRecord /\ tx[1].state = "Opened"
    BY <1>1 DEF RecordTypeOK
<1>3. /\ tx = <<>> => h = closed
      /\ tx # <<>> => h = Append(closed, tx[1])
    BY <1>1, HistoryIs
<1>4. Record!JournalTellsStory
    <2> SUFFICES ASSUME ~undoing, NEW id \in ObjectIds
                 PROVE  /\ \A p \in Record!Places(id) :
                              Record!Left({q \in Record!Places(id) : Record!Earlier(q, p)},
                                          Record!At(p).previous)
                        /\ Record!Left(Record!Places(id), records[id].name)
        BY Zenon DEF Record!JournalTellsStory
    <2>1. Record!Places(id) = PlacesIn(h, id)
        BY Zenon DEF Record!Places, PlacesIn, Record!At
    <2>2. \A places, name : Record!Left(places, name) <=> LeftIn(h, places, name)
        BY Zenon DEF Record!Left, LeftIn, Record!At, EntryAt
    <2>3. \A p : Record!At(p) = EntryAt(h, p)
        BY Zenon DEF Record!At, EntryAt
    <2>4. Story(h) /\ Tells(h, records)
        BY <1>1, <1>3 DEF StoryInv
    <2> HIDE DEF h
    <2>5. LeftIn(h, PlacesIn(h, id), records[id].name)
        BY <2>4 DEF Tells
    <2>6. \A p \in PlacesIn(h, id) :
              LeftIn(h, {q \in PlacesIn(h, id) : Record!Earlier(q, p)}, EntryAt(h, p).previous)
        BY <2>4 DEF Story
    <2> QED
        BY <2>1, <2>2, <2>3, <2>5, <2>6
<1>5. Record!TimesInOrder
    <2>1. ASSUME NEW i \in DOMAIN h
          PROVE  /\ \A entry \in Record!Entries(h[i]) :
                       h[i].opened <= entry.at /\ (h[i].state # "Opened" => entry.at <= h[i].closed)
                 /\ i > 1 => h[i - 1].closed <= h[i].opened
        <3>1. CASE i \in 1..Len(closed)
            <4>1. /\ h[i] = closed[i]
                  /\ i > 1 => i - 1 \in 1..Len(closed) /\ h[i - 1] = closed[i - 1]
                <5> HIDE DEF h
                <5>1. \A k \in 1..Len(closed) : h[k] = closed[k]
                    BY <1>2, <1>3
                <5> QED
                    BY <1>2, <3>1, <5>1
            <4>2. /\ EntryTimes(closed[i], closed[i].closed)
                  /\ i > 1 => closed[i - 1].closed <= closed[i].opened
                BY <1>1, <3>1 DEF TimesInv
            <4>3. DOMAIN closed[i].entries = 1..Len(closed[i].entries)
                BY <1>2, <3>1 DEF TxRecord
            <4> QED
                BY <4>1, <4>2, <4>3 DEF EntryTimes, Record!Entries, Record!Elements
        <3>2. CASE i \notin 1..Len(closed)
            <4>1. tx # <<>> /\ i = Len(closed) + 1 /\ h[i] = tx[1]
                  /\ \A k \in 1..Len(closed) : h[k] = closed[k]
                <5> DEFINE r == tx[1]
                <5>1. tx # <<>> => r \in TxRecord /\ h = Append(closed, r)
                    BY <1>2, <1>3
                <5>2. i \in DOMAIN h
                    BY <2>1
                <5> HIDE DEF h, r
                <5>3. tx # <<>>
                    BY <1>2, <1>3, <3>2, <5>2
                <5>4. i = Len(closed) + 1 /\ h[i] = r /\ \A k \in 1..Len(closed) : h[k] = closed[k]
                    BY <1>2, <3>2, <5>1, <5>2, <5>3
                <5> QED
                    BY <5>3, <5>4 DEF r
            <4>2. i > 1 => closed # <<>> /\ i - 1 = Len(closed) /\ i - 1 \in 1..Len(closed)
                BY <1>2, <4>1
            <4>3. /\ EntryTimes(tx[1], clock) /\ tx[1].state = "Opened"
                  /\ closed # <<>> => closed[Len(closed)].closed <= tx[1].opened
                BY <1>1, <1>2, <4>1 DEF TimesInv
            <4>4. DOMAIN tx[1].entries = 1..Len(tx[1].entries)
                BY <1>2, <4>1 DEF TxRecord
            <4> QED
                BY <4>1, <4>2, <4>3, <4>4 DEF EntryTimes, Record!Entries, Record!Elements
        <3> QED
            BY <3>1, <3>2
    <2>2. \A id \in ObjectIds :
              records[id].created <= records[id].modified /\ records[id].modified <= clock
        <3>1. \A id \in ObjectIds : Stamped(records[id], clock)
            BY <1>1, Zenon DEF TimesInv
        <3> QED
            BY <3>1, Zenon DEF Stamped
    <2> QED
        BY <2>1, <2>2, Zenon DEF Record!TimesInOrder
<1> QED
    BY <1>4, <1>5

RecordsInv == subject = "records" => RecordInv

LEMMA RecordInvHolds ==
    /\ PlatformInit => RecordsInv
    /\ RecordsInv /\ [PlatformNext]_allVars => RecordsInv'
<1>1. PlatformInit => RecordsInv
    <2> SUFFICES ASSUME Record!Init PROVE RecordInv
        BY DEF PlatformInit, RecordsInv
    <2>1. /\ clock = 0 /\ records = [id \in ObjectIds |-> Record!Nothing] /\ base = records
          /\ tx = <<>> /\ log = <<>> /\ undoing = FALSE /\ closed = <<>>
          /\ journal = [t \in TxIds |-> <<>>]
        BY DEF Record!Init
    <2>2. RecordTypeOK
        <3>1. records \in [ObjectIds -> Kept] /\ base \in [ObjectIds -> Kept]
            BY <2>1 DEF Kept
        <3>2. /\ journal \in [TxIds -> Seq(TxRecord)] /\ closed \in Seq(TxRecord)
              /\ log \in Seq(Logged) /\ Len(closed) = 0
            BY <2>1
        <3>3. clock \in Nat /\ undoing \in BOOLEAN /\ tx = <<>> /\ log = <<>> /\ ~undoing
            BY <2>1
        <3>4. \A i \in 1..Len(closed) : closed[i].state # "Opened"
            BY <3>2
        <3> QED
            BY <3>1, <3>2, <3>3, <3>4, Zenon DEF RecordTypeOK
    <2>3. LogInv /\ Record!RollbackOnlyRestamps
        BY <2>1 DEF LogInv, Record!RollbackOnlyRestamps
    <2>4. TimesInv
        <3>1. Len(closed) = 0 /\ Len(log) = 0
            BY <2>1
        <3>2. Stamped(Record!Nothing, 0)
            BY DEF Stamped, Record!Nothing
        <3>3. \A id \in ObjectIds : records[id] = Record!Nothing
            BY <2>1, Zenon
        <3>4. \A id \in ObjectIds : Stamped(records[id], clock)
            BY <2>1, <3>2, <3>3, Zenon
        <3> QED
            BY <2>1, <3>1, <3>4 DEF TimesInv
    <2>5. StoryInv
        BY <2>1, NewStory DEF StoryInv
    <2> QED
        BY <2>2, <2>3, <2>4, <2>5 DEF RecordInv
<1>2. RecordsInv /\ [PlatformNext]_allVars => RecordsInv'
    <2> SUFFICES ASSUME RecordsInv, [PlatformNext]_allVars, subject' = "records"
                 PROVE  RecordInv'
        BY DEF RecordsInv
    <2>1. CASE RecordStep
        <3>1. RecordInv /\ Record!RecordsAssumption /\ Record!Next
            BY <2>1, PlatformAssumption DEF RecordStep, RecordsInv
        <3> QED
            BY <3>1, RecordNextKeeps
    <2>2. CASE ~RecordStep
        <3>1. subject' = subject /\ recordVars' = recordVars
            BY <2>2 DEF PlatformNext, ArchiveStep, TrustStep, ListStep, RecordStep, ManagerStep,
                        SearchStep, allVars
        <3>2. RecordInv
            BY <3>1 DEF RecordsInv
        <3> QED
            BY <3>1, <3>2
            DEF recordVars, RecordInv, RecordTypeOK, LogInv, TimesInv, StoryInv,
                Record!RollbackOnlyRestamps
    <2> QED
        BY <2>1, <2>2
<1> QED
    BY <1>1, <1>2

\* Whatever ids are drawn, even one that was drawn before, a journal that is there tells
\* what became of each object, a rollback restores all but a stamp, and times are in order.
THEOREM StoriesHold ==
    PlatformSpec => [](subject = "records" =>
        Record!JournalTellsStory /\ Record!RollbackOnlyRestamps /\ Record!TimesInOrder)
<1>1. RecordsInv => (subject = "records" =>
          Record!JournalTellsStory /\ Record!RollbackOnlyRestamps /\ Record!TimesInOrder)
    BY RecordsAgree DEF RecordsInv, RecordInv
<1> QED
    BY <1>1, RecordInvHolds, PTL DEF PlatformSpec

\* An id that is drawn is that of no transaction before.
LEMMA DrawsAnew ==
    ASSUME FreshIds, RecordTypeOK, NEW t, Record!Draws(t)
    PROVE  \A i \in 1..Len(closed) : closed[i].id # t
<1>1. DOMAIN closed = 1..Len(closed)
    BY DEF RecordTypeOK
<1> QED
    BY <1>1 DEF Record!Draws, Record!Drawn, Record!Elements

\* What the journal keeps, with one record more.
LEMMA WriteIsKept ==
    ASSUME RecordTypeOK, Record!RecordsAreKept, NEW w, w.id \in TxIds,
           \A i \in 1..Len(closed) : closed[i].id # w.id,
           closed' = Append(closed, w), journal' = [journal EXCEPT ![w.id] = <<w>>]
    PROVE  Record!RecordsAreKept'
<1>1. /\ closed \in Seq(TxRecord) /\ journal \in [TxIds -> Seq(TxRecord)]
      /\ DOMAIN closed = 1..Len(closed) /\ Len(closed) \in Nat
      /\ \A i \in 1..Len(closed) : closed[i] \in TxRecord
    BY DEF RecordTypeOK
<1>5. \A i \in 1..Len(closed) : closed[i].id \in TxIds
    BY <1>1 DEF TxRecord
<1>2. \A i \in 1..Len(closed) : journal[closed[i].id] = <<closed[i]>>
    BY <1>1 DEF Record!RecordsAreKept, Record!Elements
<1>3. /\ DOMAIN closed' = 1..(Len(closed) + 1)
      /\ closed'[Len(closed) + 1] = w /\ \A i \in 1..Len(closed) : closed'[i] = closed[i]
    BY <1>1
<1>4. ASSUME NEW i \in DOMAIN closed' PROVE journal'[closed'[i].id] = <<closed'[i]>>
    <2>1. CASE i \in 1..Len(closed)
        BY <1>1, <1>2, <1>3, <1>5, <2>1
    <2>2. CASE i = Len(closed) + 1
        BY <1>1, <1>3, <2>2
    <2> QED
        BY <1>1, <1>3, <2>1, <2>2
<1> QED
    BY <1>4 DEF Record!RecordsAreKept, Record!Elements

LEMMA RecordNextKeepsAll ==
    ASSUME FreshIds, RecordInv, KeptInv, Record!Next
    PROVE  KeptInv'
<1>0. RecordTypeOK /\ closed \in Seq(TxRecord) /\ (tx # <<>> => tx[1] \in TxRecord)
    BY DEF RecordInv, RecordTypeOK
<1>1. ASSUME NEW t \in TxIds, Record!Draws(t), tx' = <<Record!Opened(t)>>,
             UNCHANGED <<journal, closed>>
      PROVE  KeptInv'
    <2>1. tx'[1].id = t
        BY <1>1 DEF Record!Opened
    <2> QED
        BY <1>0, <1>1, <2>1, DrawsAnew DEF KeptInv, Record!RecordsAreKept
<1>2. ASSUME NEW w, w.id \in TxIds, \A i \in 1..Len(closed) : closed[i].id # w.id,
             closed' = Append(closed, w), journal' = [journal EXCEPT ![w.id] = <<w>>], tx' = <<>>
      PROVE  KeptInv'
    BY <1>0, <1>2, WriteIsKept DEF KeptInv
<1>3. ASSUME tx' # <<>> => tx # <<>> /\ tx'[1].id = tx[1].id, UNCHANGED <<journal, closed>>
      PROVE  KeptInv'
    BY <1>3 DEF KeptInv, Record!RecordsAreKept
<1>4. ASSUME tx # <<>>, NEW state, Record!Write(tx[1], state)
      PROVE  KeptInv'
    <2> DEFINE w == [tx[1] EXCEPT !.state = state, !.closed = clock]
    <2>1. /\ closed' = Append(closed, w) /\ journal' = [journal EXCEPT ![w.id] = <<w>>]
          /\ tx' = <<>>
        BY <1>4 DEF Record!Write
    <2>2. w.id = tx[1].id /\ w.id \in TxIds
        BY <1>0, <1>4 DEF TxRecord
    <2> HIDE DEF w
    <2> QED
        BY <1>2, <1>4, <2>1, <2>2 DEF KeptInv
<1>5. ASSUME NEW id, Called(id) PROVE KeptInv'
    <2>1. CASE tx # <<>>
        <3>1. CASE Record!Refused(tx[1])
            BY <1>3, <2>1, <3>1 DEF Record!Refused
        <3>2. ASSUME NEW next, Record!Mutated(tx[1], id, next) PROVE KeptInv'
            <4> DEFINE e == [at |-> clock, id |-> id, previous |-> records[id].name,
                             new |-> next.name]
                       j == [tx[1] EXCEPT !.entries = Append(@, e)]
            <4>1. tx' = <<j>> /\ UNCHANGED <<journal, closed>>
                BY <2>1, <3>2 DEF Record!Mutated, Record!Journaled
            <4>2. j.id = tx[1].id
                BY <1>0, <2>1 DEF TxRecord
            <4> HIDE DEF j
            <4> QED
                BY <1>3, <2>1, <4>1, <4>2
        <3> QED
            BY <1>5, <2>1, <3>1, <3>2 DEF Called
    <2>2. CASE tx = <<>>
        <3>1. PICK t \in TxIds :
                  /\ Record!Draws(t)
                  /\ \/ Record!Refused(Record!Opened(t))
                     \/ \E next : Changes(id, next) /\ Record!Mutated(Record!Opened(t), id, next)
            BY <1>5, <2>2 DEF Called
        <3>2. CASE Record!Refused(Record!Opened(t))
            BY <1>1, <3>1, <3>2 DEF Record!Refused
        <3>3. ASSUME NEW next, Record!Mutated(Record!Opened(t), id, next) PROVE KeptInv'
            <4> DEFINE e == [at |-> clock, id |-> id, previous |-> records[id].name,
                             new |-> next.name]
                       j == [Record!Opened(t) EXCEPT !.entries = Append(@, e)]
                       w == [j EXCEPT !.state = "Committed", !.closed = clock]
            <4>1. Record!Write(j, "Committed")
                BY <2>2, <3>3 DEF Record!Mutated, Record!Journaled
            <4>2. /\ closed' = Append(closed, w) /\ journal' = [journal EXCEPT ![w.id] = <<w>>]
                  /\ tx' = <<>>
                BY <4>1 DEF Record!Write
            <4>3. w.id = t
                BY DEF Record!Opened
            <4> HIDE DEF w
            <4>4. \A i \in 1..Len(closed) : closed[i].id # w.id
                BY <1>0, <3>1, <4>3, DrawsAnew
            <4> QED
                BY <1>2, <4>2, <4>3, <4>4
        <3> QED
            BY <3>1, <3>2, <3>3
    <2> QED
        BY <2>1, <2>2
<1>6. CASE Record!Begin
    BY <1>1, <1>6 DEF Record!Begin
<1>7. CASE Record!Commit \/ Record!EndRollback
    BY <1>4, <1>7, OpenRecordIs
<1>8. CASE Record!Rollback
    <2>1. tx # <<>> /\ Record!Refused(tx[1])
        BY <1>8, OpenRecordIs
    <2> QED
        BY <1>3, <2>1 DEF Record!Refused
<1>9. CASE Record!UndoLast
    BY <1>3, <1>9 DEF Record!UndoLast
<1>10. CASE Record!Tick
    BY <1>3, <1>10 DEF Record!Tick
<1>11. CASE Record!OpenAnother
    <2>1. closed' = <<>> /\ tx' = <<>>
        BY <1>11 DEF Record!OpenAnother
    <2> QED
        BY <2>1 DEF KeptInv, Record!RecordsAreKept, Record!Elements
<1>12. ASSUME NEW id \in ObjectIds, NEW name \in Names \cup {Invalid},
              Record!Create(id, name) \/ Record!Update(id, name)
       PROVE  KeptInv'
    BY <1>5, <1>12, CreateIs, UpdateIs
<1>13. ASSUME NEW id \in ObjectIds, Record!Delete(id) PROVE KeptInv'
    BY <1>5, <1>13, DeleteIs
<1> QED
    BY <1>6, <1>7, <1>8, <1>9, <1>10, <1>11, <1>12, <1>13 DEF Record!Next

AllKeptInv == subject = "records" => KeptInv

\* While no id is drawn again, no record of a transaction is lost either: what is kept of
\* the transactions agrees with what they did.
THEOREM TransactionRecordsHold ==
    ASSUME FreshIds
    PROVE  PlatformSpec => []TransactionRecordsAreRight
<1>1. PlatformInit => AllKeptInv
    BY DEF PlatformInit, AllKeptInv, KeptInv, Record!Init, Record!RecordsAreKept, Record!Elements
<1>2. RecordsInv /\ AllKeptInv /\ [PlatformNext]_allVars => AllKeptInv'
    <2> SUFFICES ASSUME RecordsInv, AllKeptInv, [PlatformNext]_allVars, subject' = "records"
                 PROVE  KeptInv'
        BY DEF AllKeptInv
    <2>1. CASE RecordStep
        <3>1. RecordInv /\ KeptInv /\ Record!Next
            BY <2>1 DEF RecordStep, RecordsInv, AllKeptInv
        <3> QED
            BY <3>1, RecordNextKeepsAll
    <2>2. CASE ~RecordStep
        <3>1. subject' = subject /\ recordVars' = recordVars
            BY <2>2 DEF PlatformNext, ArchiveStep, TrustStep, ListStep, RecordStep, ManagerStep,
                        SearchStep, allVars
        <3> QED
            BY <3>1 DEF AllKeptInv, recordVars, KeptInv, Record!RecordsAreKept
    <2> QED
        BY <2>1, <2>2
<1>3. RecordsInv /\ AllKeptInv => TransactionRecordsAreRight
    BY RecordsAgree
    DEF RecordsInv, RecordInv, AllKeptInv, KeptInv, TransactionRecordsAreRight, Record!RecordsAreRight
<1> QED
    BY <1>1, <1>2, <1>3, RecordInvHolds, PTL DEF PlatformSpec
=============================================================================
