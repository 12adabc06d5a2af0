------------------------------ MODULE ApiLists ------------------------------
(***************************************************************************)
(* The lists the C API hands out (platform/api): every listing function    *)
(* fills a struct of the caller's with heap arrays the caller owns and     *)
(* gives back with the matching release function.                          *)
(*                                                                         *)
(* The caller is a correct one: it fills a struct only when that holds no  *)
(* array, and it may release a struct at any time and as often as it       *)
(* likes.  An array that cannot be allocated throws; the function's catch  *)
(* turns that into OEP_ERROR_INTERNAL.  A struct of two lists (a           *)
(* repository search) uses `first` and `second`, the others only `first`;  *)
(* a list's count is zero exactly when its pointer is null.                *)
(***************************************************************************)
EXTENDS Naturals, FiniteSets

CONSTANTS
    Structs,    \* the caller's list structs
    Arrays,     \* heap arrays
    Null,       \* nullptr
    MayThrow    \* can an allocation fail?

ListsAssumption == Null \notin Arrays /\ MayThrow \in BOOLEAN

VARIABLES
    heap,       \* array -> the function that allocated it, or "free"
    structs,    \* struct -> the arrays it points to
    last        \* the last call: its struct, and whether it succeeded

vars == <<heap, structs, last>>

Zeroed == [first |-> Null, second |-> Null]

Init ==
    /\ heap = [a \in Arrays |-> "free"]
    /\ structs = [s \in Structs |-> Zeroed]
    /\ last \in [struct : Structs, ok : {TRUE}]

-----------------------------------------------------------------------------
Fillable(s) == structs[s] = Zeroed
Free == {a \in Arrays : heap[a] = "free"}

Returns(s, ok) == last' = [struct |-> s, ok |-> ok]

\* Refused by a check or by Foundation, or nothing could be allocated: the struct
\* stays zeroed.
Fails(s) ==
    /\ Fillable(s)
    /\ Returns(s, FALSE)
    /\ UNCHANGED <<heap, structs>>

\* An empty list needs no array.
Empty(s) ==
    /\ Fillable(s)
    /\ Returns(s, TRUE)
    /\ UNCHANGED <<heap, structs>>

\* One array, filled and handed over.
Fill(f, s) ==
    \/ Fails(s)
    \/ Empty(s)
    \/ /\ Fillable(s)
       /\ \E a \in Free :
             /\ heap' = [heap EXCEPT ![a] = f]
             /\ structs' = [structs EXCEPT ![s].first = a]
       /\ Returns(s, TRUE)

oep_object_store_list(s) == Fill("objects", s)
oep_relationship_store_list(s) == Fill("relationships", s)
oep_search_objects(s) == Fill("search objects", s)
oep_search_relationships(s) == Fill("search relationships", s)
oep_package_list_installed(s) == Fill("installed packages", s)
oep_package_search(s) == Fill("package search", s)
oep_transaction_history(s) == Fill("history", s)
oep_trust_list_certificates(s) == Fill("certificates", s)

\* The array of the matching objects is in the struct when that of the matching
\* relationships is allocated; if that throws the struct is zeroed.
oep_search_repository(s) ==
    \/ Fill("search repository", s)
    \/ /\ Fillable(s)
       /\ \E a \in Free :
             \/ /\ MayThrow
                /\ heap' = [heap EXCEPT ![a] = "search repository"]
                /\ Returns(s, FALSE)
                /\ UNCHANGED structs
             \/ \E b \in Free \ {a} :
                   /\ heap' = [heap EXCEPT ![a] = "search repository",
                                           ![b] = "search repository"]
                   /\ structs' = [structs EXCEPT ![s] = [first |-> a, second |-> b]]
                   /\ Returns(s, TRUE)
             \/ /\ heap' = [heap EXCEPT ![a] = "search repository"]
                /\ structs' = [structs EXCEPT ![s].second = a]
                /\ Returns(s, TRUE)

\* Faulty variant: the objects' array is forgotten when the other one throws.
GetContentsForgets(s, t) ==
    /\ s # t
    /\ Fillable(s) /\ Fillable(t)
    /\ MayThrow
    /\ \E a \in Free : heap' = [heap EXCEPT ![a] = "contents"]
    /\ Returns(s, FALSE)
    /\ UNCHANGED structs

\* Two structs; both arrays are allocated before either is handed over, and the
\* first is freed when the second throws.
oep_package_get_contents(s, t) ==
    /\ s # t
    /\ Fillable(t)
    /\ \/ Fill("contents", s)
       \/ /\ Fillable(s)
          /\ \E a \in Free :
                \/ /\ heap' = [heap EXCEPT ![a] = "contents"]
                   /\ structs' = [structs EXCEPT ![t].first = a]
                \/ \E b \in Free \ {a} :
                      /\ heap' = [heap EXCEPT ![a] = "contents", ![b] = "contents"]
                      /\ structs' = [structs EXCEPT ![s].first = a, ![t].first = b]
          /\ Returns(s, TRUE)

\* Foundation has created, and committed, the whole batch when the array for the
\* answer is allocated; that may still throw.
oep_batch_create_relationships(s) == Fill("batch", s)

\* The release functions: delete[] what the struct points to and zero it, so that
\* releasing it again does nothing.
Release(s) ==
    /\ heap' = [a \in Arrays |-> IF a \in {structs[s].first, structs[s].second}
                                 THEN "free" ELSE heap[a]]
    /\ structs' = [structs EXCEPT ![s] = Zeroed]
    /\ UNCHANGED last

Next ==
    \E s \in Structs :
        \/ oep_object_store_list(s) \/ oep_relationship_store_list(s)
        \/ oep_search_objects(s) \/ oep_search_relationships(s)
        \/ oep_package_list_installed(s) \/ oep_package_search(s)
        \/ oep_transaction_history(s) \/ oep_trust_list_certificates(s)
        \/ oep_search_repository(s)
        \/ \E t \in Structs : oep_package_get_contents(s, t)
        \/ oep_batch_create_relationships(s)
        \/ Release(s)

Spec == Init /\ [][Next]_vars
-----------------------------------------------------------------------------
(* Properties. *)

Held(s) == {structs[s].first, structs[s].second} \ {Null}

\* However lists are filled and released, in whatever order and however often: a
\* pointer the caller holds is to a live array, and to no other struct's.
NoDanglingPointer ==
    /\ \A s \in Structs : Held(s) \cap Free = {}
    /\ \A s, t \in Structs : s # t => Held(s) \cap Held(t) = {}

\* Every live array is one the caller can release, except those the failing
\* second half of a repository search loses.
OnlySearchLoses ==
    \A a \in Arrays \ Free :
        a \in UNION {Held(s) : s \in Structs} \/ heap[a] = "search repository"

\* After a call has failed, its struct is zeroed until the next one (oep_api.h: a list
\* that was never successfully populated).
FailureLeavesZeroed == ~last.ok => structs[last.struct] = Zeroed

\* The three together.
OwnershipIsRight == NoDanglingPointer /\ OnlySearchLoses /\ FailureLeavesZeroed
=============================================================================
