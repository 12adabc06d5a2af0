----------------------------- MODULE SearchEngine -----------------------------
(***************************************************************************)
(* SearchEngine (platform/search): an index of the records of a repository *)
(* in the order the directory gave them, and the ranked answers to a query.*)
(*                                                                         *)
(* What a field holds is abstracted to how a query compares with it (case  *)
(* ignored): not at all, as a part of it, as the whole of it.  The scores  *)
(* -1.0, 0.5 and 1.0 of the code are 0, 1 and 2.  A record's fields are in *)
(* the order of the candidates: Name, Description, Author, Tags and        *)
(* ObjectType of an object; RelationshipType, Description and Author of a  *)
(* relationship.  Tags hold any number of values, so a field is a set.     *)
(***************************************************************************)
EXTENDS Sorting, Sequences

CONSTANTS
    Ids,        \* the records a repository may hold
    Queries,    \* queries that are not empty
    Contents,   \* query -> the scores of each field, for every content
    Absent      \* no such record

Scores == 0..2

SearchAssumption ==
    /\ IsFiniteSet(Ids)
    /\ \A c \in Contents : c \in [Queries -> Seq(SUBSET Scores)]
    /\ Absent \notin Contents
    /\ "empty" \notin Queries

VARIABLES
    stored,     \* id -> content, or Absent
    index,      \* indexed_objects_ or indexed_relationships_
    built,      \* history: what was stored when the index was built
    query,      \* the last query
    results,    \* what it returned
    asked       \* history: what was built when it was asked

svars == <<stored, index, built, query, results, asked>>

Nothing == [i \in Ids |-> Absent]

SearchInit ==
    /\ stored \in [Ids -> Contents \cup {Absent}]
    /\ index = <<>>
    /\ built = Nothing
    /\ query = "none"
    /\ results = <<>>
    /\ asked = Nothing

-----------------------------------------------------------------------------
(* Scores and ranks. *)

\* score_field, score_tags: the best of the values.
FieldScore(f) == CHOOSE x \in f \cup {0} : \A y \in f : y <= x

Matching(c, q) == {k \in DOMAIN c[q] : FieldScore(c[q][k]) > 0}

\* best_candidate: the first field that matches, even if a later one scores higher.
BestCandidate(c, q) == CHOOSE k \in Matching(c, q) : \A other \in Matching(c, q) : k <= other

Result(e, q) ==
    LET k == BestCandidate(e.content, q)
    IN  [id |-> e.id, location |-> k, score |-> FieldScore(e.content[q][k])]

\* The places of the index where something matches.
Matches(q) == {k \in DOMAIN index : Matching(index[k].content, q) # {}}

\* stable_sort by descending score: the results of one score keep their order.
Ranking(q) ==
    {p \in Matches(q) \X Matches(q) :
        LET first == Result(index[p[1]], q).score
            second == Result(index[p[2]], q).score
        IN  first > second \/ (first = second /\ p[1] < p[2])}

Answer(q) ==
    LET order == Sorted(Matches(q), Ranking(q))
    IN [n \in DOMAIN order |-> Result(index[order[n]], q)]

-----------------------------------------------------------------------------
\* Records come, go and change without the index.
Change(i, c) ==
    /\ stored' = [stored EXCEPT ![i] = c]
    /\ UNCHANGED <<index, built, query, results, asked>>

\* The records list_all gives, in the order of the directory.
Listings ==
    LET all == {i \in Ids : stored[i] # Absent}
        places == 1..Cardinality(all)
    IN {[k \in places |-> [id |-> order[k], content |-> stored[order[k]]]] :
            order \in {f \in [places -> all] : \A j, k \in places : f[j] = f[k] => j = k}}

\* Faulty variant: the index of before is not cleared first.
BuildIndexAppends ==
    /\ \E listing \in Listings : index' = (IF Len(index) > 3 THEN <<>> ELSE index) \o listing
    /\ built' = stored
    /\ UNCHANGED <<stored, query, results, asked>>

\* build_index: a listing that fails leaves the index empty.
BuildIndex ==
    /\ \/ index' \in Listings /\ built' = stored
       \/ index' = <<>> /\ built' = Nothing
    /\ UNCHANGED <<stored, query, results, asked>>

ClearIndex ==
    /\ index' = <<>>
    /\ built' = Nothing
    /\ UNCHANGED <<stored, query, results, asked>>

\* search_objects, search_relationships.
Search(q) ==
    /\ query' = q
    /\ results' = Answer(q)
    /\ asked' = built
    /\ UNCHANGED <<stored, index, built>>

\* An empty query fails.
SearchEmpty ==
    /\ query' = "empty"
    /\ results' = <<>>
    /\ UNCHANGED <<stored, index, built, asked>>

SearchNext ==
    \/ \E i \in Ids, c \in Contents \cup {Absent} : Change(i, c)
    \/ BuildIndex
    \/ ClearIndex
    \/ \E q \in Queries : Search(q)
    \/ SearchEmpty

SearchSpec == SearchInit /\ [][SearchNext]_svars

-----------------------------------------------------------------------------
(* Properties. *)

\* A search finds exactly the records of the index with some field that holds the
\* query, whatever field that is.
FindsEveryMatch ==
    query \in Queries =>
        {results[k].id : k \in DOMAIN results} =
            {i \in Ids : /\ asked[i] # Absent
                         /\ \E f \in DOMAIN asked[i][query] :
                               asked[i][query][f] \cap {1, 2} # {}}

\* Every result says where the query was found first, with the score it has there;
\* no field before it holds the query.
LocationIsFirst ==
    \A k \in DOMAIN results :
        LET fields == asked[results[k].id][query]
        IN  /\ results[k].score \in fields[results[k].location]
            /\ \A f \in 1..(results[k].location - 1) : fields[f] \subseteq {0}

\* Results are ranked: no record appears twice, and no score follows a lower one.
ResultsAreRanked ==
    \A j, k \in DOMAIN results : j < k =>
        results[j].id # results[k].id /\ results[j].score >= results[k].score

\* The three together.
AnswersAreRight == FindsEveryMatch /\ LocationIsFirst /\ ResultsAreRanked
=============================================================================
