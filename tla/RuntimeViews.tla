----------------------------- MODULE RuntimeViews -----------------------------
(***************************************************************************)
(* The in-memory views an open FoundationRuntime keeps of its repository:  *)
(* the search index and the graph.  Both are built when the repository is  *)
(* opened and again after an install, and dropped when it is closed; no    *)
(* other call touches them.  What they answer is in SearchEngine and       *)
(* GraphEngine.                                                            *)
(***************************************************************************)
EXTENDS PackageQueries

CONSTANT Unbuilt    \* the runtime has no views

VARIABLES
    search,     \* search_: the content it was built from
    graph,      \* graph_: its nodes and edges
    owed,       \* the running install is past its transaction
    fresh       \* history: did the views show the repository when the transaction
                \* was opened?

views == <<search, graph, owed, fresh>>
vvars == <<qvars, views>>

Restricted(f, S) == [x \in S |-> f[x]]

\* What list_all returns of both stores.
Listed ==
    [objects |-> Restricted(objects, {o \in ObjectIds : ObjectLoads(o)}),
     rels |-> Restricted(rels, {r \in RelIds : RelLoads(r)})]

\* build_graph leaves out a relationship that dangles.
Built ==
    [nodes |-> {o \in ObjectIds : ObjectLoads(o)},
     edges |-> {r \in RelIds : RelLoads(r) /\ EndpointsLoad(rels[r])}]

ViewsInit ==
    /\ QueriesInit
    /\ search = Unbuilt
    /\ graph = Unbuilt
    /\ owed = FALSE
    /\ fresh = FALSE

-----------------------------------------------------------------------------
Rebuild ==
    /\ search' = Listed'
    /\ graph' = Built'

Drop ==
    /\ search' = Unbuilt
    /\ graph' = Unbuilt

KeepViews == UNCHANGED <<search, graph>>

\* open_repository builds the views; reset_repository_context and a crash drop them.
Opens == state # "RepositoryOpen"

\* Faulty variant: an install leaves the views as they were.
InstallEndsUnseen == FALSE

\* install_package goes on after its commit, whether that could be journaled or not.
InstallEnds == owed /\ pc' = "idle"

ViewsFollow ==
    IF state' # "RepositoryOpen" THEN Drop
    ELSE IF Opens \/ InstallEnds THEN Rebuild
    ELSE KeepViews

Shown == search = Listed /\ graph = Built

ViewsNext ==
    /\ QueriesNext
    /\ ViewsFollow
    /\ owed' = (pc' = "commit" /\ (pc = "install" \/ owed))
    /\ fresh' = IF tx' # tx THEN Shown ELSE fresh

ViewsSpec == ViewsInit /\ [][ViewsNext]_vvars

-----------------------------------------------------------------------------
(* Properties. *)

\* A transaction that is rolled back leaves the views as good as they were: if they
\* showed the repository when it was opened, they show it again, without any rebuild.
\* (An undo whose file is written short reports success and restores nothing.)
RollbackKeepsViewsTrue ==
    [][pc = "undo" /\ pc' = "idle" /\ undoComplete /\ fresh /\ state' = "RepositoryOpen"
        /\ (\A id \in Entities : File(id) # Torn) => Shown']_vvars

\* Whatever a registered package brought and still loads can be found.
InstalledIsIndexed ==
    state = "RepositoryOpen" /\ pc = "idle" =>
        \A p \in Packages : registry[p] \in RegistryEntries =>
            \A id \in registry[p].ids :
                /\ id \in ObjectIds /\ ObjectLoads(id) => id \in DOMAIN search.objects
                /\ id \in RelIds /\ RelLoads(id) => id \in DOMAIN search.rels
=============================================================================
