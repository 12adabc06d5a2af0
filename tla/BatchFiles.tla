------------------------------ MODULE BatchFiles ------------------------------
(***************************************************************************)
(* BatchProcessor (platform/repository): a batch file is validated against *)
(* the stores as a whole and then executed item by item.  The items are    *)
(* not mutations of the runtime: they open no transaction, join none and   *)
(* leave no undo entry, also when the runtime has a transaction open.      *)
(***************************************************************************)
EXTENDS FoundationRuntime, FiniteSets

CONSTANTS
    Refs,           \* batch-local names of objects
    NoRef,          \* an object without one
    MaxFileObjects, \* bound: objects in a batch file
    MaxFileRels     \* bound: relationships in a batch file

ASSUME BatchAssumption ==
    /\ NoRef \notin Refs
    /\ Refs \cap ObjectIds = {}
    /\ MaxFileObjects \in Nat
    /\ MaxFileRels \in Nat

VARIABLES
    file,           \* the running batch file: what is left of it
    outside         \* history: ids batch files changed since the open transaction began

fileVars == <<file, outside>>
fvars == <<vars, fileVars>>

Lists(S, max) == UNION {[1..n -> S] : n \in 0..max}

\* An object without a name is reported too; Contents have one.
ObjectSpecs == [ref : Refs \cup {NoRef}, content : Contents]
RelSpecs == [source : Refs \cup ObjectIds, target : Refs \cup ObjectIds, note : Contents]
CreateRequests ==
    [objects : Lists(ObjectSpecs, MaxFileObjects), rels : Lists(RelSpecs, MaxFileRels)]
DeleteRequests ==
    [objects : Lists(ObjectIds, MaxFileObjects), rels : Lists(RelIds, MaxFileRels)]

\* done counts the items executed; resolved is ref_to_object_id.
NoFile == [kind |-> "none", objects |-> <<>>, rels |-> <<>>, done |-> 0,
           unique |-> TRUE, resolved |-> [a \in Refs |-> Absent]]

BatchInit ==
    /\ Init
    /\ file = NoFile
    /\ outside = {}

-----------------------------------------------------------------------------
(* Validation. *)

Distinct(s) == \A i, j \in DOMAIN s : s[i] = s[j] => i = j
KnownRefs(req) == {req.objects[i].ref : i \in DOMAIN req.objects} \ {NoRef}

UniqueRefs(req) ==
    \A i, j \in DOMAIN req.objects :
        req.objects[i].ref = req.objects[j].ref /\ req.objects[i].ref # NoRef => i = j

\* Faulty variant: an end point that is no ref is not looked up.
ValidCreateUnresolved(req) ==
    /\ UniqueRefs(req)
    /\ \A i \in DOMAIN req.rels :
          /\ {req.rels[i].source, req.rels[i].target} \subseteq KnownRefs(req) \cup ObjectIds
          /\ req.rels[i].source # req.rels[i].target

\* validate_batch_create_request reports nothing.
ValidCreate(req) ==
    /\ UniqueRefs(req)
    /\ \A i \in DOMAIN req.rels :
          /\ \A end \in {req.rels[i].source, req.rels[i].target} :
                end \in KnownRefs(req) \/ (end \in ObjectIds /\ ObjectLoads(end))
          /\ req.rels[i].source # req.rels[i].target

\* Every id of a delete file loads; that it is named once is not checked.
ValidDelete(req) ==
    /\ \A i \in DOMAIN req.objects : ObjectLoads(req.objects[i])
    /\ \A i \in DOMAIN req.rels : RelLoads(req.rels[i])

-----------------------------------------------------------------------------
(* Execution. *)

StartFile(kind, req) ==
    /\ Callable
    /\ pc' = "file"
    /\ reply' = "none"
    /\ file' = [NoFile EXCEPT !.kind = kind, !.objects = req.objects, !.rels = req.rels,
                              !.unique = Distinct(req.objects) /\ Distinct(req.rels)]
    /\ UNCHANGED <<storeVars, txVars, state, journal, issued, purpose, undoComplete, batch, outside>>

\* Bound: only files for which there are enough ids left.
StartCreate(req) ==
    /\ Len(req.objects) <= Cardinality(ObjectIds \ issued)
    /\ Len(req.rels) <= Cardinality(RelIds \ issued)
    /\ ValidCreate(req)
    /\ StartFile("create", req)
StartDelete(req) == ValidDelete(req) /\ StartFile("delete", req)

(* What every item does besides its store call. *)
ItemDone(id) ==
    /\ outside' = IF active THEN outside \cup {id} ELSE outside
    /\ UNCHANGED <<txVars, state, journal, pc, purpose, undoComplete, batch, reply>>

Creating == pc = "file" /\ file.kind = "create"
Deleting == pc = "file" /\ file.kind = "delete"

CreateNextObject(o, out) ==
    /\ Creating /\ file.objects # <<>>
    /\ LET spec == Head(file.objects) IN
          /\ o \notin issued
          /\ ObjectCreate(o, spec.content, out)
          /\ file' = [file EXCEPT !.objects = Tail(@), !.done = @ + 1,
                        !.resolved = [a \in Refs |-> IF a = spec.ref THEN o ELSE @[a]]]
    /\ issued' = issued \cup {o}
    /\ ItemDone(o)

\* A ref of this file, or else an id.
Resolve(end) == IF end \in Refs THEN file.resolved[end] ELSE end
Resolved(spec) == [src |-> Resolve(spec.source), dst |-> Resolve(spec.target), note |-> spec.note]

CreateNextRel(r, out) ==
    /\ Creating /\ file.objects = <<>> /\ file.rels # <<>>
    /\ r \notin issued
    /\ RelCreate(r, Resolved(Head(file.rels)), out)
    /\ file' = [file EXCEPT !.rels = Tail(@), !.done = @ + 1]
    /\ issued' = issued \cup {r}
    /\ ItemDone(r)

DeleteNextRel ==
    /\ Deleting /\ file.rels # <<>>
    /\ RelRemove(Head(file.rels))
    /\ file' = [file EXCEPT !.rels = Tail(@), !.done = @ + 1]
    /\ UNCHANGED issued
    /\ ItemDone(Head(file.rels))

DeleteNextObject ==
    /\ Deleting /\ file.rels = <<>> /\ file.objects # <<>>
    /\ ObjectRemove(Head(file.objects))
    /\ file' = [file EXCEPT !.objects = Tail(@), !.done = @ + 1]
    /\ UNCHANGED issued
    /\ ItemDone(Head(file.objects))

EndFile(how) ==
    /\ pc' = "idle"
    /\ reply' = how
    /\ file' = NoFile
    /\ UNCHANGED <<storeVars, txVars, state, journal, issued, purpose, undoComplete, batch, outside>>

FinishFile == pc = "file" /\ file.objects = <<>> /\ file.rels = <<>> /\ EndFile("ok")

\* The store turns the next item down: an end point does not load, the entity to
\* delete is gone.
NextRefused ==
    \/ /\ Creating /\ file.objects = <<>> /\ file.rels # <<>>
       /\ ~EndpointsLoad(Resolved(Head(file.rels)))
    \/ Deleting /\ file.rels # <<>> /\ rels[Head(file.rels)] = Absent
    \/ /\ Deleting /\ file.rels = <<>> /\ file.objects # <<>>
       /\ objects[Head(file.objects)] = Absent

\* What the items before it did stays.
RefuseNext ==
    /\ pc = "file"
    /\ file.objects # <<>> \/ file.rels # <<>>
    /\ NextRefused \/ "failed" \in WriteOutcomes
    /\ EndFile("error")

-----------------------------------------------------------------------------
FileStep ==
    \/ \E o \in ObjectIds, out \in SuccessfulWrites : CreateNextObject(o, out)
    \/ \E r \in RelIds, out \in SuccessfulWrites : CreateNextRel(r, out)
    \/ DeleteNextRel
    \/ DeleteNextObject
    \/ FinishFile
    \/ RefuseNext

Forget == file' = NoFile /\ outside' = IF active' THEN outside ELSE {}

RuntimeStep ==
    /\ pc # "file"
    /\ Lifecycle \/ Mutate \/ Transact \/ Continue
    /\ Forget

BatchNext ==
    \/ /\ Settled
       /\ \/ RuntimeStep
          \/ \E req \in CreateRequests : StartCreate(req)
          \/ \E req \in DeleteRequests : StartDelete(req)
          \/ FileStep
    \/ Record /\ UNCHANGED fileVars
    \/ Crash /\ Forget

BatchSpec == BatchInit /\ [][BatchNext]_fvars
-----------------------------------------------------------------------------
(* Properties. *)

\* What validation found still holds when an item is executed: on a disk that
\* works no relationship of a create file is turned down for its end points, and
\* no item of a delete file that names each id once is gone.
ValidationHolds ==
    WriteOutcomes = {"ok"} /\ (Creating \/ file.unique) => ~NextRefused

\* A batch file executed inside a transaction is not part of it, but it cannot
\* spoil a rollback unnoticed: if every undo succeeded, each entity no batch file
\* touched is as it was when the transaction was opened.
RollbackSparesOnlyFiles ==
    pc = "undo" /\ log = <<>> /\ undoComplete =>
        \A id \in Entities \ outside : File(id) = BaseFile(id)

=============================================================================
