------------------------------- MODULE Stores -------------------------------
(***************************************************************************)
(* The three file stores of a repository: ObjectStore, RelationshipStore   *)
(* and AuditStore (platform/repository).  An entity is one JSON file; a    *)
(* store call succeeds or reports an error and leaves the file alone.      *)
(*                                                                         *)
(* A "torn" write is the one outcome the code cannot see: write_*_file     *)
(* never looks at the stream after `file << serialized`, so a short write  *)
(* (a full disk) is renamed into place and reported as a success.  The     *)
(* entity is then Torn: its file exists but cannot be parsed.              *)
(*                                                                         *)
(* create, update and remove touch the disk twice: first the entity's      *)
(* file, then, once that is done, the file of an audit event.  The call    *)
(* is therefore two steps: the operators below change the file and leave   *)
(* the event in `pending`; RecordEvent writes it.  Whoever composes the    *)
(* stores lets nothing but a crash happen between the two.                 *)
(*                                                                         *)
(* Every field of an object except its id and lastModifiedUtc is one value *)
(* of Contents; a relationship keeps its end points, which are immutable,  *)
(* and one value of Contents for author and description.                   *)
(***************************************************************************)
CONSTANTS
    ObjectIds,      \* the UUIDs objects may get
    RelIds,         \* the UUIDs relationships may get
    Contents,       \* what an entity's mutable fields may hold
    Absent,         \* no file
    Torn,           \* a file that cannot be parsed
    WriteOutcomes,  \* what a file write may do: "ok", "failed", "torn"
    AuditOutcomes   \* what recording an audit event may do: "ok", "failed"

Relationships ==
    {v \in [src : ObjectIds, dst : ObjectIds, note : Contents] : v.src # v.dst}

ASSUME StoresAssumption ==
    /\ ObjectIds \cap RelIds = {}
    /\ Absent # Torn
    /\ {Absent, Torn} \cap (Contents \cup Relationships) = {}
    /\ Contents \cap Relationships = {}
    /\ WriteOutcomes \subseteq {"ok", "failed", "torn"}
    /\ AuditOutcomes \subseteq {"ok", "failed"}
    /\ "ok" \in WriteOutcomes \cap AuditOutcomes

VARIABLES
    objects,    \* object id -> content, Absent or Torn
    rels,       \* relationship id -> relationship, Absent or Torn
    audit,      \* entity id -> the latest audit event recorded for it
    pending,    \* the event the running store call has still to record, if any
    unaudited   \* history: entities whose Deleted event was lost in a crash

storeVars == <<objects, rels, audit, pending, unaudited>>

Entities == ObjectIds \cup RelIds
\* ObjectCreated, ObjectUpdated and the like for relationships are one kind, Written:
\* that the entity should exist is all anyone reads in them.
AuditEvents == {"None", "Written", "Deleted"}
EventsOf(ids) == [id : ids, event : AuditEvents \ {"None"}]

ObjectFiles == Contents \cup {Absent, Torn}
RelFiles == Relationships \cup {Absent, Torn}

StoresTypeOK ==
    /\ objects \in [ObjectIds -> ObjectFiles]
    /\ rels \in [RelIds -> RelFiles]
    /\ audit \in [Entities -> AuditEvents]
    /\ pending \subseteq EventsOf(Entities)
    /\ unaudited \subseteq Entities

-----------------------------------------------------------------------------
(* What load() accepts: the file exists, parses and validates. *)
ObjectLoads(o) == objects[o] \in Contents
RelLoads(r) == rels[r] \in Relationships

(* A relationship is created or restored only between objects that load. *)
EndpointsLoad(v) == ObjectLoads(v.src) /\ ObjectLoads(v.dst)

RelFits(r, v) == EndpointsLoad(v) /\ rels[r] = Absent

(* The file a successful write of v leaves behind. *)
Written(v, out) == IF out = "torn" THEN Torn ELSE v

\* No store call is between its file and its event.
Settled == pending = {}

Event(id, what) == [id |-> id, event |-> what]

(* The file is changed; record_audit comes next. *)
Owe(id, what) ==
    /\ pending' = {Event(id, what)}
    /\ UNCHANGED <<audit, unaudited>>

NoEvent == UNCHANGED <<audit, pending, unaudited>>

(* record_audit: the event is recorded best effort, its failure ignored. *)
RecordEvent ==
    /\ \E e \in pending, out \in AuditOutcomes :
          /\ audit' = IF out = "ok" THEN [audit EXCEPT ![e.id] = e.event] ELSE audit
          /\ pending' = pending \ {e}
    /\ UNCHANGED <<objects, rels, unaudited>>

\* The process dies: what was to be recorded never is.
LoseEvent ==
    /\ pending' = {}
    /\ unaudited' = unaudited \cup {e.id : e \in {e \in pending : e.event = "Deleted"}}
    /\ UNCHANGED <<objects, rels, audit>>

-----------------------------------------------------------------------------
(* ObjectStore: each operator is the file part of a call that succeeds. *)
ObjectCreate(o, c, out) ==
    /\ objects[o] = Absent
    /\ objects' = [objects EXCEPT ![o] = Written(c, out)]
    /\ Owe(o, "Written")
    /\ UNCHANGED rels

ObjectUpdate(o, c, out) ==
    /\ ObjectLoads(o)
    /\ objects' = [objects EXCEPT ![o] = Written(c, out)]
    /\ Owe(o, "Written")
    /\ UNCHANGED rels

\* Faulty variant: a removal leaves no audit event.
ObjectRemoveUnaudited(o) ==
    /\ objects[o] # Absent
    /\ objects' = [objects EXCEPT ![o] = Absent]
    /\ NoEvent
    /\ UNCHANGED rels

\* No relationship is looked at: removing an object may leave some dangling.
ObjectRemove(o) ==
    /\ objects[o] # Absent
    /\ objects' = [objects EXCEPT ![o] = Absent]
    /\ Owe(o, "Deleted")
    /\ UNCHANGED rels

\* restore() records no audit event.
ObjectRestore(o, c, out) ==
    /\ objects[o] = Absent
    /\ objects' = [objects EXCEPT ![o] = Written(c, out)]
    /\ NoEvent
    /\ UNCHANGED rels

(* RelationshipStore. *)
RelCreate(r, v, out) ==
    /\ RelFits(r, v)
    /\ rels' = [rels EXCEPT ![r] = Written(v, out)]
    /\ Owe(r, "Written")
    /\ UNCHANGED objects

\* The end points are taken from the stored file and not checked again.
RelUpdate(r, note, out) ==
    /\ RelLoads(r)
    /\ rels' = [rels EXCEPT ![r] = Written([rels[r] EXCEPT !.note = note], out)]
    /\ Owe(r, "Written")
    /\ UNCHANGED objects

RelRemove(r) ==
    /\ rels[r] # Absent
    /\ rels' = [rels EXCEPT ![r] = Absent]
    /\ Owe(r, "Deleted")
    /\ UNCHANGED objects

RelRestore(r, v, out) ==
    /\ RelFits(r, v)
    /\ rels' = [rels EXCEPT ![r] = Written(v, out)]
    /\ NoEvent
    /\ UNCHANGED objects

-----------------------------------------------------------------------------
(* A repository at rest: objects, relationships between them, and the      *)
(* audit event of each creation.                                           *)
StoresInit ==
    /\ objects \in [ObjectIds -> Contents \cup {Absent}]
    /\ rels \in [RelIds -> Relationships \cup {Absent}]
    /\ \A r \in RelIds : RelLoads(r) => EndpointsLoad(rels[r])
    /\ audit = [id \in Entities |->
                  IF \/ id \in ObjectIds /\ objects[id] # Absent
                     \/ id \in RelIds /\ rels[id] # Absent
                  THEN "Written" ELSE "None"]
    /\ pending = {}
    /\ unaudited = {}
=============================================================================
