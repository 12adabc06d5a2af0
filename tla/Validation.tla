------------------------------ MODULE Validation ------------------------------
(***************************************************************************)
(* RepositoryValidator (platform/validation) over a repository a runtime   *)
(* works on: what a validation reports in every state that mutations,      *)
(* rollbacks, batch files, failing writes and crashes lead to.             *)
(*                                                                         *)
(* A validation changes nothing: it is an operator of the state.  Two      *)
(* things it looks at come from outside the runtime: repository.json, and  *)
(* stray files, copies of an entity's file under another name.             *)
(***************************************************************************)
EXTENDS BatchFiles

VARIABLES
    events,     \* every audit event on the disk
    meta,       \* repository.json: "valid", "broken" if it does not load or validate
    strays,     \* copies of an entity's file: whose, and what it held then
    before      \* history: the findings when the open transaction was opened

valVars == <<events, meta, strays, before>>

-----------------------------------------------------------------------------
(* The findings. *)

Loads(id) == IF id \in ObjectIds THEN ObjectLoads(id) ELSE RelLoads(id)
TornFiles(ids) == {id \in ids : File(id) = Torn}

Finding(category, id) == [category |-> category, id |-> id]

\* validate_metadata: one finding, or one for each field that is wrong.
MetadataErrors == IF meta = "valid" THEN {} ELSE {Finding("Metadata", "none")}

Copied == {s.id : s \in strays}

\* A file that does not parse, an id listed twice.
FileErrors(ids) ==
    {Finding("invalid", id) : id \in TornFiles(ids)}
        \cup {Finding("duplicate", id) : id \in {i \in ids \cap Copied : Loads(i)}}

\* list_all: every relationship file that parses, a copy too, also when what it was
\* copied from is gone.
ListedRels ==
    {[id |-> r, value |-> rels[r]] : r \in {r \in RelIds : RelLoads(r)}}
        \cup {s \in strays : s.id \in RelIds}

EndpointErrors ==
    {Finding("source", e.id) : e \in {e \in ListedRels : ~ObjectLoads(e.value.src)}}
        \cup {Finding("target", e.id) : e \in {e \in ListedRels : ~ObjectLoads(e.value.dst)}}

Errors == MetadataErrors \cup FileErrors(ObjectIds) \cup FileErrors(RelIds) \cup EndpointErrors

\* implies_current_existence
Existing == {"Written"}

\* One for each event; the findings of one event type and entity are one here.
Warnings ==
    {Finding(e.type, e.id) : e \in {e \in events : e.type \in Existing /\ ~Loads(e.id)}}

Healthy == Errors = {}
Findings == [errors |-> Errors, warnings |-> Warnings]
NoFindings == [errors |-> {}, warnings |-> {}]

-----------------------------------------------------------------------------
ValInit ==
    /\ BatchInit
    /\ events = {[id |-> id, type |-> "Written"] : id \in {i \in Entities : audit[i] = "Written"}}
    /\ meta = "valid"
    /\ strays = {}
    /\ before = NoFindings

\* record_event puts a new file beside the older ones.
EventsRecorded ==
    events' = events \cup
        {[id |-> id, type |-> audit'[id]] : id \in {i \in Entities : audit'[i] # audit[i]}}

WorkingStep ==
    /\ BatchNext
    /\ EventsRecorded
    /\ before' = IF ~active' THEN NoFindings ELSE IF tx' # tx THEN Findings ELSE before
    /\ UNCHANGED <<meta, strays>>

\* Someone edits repository.json or copies a file by hand, between two calls.
\* Bound: once.
Tamper ==
    /\ pc = "idle" /\ ~active /\ Settled
    /\ meta = "valid" /\ strays = {}
    /\ \/ meta' = "broken" /\ UNCHANGED strays
       \/ /\ UNCHANGED meta
          /\ \E id \in Entities : Loads(id) /\ strays' = {[id |-> id, value |-> File(id)]}
    /\ UNCHANGED <<fvars, events, before>>

ValNext == WorkingStep \/ Tamper

ValSpec == ValInit /\ [][ValNext]_<<fvars, valVars>>

-----------------------------------------------------------------------------
(* Properties. *)

\* While the disk works, a repository nobody edited by hand is unhealthy only because
\* an object was deleted under a relationship, and the audit log says which; the
\* warnings are about entities the log reports as deleted.  The exception is a deletion
\* whose event a crash swallowed: no event ever tells of it.
Explained(id) ==
    \/ [id |-> id, type |-> "Deleted"] \in events
    \/ Event(id, "Deleted") \in pending
    \/ id \in unaudited

UnhealthyIsExplained ==
    WriteOutcomes = {"ok"} /\ AuditOutcomes = {"ok"} /\ meta = "valid" /\ strays = {} =>
        /\ ~Healthy => \E r \in RelIds, o \in ObjectIds :
                /\ RelLoads(r) /\ o \in {rels[r].src, rels[r].dst}
                /\ ~ObjectLoads(o) /\ Explained(o)
        /\ \A w \in Warnings : Explained(w.id)

\* A rollback that is complete leaves the errors as they were, unless a batch file
\* changed something meanwhile, and brings no warning but about what such a file
\* touched and what the transaction had created: its creation stays in the audit log.
RollbackAddsOnlyWarnings ==
    pc = "undo" /\ log = <<>> /\ undoComplete =>
        /\ outside = {} => Errors = before.errors
        /\ \A w \in Warnings \ before.warnings : BaseFile(w.id) = Absent \/ w.id \in outside

\* A report, also in the middle of a rollback, is explained by what was done.
ReportIsExplained == UnhealthyIsExplained /\ RollbackAddsOnlyWarnings
=============================================================================
