------------------------------- MODULE Archive -------------------------------
(***************************************************************************)
(* Export, import and templates (platform/archive): a repository is        *)
(* captured in one file, and repositories are rebuilt from such files.     *)
(*                                                                         *)
(* objects, rels and audit are the open repository, which these calls only *)
(* read; the dest* variables are the directory a repository is rebuilt in. *)
(* A rebuild touches the disk once per entity and may die between any two  *)
(* of these steps.  What refuses a call before it does anything (no such   *)
(* file, an unacceptable one, a destination that is not empty) changes     *)
(* nothing and is a stuttering step.                                       *)
(***************************************************************************)
EXTENDS Stores, Naturals, FiniteSets

CONSTANTS
    Packages,       \* ids of the packages whose manifests the repository holds
    TemplateIds,    \* the UUIDs templates may get
    Invalid,        \* a record that parses but that its store's validation rejects
    Crashes,        \* may the process die?
    MaxForeign      \* bounds the records of an archive from elsewhere

ASSUME ArchiveAssumption ==
    /\ Invalid \notin Contents \cup {Absent, Torn}
    /\ {Invalid, Torn} \cap AuditEvents = {}
    /\ Crashes \in BOOLEAN
    /\ MaxForeign \in Nat

VARIABLES
    archive,        \* the archive file
    templates,      \* template id -> the template file
    destMeta,       \* repository.json of the destination: whose, and from when
    destObjects, destRels, destAudit, destPackages,
    phase,          \* where the running rebuild is
    job,            \* what it still has to restore
    overwrite,      \* whether it was started with --overwrite
    reply,          \* how the last rebuild that returned ended
    wanted,         \* history: the file the last rebuild was started with
    touched,        \* history: what that rebuild did to the destination
    wreck           \* history: a removal stopped half way and nothing cleared up since

Dest == INSTANCE Stores
            WITH objects <- destObjects, rels <- destRels, audit <- destAudit

sourceVars == storeVars
fileVars == <<archive, templates>>
destVars == <<destMeta, destObjects, destRels, destAudit, destPackages>>
jobVars == <<phase, job, overwrite, reply, wanted, touched, wreck>>
vars == <<sourceVars, fileVars, destVars, jobVars>>

\* Why import_repository turns a file down before it looks at the destination.
Faults == {"none", "syntax", "manifest", "version", "metadata", "type"}

ObjectRecords == [id : ObjectIds, value : Contents \cup {Invalid}]
RelRecords == [id : RelIds, value : Relationships]

\* One event stands for those of an entity, the latest, and goes by the entity's id.
EventRecords == [id : Entities, event : (AuditEvents \ {"None"}) \cup {Invalid}]

\* Archives and templates are records of these fields; a template has no audit events.
Nothing == [fault |-> "none", meta |-> "none",
            objects |-> {}, rels |-> {}, audit |-> {}, packages |-> {}]

\* What repository.json says: the repository it is of, and whether lastModifiedUtc is
\* the one that was saved with it or the time of the rebuild.
Meta(of, modified) == [of |-> of, modified |-> modified]
NoMeta == Meta("none", "none")

-----------------------------------------------------------------------------
(* Capturing a repository. *)

\* list_all leaves out the files it cannot parse, and looks at nothing else.
CapturedObjects ==
    {[id |-> o, value |-> objects[o]] : o \in {o \in ObjectIds : ObjectLoads(o)}}
CapturedRels ==
    {[id |-> r, value |-> rels[r]] : r \in {r \in RelIds : RelLoads(r)}}
CapturedAudit ==
    {Event(e, audit[e]) : e \in {e \in Entities : audit[e] # "None"}}

\* The archive is checked before it is renamed into place, but what is still
\* buffered is flushed after the check; a template is not checked at all.
Export(out) ==
    /\ phase = "idle"
    /\ archive' = IF out = "torn" THEN Torn
                  ELSE [Nothing EXCEPT !.meta = "source",
                                       !.objects = CapturedObjects, !.rels = CapturedRels,
                                       !.audit = CapturedAudit, !.packages = Packages]
    /\ UNCHANGED <<sourceVars, templates, destVars, jobVars>>

CreateTemplate(t, out) ==
    /\ phase = "idle"
    /\ templates[t] = Absent
    /\ templates' = [templates EXCEPT ![t] =
          IF out = "torn" THEN Torn
          ELSE [Nothing EXCEPT !.meta = "new",
                               !.objects = CapturedObjects, !.rels = CapturedRels,
                               !.packages = Packages]]
    /\ UNCHANGED <<sourceVars, archive, destVars, jobVars>>

\* An archive that was not written by this repository's exporter: its records may be
\* invalid, or several of one id.  (Records that agree in everything are one, and its
\* events are about relationships.)
ForeignArchives ==
    {[Nothing EXCEPT !.fault = f] : f \in Faults \ {"none"}}
        \cup {file \in [fault : {"none"}, meta : {"foreign"},
                       objects : SUBSET ObjectRecords, rels : SUBSET RelRecords,
                       audit : SUBSET {e \in EventRecords : e.id \in RelIds},
                       packages : {{}}] :
                 Cardinality(file.objects) + Cardinality(file.rels)
                    + Cardinality(file.audit) <= MaxForeign}

ReceiveArchive ==
    /\ phase = "idle"
    /\ archive = Absent
    /\ archive' \in ForeignArchives
    /\ UNCHANGED <<sourceVars, templates, destVars, jobVars>>

-----------------------------------------------------------------------------
(* Rebuilding a repository. *)

\* The codec keeps every field of a record; only a type name it does not know
\* makes it fail ("type").
Acceptable(file) == file \notin {Absent, Torn} /\ file.fault = "none"

\* read_template_file asks the same of a template, by its own marker and version.
AcceptableTemplate(file) == file \notin {Absent, Torn} /\ file.fault = "none"

DestEmpty ==
    /\ destMeta = NoMeta
    /\ destPackages = {}
    /\ \A o \in ObjectIds : destObjects[o] = Absent
    /\ \A r \in RelIds : destRels[r] = Absent
    /\ \A e \in Entities : destAudit[e] = "None"

Start(file, over) ==
    /\ phase = "idle"
    /\ phase' = IF DestEmpty THEN "metadata" ELSE "clear"
    /\ job' = file
    /\ wanted' = file
    /\ overwrite' = over
    /\ touched' = "untouched"
    /\ reply' = "none"
    /\ UNCHANGED <<sourceVars, fileVars, destVars, wreck>>

StartImport(over) ==
    /\ Acceptable(archive)
    /\ DestEmpty \/ over
    /\ Start(archive, over)
StartTemplate(t) ==
    /\ AcceptableTemplate(templates[t])
    /\ DestEmpty
    /\ Start(templates[t], FALSE)

Return(how) ==
    /\ phase' = "idle"
    /\ job' = Nothing
    /\ reply' = how
    /\ UNCHANGED <<sourceVars, fileVars, overwrite, wanted>>

KeepOn == UNCHANGED <<sourceVars, fileVars, overwrite, reply, wanted>>
Touch(out) ==
    touched' = IF out = "torn" \/ touched = "short" THEN "short" ELSE "written"

Cleared ==
    /\ destMeta' = NoMeta
    /\ destObjects' = [o \in ObjectIds |-> Absent]
    /\ destRels' = [r \in RelIds |-> Absent]
    /\ destAudit' = [e \in Entities |-> "None"]
    /\ destPackages' = {}

\* remove_all of the destination.
Clear ==
    /\ phase = "clear"
    /\ Cleared
    /\ phase' = "metadata"
    /\ touched' = "written"
    /\ wreck' = FALSE
    /\ KeepOn
    /\ UNCHANGED job

\* remove_all stops at a file it cannot remove, or the process dies.
ClearHalfWay ==
    /\ phase = "clear"
    /\ "failed" \in WriteOutcomes \/ Crashes
    /\ \E kept \in SUBSET Entities :
          /\ destObjects' = [o \in ObjectIds |-> IF o \in kept THEN destObjects[o] ELSE Absent]
          /\ destRels' = [r \in RelIds |-> IF r \in kept THEN destRels[r] ELSE Absent]
    /\ touched' = "written"
    /\ wreck' = TRUE
    /\ \E how \in {"io", "none"} : Return(how)
    /\ UNCHANGED <<destMeta, destAudit, destPackages>>

\* save_metadata stamps lastModifiedUtc anew; a template's metadata is all new.
SaveMetadata(out) ==
    /\ phase = "metadata"
    /\ destMeta' = IF out = "torn" THEN Meta("torn", "now") ELSE Meta(job.meta, "now")
    /\ phase' = "restore"
    /\ Touch(out)
    /\ KeepOn
    /\ UNCHANGED <<destObjects, destRels, destAudit, destPackages, job, wreck>>

\* The records of one kind are restored in the order of their ids, which nothing
\* here depends on.
RestoreObject(e, out) ==
    /\ phase = "restore" /\ e \in job.objects
    /\ e.value # Invalid
    /\ Dest!ObjectRestore(e.id, e.value, out)
    /\ job' = [job EXCEPT !.objects = @ \ {e}]
    /\ Touch(out)
    /\ KeepOn
    /\ UNCHANGED <<destMeta, destPackages, phase, wreck>>

\* Faulty variant: the end points are not looked at.
RestoreRelUnchecked(e, out) ==
    /\ phase = "restore" /\ job.objects = {} /\ e \in job.rels
    /\ destRels' = [destRels EXCEPT ![e.id] = Written(e.value, out)]
    /\ job' = [job EXCEPT !.rels = @ \ {e}]
    /\ Touch(out)
    /\ KeepOn
    /\ UNCHANGED <<destMeta, destObjects, destAudit, destPackages, phase, wreck>>
RestoreRel(e, out) ==
    /\ phase = "restore" /\ job.objects = {} /\ e \in job.rels
    /\ Dest!RelRestore(e.id, e.value, out)
    /\ job' = [job EXCEPT !.rels = @ \ {e}]
    /\ Touch(out)
    /\ KeepOn
    /\ UNCHANGED <<destMeta, destPackages, phase, wreck>>

\* AuditStore::restore.  list_events skips a torn event, but its file is there.
RestoreEvent(e, out) ==
    /\ phase = "restore" /\ job.objects = {} /\ job.rels = {} /\ e \in job.audit
    /\ e.event # Invalid
    /\ destAudit[e.id] = "None"
    /\ destAudit' = [destAudit EXCEPT ![e.id] = Written(e.event, out)]
    /\ job' = [job EXCEPT !.audit = @ \ {e}]
    /\ Touch(out)
    /\ KeepOn
    /\ UNCHANGED <<destMeta, destObjects, destRels, destPackages, phase, wreck>>

\* package.json is written in place and its stream is not checked either.
RestorePackage(p, out) ==
    /\ phase = "restore" /\ job.objects = {} /\ job.rels = {} /\ job.audit = {}
    /\ p \in job.packages
    /\ destPackages' = IF out = "torn" THEN destPackages ELSE destPackages \cup {p}
    /\ job' = [job EXCEPT !.packages = @ \ {p}]
    /\ Touch(out)
    /\ KeepOn
    /\ UNCHANGED <<destMeta, destObjects, destRels, destAudit, phase, wreck>>

\* restore() turns the next record down.
Refused ==
    \/ \E e \in job.objects : e.value = Invalid \/ destObjects[e.id] # Absent
    \/ job.objects = {} /\ \E e \in job.rels : ~Dest!RelFits(e.id, e.value)
    \/ /\ job.objects = {} /\ job.rels = {}
       /\ \E e \in job.audit : e.event = Invalid \/ destAudit[e.id] # "None"

RefuseRecord ==
    /\ phase = "restore"
    /\ Refused
    /\ Return("invalid")
    /\ UNCHANGED <<destVars, touched, wreck>>

FailWrite ==
    /\ "failed" \in WriteOutcomes
    /\ phase \in {"metadata", "restore"}
    /\ Return("io")
    /\ UNCHANGED <<destVars, touched, wreck>>

Finish ==
    /\ phase = "restore"
    /\ job.objects = {} /\ job.rels = {} /\ job.audit = {} /\ job.packages = {}
    /\ Return("ok")
    /\ UNCHANGED <<destVars, touched, wreck>>

Crash ==
    /\ Crashes
    /\ phase # "idle"
    /\ Return("none")
    /\ UNCHANGED <<destVars, touched, wreck>>

-----------------------------------------------------------------------------
\* Any repository its program can leave behind: relationships may dangle and
\* files may be torn.  The destination is empty or holds a repository at rest.
Init ==
    /\ objects \in [ObjectIds -> Contents \cup {Absent} \cup
                        (IF "torn" \in WriteOutcomes THEN {Torn} ELSE {})]
    /\ rels \in [RelIds -> Relationships \cup {Absent}]
    /\ audit = [id \in Entities |->
                  IF \/ id \in ObjectIds /\ objects[id] # Absent
                     \/ id \in RelIds /\ rels[id] # Absent
                  THEN "Written"
                  ELSE IF \E r \in RelIds : RelLoads(r) /\ id \in {rels[r].src, rels[r].dst}
                       THEN "Deleted" ELSE "None"]
    /\ pending = {}
    /\ unaudited = {}
    /\ archive = Absent
    /\ templates = [t \in TemplateIds |-> Absent]
    /\ destMeta \in {NoMeta, Meta("own", "saved")}
    /\ destObjects \in [ObjectIds -> {Absent} \cup {c \in Contents : destMeta # NoMeta}]
    /\ destRels = [r \in RelIds |-> Absent]
    /\ destAudit = [e \in Entities |->
                      IF e \in ObjectIds /\ destObjects[e] # Absent THEN "Written" ELSE "None"]
    /\ destPackages = {}
    /\ phase = "idle"
    /\ job = Nothing
    /\ wanted = Nothing
    /\ overwrite = FALSE
    /\ reply = "none"
    /\ touched = "untouched"
    /\ wreck = FALSE

SuccessfulWrites == WriteOutcomes \ {"failed"}

Capture ==
    \/ \E out \in SuccessfulWrites : Export(out)
    \/ \E t \in TemplateIds, out \in SuccessfulWrites : CreateTemplate(t, out)
    \/ ReceiveArchive

Begin ==
    \/ \E over \in BOOLEAN : StartImport(over)
    \/ \E t \in TemplateIds : StartTemplate(t)

Continue ==
    \/ Clear \/ ClearHalfWay \/ RefuseRecord \/ FailWrite \/ Finish
    \/ \E out \in SuccessfulWrites :
          \/ SaveMetadata(out)
          \/ \E e \in job.objects : RestoreObject(e, out)
          \/ \E e \in job.rels : RestoreRel(e, out)
          \/ \E e \in job.audit : RestoreEvent(e, out)
          \/ \E p \in job.packages : RestorePackage(p, out)

Next == Capture \/ Begin \/ Continue \/ Crash

Spec == Init /\ [][Next]_vars
-----------------------------------------------------------------------------
(* Properties. *)

Value(records, id) ==
    IF \E e \in records : e.id = id THEN {e.value : e \in {e \in records : e.id = id}}
    ELSE {Absent}

\* A rebuild that reports success left at the destination exactly what the file
\* held and nothing of what was there before (import_repository,
\* instantiate_template), every stamp of it but the repository's lastModifiedUtc;
\* a short write, which no one notices, may have torn a file or lost a package.
SuccessIsExact ==
    reply = "ok" =>
        /\ \A o \in ObjectIds : destObjects[o] \in Value(wanted.objects, o) \cup {Torn}
        /\ \A r \in RelIds : destRels[r] \in Value(wanted.rels, r) \cup {Torn}
        /\ \A e \in Entities :
              destAudit[e] \notin {"None", Torn} => Event(e, destAudit[e]) \in wanted.audit
        /\ \A e \in wanted.audit : destAudit[e.id] \in {e.event, Torn}
        /\ destPackages \subseteq wanted.packages
        /\ touched # "short" =>
              /\ \A o \in ObjectIds : destObjects[o] # Torn
              /\ \A r \in RelIds : destRels[r] # Torn
              /\ destPackages = wanted.packages
              /\ \A e \in Entities : destAudit[e] # Torn
              /\ destMeta = Meta(wanted.meta, "now")

\* However an import ends - success, refusal, crash - no relationship at the
\* destination dangles, even when the archive is full of them: objects are
\* restored first and restore() looks at the end points.
DestinationNeverDangles ==
    ~wreck => \A r \in RelIds : Dest!RelLoads(r) => Dest!EndpointsLoad(destRels[r])

\* One record per id, every record valid, every relationship between objects the
\* file holds.
Consistent(file) ==
    /\ \A e, f \in file.objects : e.id = f.id => e = f
    /\ \A e, f \in file.rels : e.id = f.id => e = f
    /\ \A e, f \in file.audit : e.id = f.id => e = f
    /\ \A e \in file.objects : e.value # Invalid
    /\ \A e \in file.audit : e.event # Invalid
    /\ \A e \in file.rels : \E s, d \in file.objects : s.id = e.value.src /\ d.id = e.value.dst

\* A consistent file is never turned down half way, whatever was at the destination
\* and however often the call is repeated after a crash, unless a file it has restored
\* was written short.
ConsistentIsRestored == Consistent(wanted) /\ reply = "invalid" => touched = "short"

\* The three together.
RebuildIsFaithful == SuccessIsExact /\ DestinationNeverDangles /\ ConsistentIsRestored

=============================================================================
