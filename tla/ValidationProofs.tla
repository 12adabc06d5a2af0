--------------------------- MODULE ValidationProofs ---------------------------
(***************************************************************************)
(* Proofs about BatchFiles and Validation, for all sets of ids, names and  *)
(* contents and all bounds.                                                *)
(***************************************************************************)
EXTENDS Validation, FoundationRuntimeProofs

USE StoresAssumption, RuntimeAssumption, BatchAssumption

(* What carries the three properties: the file in execution, ... *)

FileRecords ==
    [kind : {"none", "create", "delete"},
     objects : Seq(ObjectSpecs) \cup Seq(ObjectIds), rels : Seq(RelSpecs) \cup Seq(RelIds),
     done : Nat, unique : BOOLEAN, resolved : [Refs -> ObjectIds \cup {Absent}]]

FileTypeOK ==
    /\ file \in FileRecords
    /\ file.kind = "create" => file.objects \in Seq(ObjectSpecs) /\ file.rels \in Seq(RelSpecs)
    /\ file.kind = "delete" => file.objects \in Seq(ObjectIds) /\ file.rels \in Seq(RelIds)

\* The names of objects still to be created.
NamesLeft == {file.objects[i].ref : i \in DOMAIN file.objects} \cap Refs

\* An end point names an object to come, or one there is.
EndKnown(end) == end \in NamesLeft \/ Resolve(end) \in ObjectIds \cap issued
EndsApart(spec) ==
    {spec.source, spec.target} \cap NamesLeft = {} => Resolve(spec.source) # Resolve(spec.target)

EndsOK ==
    Creating => \A i \in DOMAIN file.rels :
        /\ EndKnown(file.rels[i].source) /\ EndKnown(file.rels[i].target)
        /\ file.rels[i].source # file.rels[i].target
        /\ EndsApart(file.rels[i])

\* On a disk that works what it names also loads.
EndLoads(end) == end \in NamesLeft \/ ObjectLoads(Resolve(end))
EndsLoad ==
    WriteOutcomes = {"ok"} /\ Creating => \A i \in DOMAIN file.rels :
        EndLoads(file.rels[i].source) /\ EndLoads(file.rels[i].target)

\* Nothing a delete file still names is gone.
DeletesFind ==
    Deleting /\ file.unique =>
        /\ Distinct(file.objects) /\ Distinct(file.rels)
        /\ \A i \in DOMAIN file.objects : objects[file.objects[i]] # Absent
        /\ \A i \in DOMAIN file.rels : rels[file.rels[i]] # Absent

FileInv == FileTypeOK /\ EndsOK /\ EndsLoad /\ DeletesFind

\* ... the transaction it may be executed in, ...
Held == pc \notin {"idle", "file"} => active
BatchFilesInv == InvBut(outside) /\ Held /\ FileInv

\* ... the audit log, ...
EventsKnown ==
    /\ \A e \in events \cup pending : e.id \in issued
    /\ \A id \in Entities : audit[id] # "None" => [id |-> id, type |-> audit[id]] \in events
EndsIssued == \A r \in RelIds : RelLoads(r) => rels[r].src \in issued /\ rels[r].dst \in issued

\* ... and what a validation would have said when the transaction was opened.
ListedIn(rls, copies) ==
    {[id |-> r, value |-> rls[r]] : r \in {q \in RelIds : rls[q] \in Relationships}}
        \cup {s \in copies : s.id \in RelIds}
ErrorsOf(objs, rls, metadata, copies) ==
    LET copied == {s.id : s \in copies}
        listed == ListedIn(rls, copies)
    IN  (IF metadata = "valid" THEN {} ELSE {Finding("Metadata", "none")})
            \cup {Finding("invalid", id) : id \in {i \in ObjectIds : objs[i] = Torn}}
            \cup {Finding("duplicate", id) : id \in {i \in ObjectIds \cap copied : objs[i] \in Contents}}
            \cup {Finding("invalid", id) : id \in {i \in RelIds : rls[i] = Torn}}
            \cup {Finding("duplicate", id) : id \in {i \in RelIds \cap copied : rls[i] \in Relationships}}
            \cup {Finding("source", e.id) : e \in {e \in listed : objs[e.value.src] \notin Contents}}
            \cup {Finding("target", e.id) : e \in {e \in listed : objs[e.value.dst] \notin Contents}}
BeforeIsBase == active => before.errors = ErrorsOf(base.objects, base.rels, meta, strays)

ReportInv ==
    /\ BatchFilesInv
    /\ NothingTorn
    /\ AuditInv
    /\ EventsKnown
    /\ EndsIssued
    /\ BeforeIsBase

-----------------------------------------------------------------------------
(* A batch file inside a transaction, or outside one.                      *)

LEMMA RequestTypes ==
    /\ \A req \in CreateRequests : req.objects \in Seq(ObjectSpecs) /\ req.rels \in Seq(RelSpecs)
    /\ \A req \in DeleteRequests : req.objects \in Seq(ObjectIds) /\ req.rels \in Seq(RelIds)
<1>1. ASSUME NEW S, NEW max \in Nat PROVE Lists(S, max) \subseteq Seq(S)
  <2> SUFFICES ASSUME NEW n \in 0..max, NEW s \in [1..n -> S] PROVE s \in Seq(S)
      BY DEF Lists
  <2>1. n \in Nat
      OBVIOUS
  <2> QED BY <2>1
<1> HIDE DEF Lists
<1> QED BY <1>1 DEF CreateRequests, DeleteRequests

\* An item writes or removes one file and is noted in outside, not in the log.
LEMMA ItemStep ==
    ASSUME InvBut(outside), TypeOK', pc = "file", NEW id \in Entities,
           UNCHANGED <<base, log, active, undoComplete, pc>>,
           issued' = issued \cup {id},
           active => outside' = outside \cup {id},
           \A x \in Entities \ {id} : File(x)' = File(x),
           File(id)' = Absent \/ id \notin issued
    PROVE  InvBut(outside)'
<1> USE DEF InvBut
<1>1. \A x : BaseFile(x)' = BaseFile(x)
    BY DEF BaseFile
<1>2. FilesIssued'
    BY <1>1 DEF FilesIssued
<1>3. EndsFixed'
  <2>1. ASSUME NEW r \in RelIds, rels'[r] \in Relationships, base.rels[r] \in Relationships
        PROVE  SameEnds(rels'[r], base.rels[r])
    <3>1. r \in Entities /\ File(r) = rels[r] /\ File(r)' = rels'[r] /\ BaseFile(r) = base.rels[r]
        BY DEF Entities, File, BaseFile
    <3>2. r # id
        BY <2>1, <3>1 DEF FilesIssued
    <3> QED BY <2>1, <3>1, <3>2 DEF EndsFixed
  <2> QED BY <2>1 DEF EndsFixed, SameEnds
<1>4. UntouchedSameBut(outside)'
    BY <1>1 DEF UntouchedSameBut
<1>5. FirstHoldsBaseBut(outside)'
  <2>1. CASE active
      BY <1>1, <2>1 DEF FirstHoldsBaseBut, FirstFor
  <2>2. CASE ~active
    <3>1. log' = <<>>
        BY <2>2
    <3> QED BY <3>1 DEF FirstHoldsBaseBut
  <2> QED BY <2>1, <2>2
<1> QED BY <1>2, <1>3, <1>4, <1>5

LEMMA LogHeldStep ==
    ASSUME TypeOK, log # <<>> => active, Lifecycle \/ Mutate \/ Transact \/ Continue \/ Crash
    PROVE  (log # <<>> => active)'
<1>1. CASE Lifecycle \/ Transact \/ Crash
    BY <1>1 DEF Lifecycle, Initialize, OpenRepository, CloseRepository, Shutdown, NewHandle, Leave,
                Transact, BeginTransaction, CommitTransaction, RollbackTransaction, StartBatch,
                StartRollback, OpenTransaction, JoinOrOpen, Crash, txVars
<1>2. CASE Mutate
  <2>1. ASSUME NEW kind, NEW id, NEW old, LogMutation(kind, id, old) PROVE active' = TRUE
      BY <2>1 DEF LogMutation, JoinOrOpen, OpenTransaction, TypeOK
  <2>2. CASE RefuseMutation
      BY <2>2 DEF RefuseMutation, JoinOrOpen, OpenTransaction, StartRollback
  <2> QED BY <1>2, <2>1, <2>2
          DEF Mutate, CreateObject, UpdateObject, DeleteObject, CreateRelationship,
              UpdateRelationship, DeleteRelationship
<1>3. CASE Continue
  <2>1. ASSUME NEW out, CommitImplicit(out) \/ FinishRollback(out) \/ FinishBatch(out)
        PROVE  (log # <<>> => active)'
      BY <2>1 DEF CommitImplicit, FinishRollback, FinishBatch
  <2>2. ASSUME NEW out, UndoLast(out) PROVE (log # <<>> => active)'
      BY <2>2 DEF UndoLast
  <2> QED BY <1>3, <2>1, <2>2 DEF Continue
<1> QED BY <1>1, <1>2, <1>3

LEMMA HeldStep ==
    ASSUME TypeOK, Held, Lifecycle \/ Mutate \/ Transact \/ Continue \/ Crash, pc # "file" \/ Crash
    PROVE  Held'
<1> USE DEF Held
<1>1. CASE Lifecycle \/ Transact \/ Crash
    BY <1>1 DEF Lifecycle, Initialize, OpenRepository, CloseRepository, Shutdown, NewHandle, Leave,
                Transact, BeginTransaction, CommitTransaction, RollbackTransaction, StartBatch,
                StartRollback, OpenTransaction, JoinOrOpen, Crash, txVars, Callable
<1>2. CASE Mutate
  <2>1. ASSUME NEW kind, NEW id, NEW old, LogMutation(kind, id, old) PROVE active' = TRUE
      BY <2>1 DEF LogMutation, JoinOrOpen, OpenTransaction, TypeOK
  <2>2. CASE RefuseMutation
      BY <2>2 DEF RefuseMutation, JoinOrOpen, OpenTransaction, StartRollback
  <2> QED BY <1>2, <2>1, <2>2
          DEF Mutate, CreateObject, UpdateObject, DeleteObject, CreateRelationship,
              UpdateRelationship, DeleteRelationship
<1>3. CASE Continue
  <2>1. ASSUME NEW out, CommitImplicit(out) \/ FinishRollback(out) \/ FinishBatch(out) PROVE Held'
      BY <2>1 DEF CommitImplicit, FinishRollback, FinishBatch
  <2>2. ASSUME NEW out, UndoLast(out) PROVE Held'
      BY <2>2 DEF UndoLast
  <2> QED BY <1>3, <2>1, <2>2 DEF Continue
<1> QED BY <1>1, <1>2, <1>3

\* Everything else that happens is about the files no batch file touched.
LEMMA ForgottenStep ==
    ASSUME InvBut(outside), "torn" \notin WriteOutcomes, Settled \/ Crash,
           Lifecycle \/ Mutate \/ Transact \/ Continue \/ Crash, Forget
    PROVE  InvBut(outside)'
<1>1. TypeOK' /\ (pc # "undo" => undoComplete)'
    BY TypeStep, UndoCompleteStep DEF InvBut, Next
<1>2. (log # <<>> => active)'
    BY LogHeldStep DEF InvBut
<1>3. PICK O : O = outside
    OBVIOUS
<1>4. LogAndStoresBut(O)'
  <2>1. InvBut(O)
      BY <1>3
  <2> QED BY <2>1, MutateStepBut, OtherStepsBut
<1>5. CASE active'
  <2>1. outside' = O
      BY <1>3, <1>5 DEF Forget
  <2> QED BY <1>1, <1>2, <1>4, <2>1 DEF InvBut, LogAndStoresBut, UntouchedSameBut, FirstHoldsBaseBut
<1>6. CASE ~active'
  <2>1. log' = <<>>
      BY <1>2, <1>6
  <2> QED BY <1>1, <1>2, <1>4, <1>6, <2>1 DEF InvBut, LogAndStoresBut, UntouchedSameBut, FirstHoldsBaseBut
<1> QED BY <1>5, <1>6
-----------------------------------------------------------------------------
(* The items of a file.                                                    *)

LEMMA TailFacts ==
    ASSUME NEW S, NEW s \in Seq(S), s # <<>>
    PROVE  /\ Tail(s) \in Seq(S) /\ Head(s) = s[1] /\ s[1] \in S /\ 1 \in DOMAIN s
           /\ \A i \in DOMAIN Tail(s) : i + 1 \in DOMAIN s /\ i + 1 # 1 /\ Tail(s)[i] = s[i + 1]
           /\ \A i \in DOMAIN s : i # 1 => i - 1 \in DOMAIN Tail(s) /\ Tail(s)[i - 1] = s[i]
OBVIOUS

LEMMA FileEdits ==
    ASSUME NEW f \in FileRecords, NEW n \in Nat,
           NEW os \in Seq(ObjectSpecs) \cup Seq(ObjectIds), NEW rs \in Seq(RelSpecs) \cup Seq(RelIds),
           NEW res \in [Refs -> ObjectIds \cup {Absent}]
    PROVE  /\ f.done + 1 \in Nat
           /\ [f EXCEPT !.objects = os, !.done = n] \in FileRecords
           /\ [f EXCEPT !.rels = rs, !.done = n] \in FileRecords
           /\ [f EXCEPT !.objects = os, !.done = n, !.resolved = res] \in FileRecords
<1>1. f.done + 1 \in Nat
    BY DEF FileRecords
<1>2. [f EXCEPT !.objects = os, !.done = n] \in FileRecords
    BY DEF FileRecords
<1>3. [f EXCEPT !.rels = rs, !.done = n] \in FileRecords
    BY DEF FileRecords
<1>4. [f EXCEPT !.objects = os, !.done = n, !.resolved = res] \in FileRecords
    BY DEF FileRecords
<1> QED BY <1>1, <1>2, <1>3, <1>4

\* What the store is called with is a relationship between two different objects.
LEMMA ResolvedFits ==
    ASSUME FileInv, Creating, file.objects = <<>>, file.rels # <<>>
    PROVE  Resolved(Head(file.rels)) \in Relationships
<1>1. file.rels \in Seq(RelSpecs) /\ NamesLeft = {}
    BY DEF FileInv, FileTypeOK, Creating, NamesLeft
<1>2. PICK spec \in RelSpecs : spec = Head(file.rels) /\ spec = file.rels[1] /\ 1 \in DOMAIN file.rels
    BY <1>1, TailFacts
<1>3. /\ Resolve(spec.source) \in ObjectIds /\ Resolve(spec.target) \in ObjectIds
      /\ Resolve(spec.source) # Resolve(spec.target)
    BY <1>1, <1>2 DEF FileInv, EndsOK, EndKnown, EndsApart
<1>4. spec.note \in Contents
    BY DEF RelSpecs
<1>5. Resolved(spec) \in Relationships
    BY <1>3, <1>4 DEF Resolved, Relationships
<1> QED BY <1>2, <1>5

LEMMA CreateObjectFile ==
    ASSUME TypeOK, FileInv, NEW o \in ObjectIds, NEW out \in SuccessfulWrites, CreateNextObject(o, out)
    PROVE  FileInv'
<1>1. /\ file.kind = "create" /\ file.objects \in Seq(ObjectSpecs) /\ file.rels \in Seq(RelSpecs)
      /\ file.objects # <<>> /\ file \in FileRecords
    BY DEF FileInv, FileTypeOK, CreateNextObject, Creating
<1>0. PICK spec \in ObjectSpecs : spec = Head(file.objects) /\ spec = file.objects[1] /\ 1 \in DOMAIN file.objects
    BY <1>1, TailFacts
<1>2. /\ file'.kind = "create" /\ file'.objects = Tail(file.objects) /\ file'.rels = file.rels
      /\ file'.resolved = [a \in Refs |-> IF a = spec.ref THEN o ELSE file.resolved[a]]
      /\ pc' = pc
    BY <1>0, <1>1 DEF FileRecords, CreateNextObject, ItemDone
<1>3. FileTypeOK'
  <2>1. file' = [file EXCEPT !.objects = Tail(file.objects), !.done = file.done + 1,
                             !.resolved = [a \in Refs |-> IF a = spec.ref THEN o ELSE file.resolved[a]]]
      BY <1>0 DEF CreateNextObject
  <2>2. Tail(file.objects) \in Seq(ObjectSpecs)
      BY <1>1
  <2>3. [a \in Refs |-> IF a = spec.ref THEN o ELSE file.resolved[a]] \in [Refs -> ObjectIds \cup {Absent}]
      BY <1>1 DEF FileRecords
  <2>4. file' \in FileRecords
      BY <1>1, <2>1, <2>2, <2>3, FileEdits, Zenon
  <2> QED BY <1>1, <1>2, <2>2, <2>4 DEF FileTypeOK
<1>4. NamesLeft \subseteq NamesLeft' \cup {spec.ref} /\ NamesLeft' \subseteq NamesLeft
  <2>1. ASSUME NEW i \in DOMAIN file.objects, file.objects[i].ref # spec.ref
        PROVE  \E j \in DOMAIN file'.objects : file'.objects[j].ref = file.objects[i].ref
    <3>1. i # 1
        BY <1>0, <2>1
    <3>2. i - 1 \in DOMAIN Tail(file.objects) /\ Tail(file.objects)[i - 1] = file.objects[i]
        BY <1>1, <3>1, TailFacts
    <3> QED BY <1>2, <3>2
  <2>2. ASSUME NEW i \in DOMAIN file'.objects
        PROVE  \E j \in DOMAIN file.objects : file.objects[j].ref = file'.objects[i].ref
      BY <1>1, <1>2, <2>2, TailFacts
  <2> QED BY <2>1, <2>2 DEF NamesLeft
<1>5. /\ \A end : end # spec.ref \/ end \notin Refs => Resolve(end)' = Resolve(end)
      /\ spec.ref \in Refs => Resolve(spec.ref)' = o
    BY <1>2 DEF Resolve
<1>6. ObjectCreate(o, spec.content, out) /\ o \notin issued /\ issued' = issued \cup {o}
    BY <1>0 DEF CreateNextObject
<1>7. spec.ref \in Refs => spec.ref \in NamesLeft
    BY <1>0 DEF NamesLeft
<1>8. ASSUME NEW i \in DOMAIN file'.rels PROVE file.rels[i] \in RelSpecs /\ file'.rels[i] = file.rels[i] /\ i \in DOMAIN file.rels
    BY <1>1, <1>2
<1>9. EndsOK'
  <2>1. \A end : EndKnown(end) => EndKnown(end)'
      BY <1>4, <1>5, <1>6 DEF EndKnown, NamesLeft
  <2>2. ASSUME NEW x, NEW y, x # y, EndKnown(x), EndKnown(y),
               {x, y} \cap NamesLeft = {} => Resolve(x) # Resolve(y),
               {x, y} \cap NamesLeft' = {}
        PROVE  Resolve(x)' # Resolve(y)'
    <3>1. CASE x \notin NamesLeft /\ y \notin NamesLeft
        BY <1>5, <1>7, <2>2, <3>1
    <3>2. CASE x \in NamesLeft
      <4>1. x = spec.ref /\ x \in Refs /\ y \notin NamesLeft
          BY <1>4, <2>2, <3>2 DEF NamesLeft
      <4> QED BY <1>5, <1>6, <2>2, <4>1 DEF EndKnown
    <3>3. CASE y \in NamesLeft
      <4>1. y = spec.ref /\ y \in Refs /\ x \notin NamesLeft
          BY <1>4, <2>2, <3>3 DEF NamesLeft
      <4> QED BY <1>5, <1>6, <2>2, <4>1 DEF EndKnown
    <3> QED BY <3>1, <3>2, <3>3
  <2>3. Creating
      BY DEF CreateNextObject
  <2> SUFFICES ASSUME NEW i \in DOMAIN file'.rels
               PROVE  (/\ EndKnown(file.rels[i].source) /\ EndKnown(file.rels[i].target)
                       /\ file.rels[i].source # file.rels[i].target
                       /\ EndsApart(file.rels[i]))'
      BY DEF EndsOK
  <2>4. PICK s \in RelSpecs : s = file.rels[i] /\ s = file'.rels[i] /\ i \in DOMAIN file.rels
      BY <1>8
  <2>5. EndKnown(s.source) /\ EndKnown(s.target) /\ s.source # s.target /\ EndsApart(s)
      BY <2>3, <2>4 DEF FileInv, EndsOK
  <2>6. {s.source, s.target} \cap NamesLeft' = {} => Resolve(s.source)' # Resolve(s.target)'
      BY <2>2, <2>5 DEF EndsApart
  <2> QED BY <1>2, <2>1, <2>4, <2>5, <2>6 DEF EndsApart
<1>10. EndsLoad'
  <2> SUFFICES ASSUME WriteOutcomes = {"ok"}, NEW i \in DOMAIN file'.rels
               PROVE  (EndLoads(file.rels[i].source) /\ EndLoads(file.rels[i].target))'
      BY DEF EndsLoad
  <2>1. Creating
      BY DEF CreateNextObject
  <2>2. objects' = [objects EXCEPT ![o] = spec.content] /\ spec.content \in Contents /\ objects[o] = Absent
      BY <1>1, <1>6 DEF ObjectCreate, Written, SuccessfulWrites, ObjectSpecs
  <2>3. objects \in [ObjectIds -> ObjectFiles]
      BY DEF TypeOK, StoresTypeOK
  <2>4. ASSUME NEW end, EndKnown(end), EndLoads(end) PROVE EndLoads(end)'
    <3>1. CASE end \in NamesLeft
      <4>1. end \in NamesLeft' \/ (end = spec.ref /\ end \in Refs)
          BY <1>4, <3>1 DEF NamesLeft
      <4> QED BY <1>5, <2>2, <2>3, <4>1 DEF EndLoads, ObjectLoads
    <3>2. CASE end \notin NamesLeft
      <4>1. Resolve(end) \in ObjectIds /\ objects[Resolve(end)] \in Contents /\ Resolve(end)' = Resolve(end)
          BY <1>5, <1>7, <2>4, <3>2 DEF EndKnown, EndLoads, ObjectLoads
      <4> QED BY <2>2, <2>3, <4>1 DEF EndLoads, ObjectLoads
    <3> QED BY <3>1, <3>2
  <2>5. PICK s \in RelSpecs : s = file.rels[i] /\ s = file'.rels[i] /\ i \in DOMAIN file.rels
      BY <1>8
  <2>6. EndKnown(s.source) /\ EndKnown(s.target) /\ EndLoads(s.source) /\ EndLoads(s.target)
      BY <2>1, <2>5 DEF FileInv, EndsOK, EndsLoad
  <2> QED BY <1>2, <2>4, <2>5, <2>6
<1>11. DeletesFind'
    BY <1>2 DEF DeletesFind, Deleting
<1> QED BY <1>3, <1>9, <1>10, <1>11 DEF FileInv

LEMMA CreateRelFile ==
    ASSUME FileInv, NEW r \in RelIds, NEW out \in SuccessfulWrites, CreateNextRel(r, out)
    PROVE  FileInv'
<1>1. /\ file.kind = "create" /\ file.objects \in Seq(ObjectSpecs) /\ file.rels \in Seq(RelSpecs)
      /\ file.rels # <<>> /\ file \in FileRecords /\ Creating
    BY DEF FileInv, FileTypeOK, CreateNextRel, Creating
<1>2. /\ file' = [file EXCEPT !.rels = Tail(file.rels), !.done = file.done + 1]
      /\ issued \subseteq issued' /\ objects' = objects
    BY DEF CreateNextRel, RelCreate
<1>3. /\ file'.kind = "create" /\ file'.objects = file.objects /\ file'.rels = Tail(file.rels)
      /\ file'.resolved = file.resolved
    BY <1>1, <1>2 DEF FileRecords
<1>4. FileTypeOK'
  <2>1. Tail(file.rels) \in Seq(RelSpecs)
      BY <1>1
  <2>2. file' \in FileRecords
    <3>1. file.done + 1 \in Nat
        BY <1>1 DEF FileRecords
    <3>2. Tail(file.rels) \in Seq(RelSpecs) \cup Seq(RelIds)
        BY <2>1
    <3>3. [file EXCEPT !.rels = Tail(file.rels), !.done = file.done + 1] \in FileRecords
        BY <1>1, <3>1, <3>2 DEF FileRecords
    <3> QED BY <1>2, <3>3
  <2> QED BY <1>1, <1>3, <2>1, <2>2 DEF FileTypeOK
<1>5. NamesLeft' = NamesLeft /\ \A end : Resolve(end)' = Resolve(end)
    BY <1>3 DEF NamesLeft, Resolve
<1>6. \A spec \in RelSpecs :
         /\ EndKnown(spec.source) /\ EndKnown(spec.target) /\ EndsApart(spec)
            => EndKnown(spec.source)' /\ EndKnown(spec.target)' /\ EndsApart(spec)'
         /\ EndLoads(spec.source) /\ EndLoads(spec.target)
            => EndLoads(spec.source)' /\ EndLoads(spec.target)'
    BY <1>2, <1>5 DEF EndKnown, EndsApart, EndLoads, ObjectLoads
<1>7. ASSUME NEW i \in DOMAIN file'.rels
      PROVE  \E j \in DOMAIN file.rels : file.rels[j] \in RelSpecs /\ file.rels[j] = file'.rels[i]
    BY <1>1, <1>3, TailFacts
<1>8. EndsOK'
  <2> SUFFICES ASSUME NEW i \in DOMAIN file'.rels
               PROVE  (/\ EndKnown(file.rels[i].source) /\ EndKnown(file.rels[i].target)
                       /\ file.rels[i].source # file.rels[i].target
                       /\ EndsApart(file.rels[i]))'
      BY DEF EndsOK
  <2>1. PICK spec \in RelSpecs, j \in DOMAIN file.rels : file.rels[j] = spec /\ file'.rels[i] = spec
      BY <1>7
  <2>2. EndKnown(spec.source) /\ EndKnown(spec.target) /\ spec.source # spec.target /\ EndsApart(spec)
      BY <1>1, <2>1 DEF FileInv, EndsOK
  <2>3. spec \in RelSpecs
      BY <1>1, <2>1, ElementOfSeq
  <2> QED BY <1>6, <2>1, <2>2, <2>3
<1>9. EndsLoad'
  <2> SUFFICES ASSUME WriteOutcomes = {"ok"}, NEW i \in DOMAIN file'.rels
               PROVE  (EndLoads(file.rels[i].source) /\ EndLoads(file.rels[i].target))'
      BY DEF EndsLoad
  <2>1. PICK j \in DOMAIN file.rels : file.rels[j] \in RelSpecs /\ file.rels[j] = file'.rels[i]
      BY <1>7
  <2>2. EndLoads(file.rels[j].source) /\ EndLoads(file.rels[j].target)
      BY <1>1, <2>1 DEF FileInv, EndsLoad
  <2>3. PICK spec \in RelSpecs : spec = file.rels[j]
      BY <2>1
  <2> QED BY <1>6, <2>1, <2>2, <2>3
<1>10. DeletesFind'
    BY <1>3 DEF DeletesFind, Deleting
<1> QED BY <1>4, <1>8, <1>9, <1>10 DEF FileInv

\* What a file that names each id once still names is not what was just deleted.
LEMMA DistinctTail ==
    ASSUME NEW S, NEW s \in Seq(S), s # <<>>, Distinct(s)
    PROVE  Distinct(Tail(s)) /\ \A i \in DOMAIN Tail(s) : Tail(s)[i] # Head(s)
<1>1. /\ Head(s) = s[1] /\ 1 \in DOMAIN s
      /\ \A i \in DOMAIN Tail(s) : i + 1 \in DOMAIN s /\ i + 1 # 1 /\ Tail(s)[i] = s[i + 1]
    BY TailFacts
<1>2. \A i \in DOMAIN Tail(s) : i \in Nat
    OBVIOUS
<1>3. Distinct(Tail(s))
  <2> SUFFICES ASSUME NEW i \in DOMAIN Tail(s), NEW j \in DOMAIN Tail(s), Tail(s)[i] = Tail(s)[j]
               PROVE  i = j
      BY DEF Distinct
  <2>1. i + 1 = j + 1
      BY <1>1 DEF Distinct
  <2> QED BY <1>2, <2>1
<1>4. \A i \in DOMAIN Tail(s) : Tail(s)[i] # Head(s)
    BY <1>1 DEF Distinct
<1> QED BY <1>3, <1>4

LEMMA DeleteRelFile ==
    ASSUME TypeOK, FileInv, DeleteNextRel
    PROVE  FileInv'
<1>1. /\ file.kind = "delete" /\ file.objects \in Seq(ObjectIds) /\ file.rels \in Seq(RelIds)
      /\ file.rels # <<>> /\ file \in FileRecords /\ Deleting
    BY DEF FileInv, FileTypeOK, DeleteNextRel, Deleting
<1>2. file' = [file EXCEPT !.rels = Tail(file.rels), !.done = file.done + 1]
    BY DEF DeleteNextRel
<1>3. /\ file'.kind = "delete" /\ file'.objects = file.objects /\ file'.rels = Tail(file.rels)
      /\ file'.unique = file.unique
    BY <1>1, <1>2 DEF FileRecords
<1>4. FileTypeOK'
  <2>1. Tail(file.rels) \in Seq(RelIds)
      BY <1>1
  <2>2. file' \in FileRecords
    <3>1. file.done + 1 \in Nat
        BY <1>1 DEF FileRecords
    <3>2. Tail(file.rels) \in Seq(RelSpecs) \cup Seq(RelIds)
        BY <2>1
    <3>3. [file EXCEPT !.rels = Tail(file.rels), !.done = file.done + 1] \in FileRecords
        BY <1>1, <3>1, <3>2 DEF FileRecords
    <3> QED BY <1>2, <3>3
  <2> QED BY <1>1, <1>3, <2>1, <2>2 DEF FileTypeOK
<1>5. EndsOK' /\ EndsLoad'
    BY <1>3 DEF EndsOK, EndsLoad, Creating
<1>6. DeletesFind'
  <2> SUFFICES ASSUME file'.unique
               PROVE  /\ Distinct(file'.objects) /\ Distinct(file'.rels)
                      /\ \A i \in DOMAIN file'.objects : objects'[file'.objects[i]] # Absent
                      /\ \A i \in DOMAIN file'.rels : rels'[file'.rels[i]] # Absent
      BY DEF DeletesFind
  <2>1. /\ Distinct(file.objects) /\ Distinct(file.rels)
        /\ \A i \in DOMAIN file.objects : objects[file.objects[i]] # Absent
        /\ \A i \in DOMAIN file.rels : rels[file.rels[i]] # Absent
      BY <1>1, <1>3 DEF FileInv, DeletesFind
  <2>2. objects' = objects /\ rels' = [rels EXCEPT ![Head(file.rels)] = Absent]
      BY DEF DeleteNextRel, RelRemove
  <2>3. Distinct(Tail(file.rels)) /\ \A i \in DOMAIN Tail(file.rels) : Tail(file.rels)[i] # Head(file.rels)
      BY <1>1, <2>1, DistinctTail
  <2>4. ASSUME NEW i \in DOMAIN Tail(file.rels)
        PROVE  Tail(file.rels)[i] \in RelIds /\ rels[Tail(file.rels)[i]] # Absent
      BY <1>1, <2>1, TailFacts
  <2>5. \A i \in DOMAIN Tail(file.rels) : rels'[Tail(file.rels)[i]] # Absent
      BY <2>2, <2>3, <2>4 DEF TypeOK, StoresTypeOK
  <2> QED BY <1>3, <2>1, <2>2, <2>3, <2>5
<1> QED BY <1>4, <1>5, <1>6 DEF FileInv

LEMMA DeleteObjectFile ==
    ASSUME TypeOK, FileInv, DeleteNextObject
    PROVE  FileInv'
<1>1. /\ file.kind = "delete" /\ file.objects \in Seq(ObjectIds) /\ file.rels \in Seq(RelIds)
      /\ file.objects # <<>> /\ file.rels = <<>> /\ file \in FileRecords /\ Deleting
    BY DEF FileInv, FileTypeOK, DeleteNextObject, Deleting
<1>2. file' = [file EXCEPT !.objects = Tail(file.objects), !.done = file.done + 1]
    BY DEF DeleteNextObject
<1>3. /\ file'.kind = "delete" /\ file'.objects = Tail(file.objects) /\ file'.rels = <<>>
      /\ file'.unique = file.unique
    BY <1>1, <1>2 DEF FileRecords
<1>4. FileTypeOK'
  <2>1. Tail(file.objects) \in Seq(ObjectIds)
      BY <1>1
  <2>2. file' \in FileRecords
    <3>1. file.done + 1 \in Nat
        BY <1>1 DEF FileRecords
    <3>2. Tail(file.objects) \in Seq(ObjectSpecs) \cup Seq(ObjectIds)
        BY <2>1
    <3>3. [file EXCEPT !.objects = Tail(file.objects), !.done = file.done + 1] \in FileRecords
        BY <1>1, <3>1, <3>2 DEF FileRecords
    <3> QED BY <1>2, <3>3
  <2> QED BY <1>1, <1>3, <2>1, <2>2 DEF FileTypeOK
<1>5. EndsOK' /\ EndsLoad'
    BY <1>3 DEF EndsOK, EndsLoad, Creating
<1>6. DeletesFind'
  <2> SUFFICES ASSUME file'.unique
               PROVE  /\ Distinct(file'.objects) /\ Distinct(file'.rels)
                      /\ \A i \in DOMAIN file'.objects : objects'[file'.objects[i]] # Absent
                      /\ \A i \in DOMAIN file'.rels : rels'[file'.rels[i]] # Absent
      BY DEF DeletesFind
  <2>1. /\ Distinct(file.objects) /\ Distinct(file.rels)
        /\ \A i \in DOMAIN file.objects : objects[file.objects[i]] # Absent
      BY <1>1, <1>3 DEF FileInv, DeletesFind
  <2>2. objects' = [objects EXCEPT ![Head(file.objects)] = Absent]
      BY DEF DeleteNextObject, ObjectRemove
  <2>3. /\ Distinct(Tail(file.objects))
        /\ \A i \in DOMAIN Tail(file.objects) : Tail(file.objects)[i] # Head(file.objects)
      BY <1>1, <2>1, DistinctTail
  <2>4. ASSUME NEW i \in DOMAIN Tail(file.objects)
        PROVE  Tail(file.objects)[i] \in ObjectIds /\ objects[Tail(file.objects)[i]] # Absent
      BY <1>1, <2>1, TailFacts
  <2>5. \A i \in DOMAIN Tail(file.objects) : objects'[Tail(file.objects)[i]] # Absent
      BY <2>2, <2>3, <2>4 DEF TypeOK, StoresTypeOK
  <2>6. \A i \in DOMAIN file'.rels : FALSE
      BY <1>3
  <2> QED BY <1>1, <1>3, <2>1, <2>3, <2>5, <2>6
<1> QED BY <1>4, <1>5, <1>6 DEF FileInv

LEMMA StartFileType ==
    ASSUME NEW req, NEW kind,
           \/ kind = "create" /\ req \in CreateRequests
           \/ kind = "delete" /\ req \in DeleteRequests,
           StartFile(kind, req)
    PROVE  /\ FileTypeOK'
           /\ pc' = "file" /\ file'.kind = kind /\ file'.objects = req.objects /\ file'.rels = req.rels
           /\ file'.resolved = NoFile.resolved
           /\ file'.unique <=> Distinct(req.objects) /\ Distinct(req.rels)
<1>1. PICK u \in BOOLEAN : u = (Distinct(req.objects) /\ Distinct(req.rels))
    BY Zenon DEF Distinct
<1>2. file' = [NoFile EXCEPT !.kind = kind, !.objects = req.objects, !.rels = req.rels, !.unique = u]
    BY <1>1 DEF StartFile
<1>3. file' = [kind |-> kind, objects |-> req.objects, rels |-> req.rels, done |-> 0, unique |-> u,
               resolved |-> [a \in Refs |-> Absent]]
    BY <1>2 DEF NoFile
<1>4. /\ pc' = "file" /\ file'.kind = kind /\ file'.objects = req.objects /\ file'.rels = req.rels
      /\ file'.resolved = NoFile.resolved /\ file'.unique = u
  <2>1. pc' = "file"
      BY DEF StartFile
  <2>2. file'.kind = kind /\ file'.objects = req.objects /\ file'.rels = req.rels
      BY <1>3
  <2>3. file'.resolved = NoFile.resolved
      BY <1>3 DEF NoFile
  <2>4. file'.unique = u
      BY <1>3, Zenon
  <2> QED BY <2>1, <2>2, <2>3, <2>4
<1>5. FileTypeOK'
  <2>1. req.objects \in Seq(ObjectSpecs) \cup Seq(ObjectIds) /\ req.rels \in Seq(RelSpecs) \cup Seq(RelIds)
      BY RequestTypes
  <2>2. [a \in Refs |-> Absent] \in [Refs -> ObjectIds \cup {Absent}]
      OBVIOUS
  <2>3. kind \in {"none", "create", "delete"} /\ 0 \in Nat
      OBVIOUS
  <2>4. file' \in FileRecords
      BY <1>1, <1>3, <2>1, <2>2, <2>3 DEF FileRecords
  <2> QED BY <1>4, <2>4, RequestTypes DEF FileTypeOK
<1> QED BY <1>1, <1>4, <1>5

LEMMA StartCreateFile ==
    ASSUME TypeOK, FilesIssued, NEW req \in CreateRequests, StartCreate(req)
    PROVE  FileInv'
<1>1. /\ FileTypeOK'
      /\ pc' = "file" /\ file'.kind = "create" /\ file'.objects = req.objects /\ file'.rels = req.rels
    BY StartFileType DEF StartCreate
<1>2. UNCHANGED <<objects, issued>>
    BY DEF StartCreate, StartFile, storeVars
<1>3. req.objects \in Seq(ObjectSpecs) /\ req.rels \in Seq(RelSpecs)
    BY RequestTypes
<1>4. KnownRefs(req) \subseteq NamesLeft'
  <2> SUFFICES ASSUME NEW i \in DOMAIN req.objects, req.objects[i].ref # NoRef
               PROVE  req.objects[i].ref \in NamesLeft'
      BY DEF KnownRefs
  <2>1. req.objects[i] \in ObjectSpecs
      BY <1>3
  <2> QED BY <1>1, <2>1 DEF NamesLeft, ObjectSpecs
<1>5. ASSUME NEW end, end \in KnownRefs(req) \/ (end \in ObjectIds /\ ObjectLoads(end))
      PROVE  EndKnown(end)' /\ EndLoads(end)' /\ (end \notin NamesLeft' => Resolve(end)' = end)
  <2>1. CASE end \in NamesLeft'
      BY <2>1 DEF EndKnown, EndLoads, NamesLeft
  <2>2. CASE end \notin NamesLeft'
    <3>1. end \in ObjectIds /\ ObjectLoads(end) /\ end \notin Refs
        BY <1>4, <1>5, <2>2
    <3>2. end \in issued
      <4>1. end \in Entities /\ File(end) # Absent
          BY <3>1 DEF Entities, File, ObjectLoads
      <4> QED BY <4>1 DEF FilesIssued
    <3>3. Resolve(end)' = end
        BY <3>1 DEF Resolve
    <3> QED BY <1>2, <3>1, <3>2, <3>3 DEF EndKnown, EndLoads, ObjectLoads
  <2> QED BY <2>1, <2>2
<1>6. ASSUME NEW i \in DOMAIN req.rels
      PROVE  /\ EndKnown(req.rels[i].source)' /\ EndKnown(req.rels[i].target)'
             /\ EndLoads(req.rels[i].source)' /\ EndLoads(req.rels[i].target)'
             /\ req.rels[i].source # req.rels[i].target
             /\ EndsApart(req.rels[i])'
  <2>1. PICK spec \in RelSpecs : spec = req.rels[i]
      BY <1>3
  <2>2. /\ \A end \in {spec.source, spec.target} :
              end \in KnownRefs(req) \/ (end \in ObjectIds /\ ObjectLoads(end))
        /\ spec.source # spec.target
      BY <2>1 DEF StartCreate, ValidCreate
  <2>3. /\ spec.source \in KnownRefs(req) \/ (spec.source \in ObjectIds /\ ObjectLoads(spec.source))
        /\ spec.target \in KnownRefs(req) \/ (spec.target \in ObjectIds /\ ObjectLoads(spec.target))
      BY <2>2
  <2>4. /\ EndKnown(spec.source)' /\ EndKnown(spec.target)'
        /\ EndLoads(spec.source)' /\ EndLoads(spec.target)'
        /\ spec.source \notin NamesLeft' => Resolve(spec.source)' = spec.source
        /\ spec.target \notin NamesLeft' => Resolve(spec.target)' = spec.target
      BY <1>5, <2>3
  <2>5. EndsApart(spec)'
      BY <2>2, <2>4 DEF EndsApart
  <2> QED BY <2>1, <2>2, <2>4, <2>5
<1>7. EndsOK' /\ EndsLoad'
    BY <1>1, <1>6 DEF EndsOK, EndsLoad
<1>8. DeletesFind'
    BY <1>1 DEF DeletesFind, Deleting
<1> QED BY <1>1, <1>7, <1>8 DEF FileInv

LEMMA StartDeleteFile ==
    ASSUME TypeOK, NEW req \in DeleteRequests, StartDelete(req)
    PROVE  FileInv'
<1>1. /\ FileTypeOK'
      /\ pc' = "file" /\ file'.kind = "delete" /\ file'.objects = req.objects /\ file'.rels = req.rels
      /\ file'.unique <=> Distinct(req.objects) /\ Distinct(req.rels)
    BY StartFileType DEF StartDelete
<1>2. UNCHANGED <<objects, rels>>
    BY DEF StartDelete, StartFile, storeVars
<1>3. EndsOK' /\ EndsLoad'
    BY <1>1 DEF EndsOK, EndsLoad, Creating
<1>4. DeletesFind'
    BY <1>1, <1>2 DEF DeletesFind, StartDelete, ValidDelete, ObjectLoads, RelLoads, Distinct
<1> QED BY <1>1, <1>3, <1>4 DEF FileInv

LEMMA NoFileRecord == NoFile \in FileRecords /\ NoFile.kind = "none"
<1>1. /\ <<>> \in Seq(ObjectSpecs) \cup Seq(ObjectIds) /\ <<>> \in Seq(RelSpecs) \cup Seq(RelIds)
      /\ 0 \in Nat /\ TRUE \in BOOLEAN /\ "none" \in {"none", "create", "delete"}
      /\ [a \in Refs |-> Absent] \in [Refs -> ObjectIds \cup {Absent}]
    OBVIOUS
<1>2. NoFile \in FileRecords
    BY <1>1, Zenon DEF NoFile, FileRecords
<1> QED BY <1>2 DEF NoFile

LEMMA NoFileInv ==
    /\ file = NoFile => FileInv
    /\ file' = NoFile => FileInv'
BY NoFileRecord DEF FileInv, FileTypeOK, EndsOK, EndsLoad, DeletesFind, Creating, Deleting

LEMMA CreateObjectStore ==
    ASSUME FileInv, NEW o, NEW out, CreateNextObject(o, out)
    PROVE  /\ \E spec \in ObjectSpecs : ObjectCreate(o, spec.content, out)
           /\ Creating /\ o \notin issued /\ issued' = issued \cup {o} /\ ItemDone(o)
<1>1. Creating /\ file.objects # <<>> /\ issued' = issued \cup {o} /\ ItemDone(o)
    BY Zenon DEF CreateNextObject
<1>2. o \notin issued /\ ObjectCreate(o, Head(file.objects).content, out)
    BY Zenon DEF CreateNextObject
<1>3. Head(file.objects) \in ObjectSpecs
    BY <1>1, TailFacts DEF Creating, FileInv, FileTypeOK
<1> QED BY <1>1, <1>2, <1>3

LEMMA RemovalType ==
    ASSUME StoresTypeOK
    PROVE  /\ \A o \in ObjectIds : ObjectRemove(o) => StoresTypeOK'
           /\ \A r \in RelIds : RelRemove(r) => StoresTypeOK'
<1>1. ASSUME NEW id \in Entities, Owe(id, "Deleted") PROVE EventsTyped
    BY <1>1, EventType DEF Owe, EventsTyped, StoresTypeOK
<1>2. ASSUME NEW o \in ObjectIds, ObjectRemove(o) PROVE StoresTypeOK'
  <2>1. EventsTyped
      BY <1>1, <1>2 DEF ObjectRemove, Entities
  <2> QED BY <1>2, <2>1 DEF ObjectRemove, EventsTyped, StoresTypeOK, ObjectFiles
<1>3. ASSUME NEW r \in RelIds, RelRemove(r) PROVE StoresTypeOK'
  <2>1. EventsTyped
      BY <1>1, <1>3 DEF RelRemove, Entities
  <2> QED BY <1>3, <2>1 DEF RelRemove, EventsTyped, StoresTypeOK, RelFiles
<1> QED BY <1>2, <1>3

\* The store calls of the items.
LEMMA ItemTypes ==
    ASSUME TypeOK, FileInv,
           \/ \E o \in ObjectIds, out \in SuccessfulWrites : CreateNextObject(o, out)
           \/ \E r \in RelIds, out \in SuccessfulWrites : CreateNextRel(r, out)
           \/ DeleteNextRel
           \/ DeleteNextObject
    PROVE  TypeOK'
<1>s. StoresTypeOK
    BY DEF TypeOK
<1>1. StoresTypeOK' /\ issued' \subseteq Entities
  <2>1. ASSUME NEW o \in ObjectIds, NEW out \in SuccessfulWrites, CreateNextObject(o, out)
        PROVE  StoresTypeOK' /\ issued' \subseteq Entities
    <3>1. PICK spec \in ObjectSpecs : ObjectCreate(o, spec.content, out)
        BY <2>1, CreateObjectStore
    <3>2. spec.content \in Contents /\ issued' = issued \cup {o}
        BY <2>1, CreateObjectStore DEF ObjectSpecs
    <3> QED BY <1>s, <3>1, <3>2, ObjectCallsType DEF TypeOK, Entities
  <2>2. ASSUME NEW r \in RelIds, NEW out \in SuccessfulWrites, CreateNextRel(r, out)
        PROVE  StoresTypeOK' /\ issued' \subseteq Entities
    <3>1. PICK v \in Relationships : v = Resolved(Head(file.rels))
        BY <2>2, ResolvedFits DEF CreateNextRel
    <3>2. RelCreate(r, v, out) /\ v.note \in Contents
        BY <2>2, <3>1 DEF CreateNextRel, Relationships
    <3> QED BY <1>s, <2>2, <3>2, RelCallsType DEF CreateNextRel, TypeOK, Entities
  <2>3. CASE DeleteNextRel
    <3>1. PICK r \in RelIds : r = Head(file.rels)
        BY <2>3, TailFacts DEF DeleteNextRel, Deleting, FileInv, FileTypeOK
    <3>2. RelRemove(r) /\ UNCHANGED issued
        BY <2>3, <3>1 DEF DeleteNextRel
    <3> QED BY <1>s, <3>2, RemovalType DEF TypeOK
  <2>4. CASE DeleteNextObject
    <3>1. PICK o \in ObjectIds : o = Head(file.objects)
        BY <2>4, TailFacts DEF DeleteNextObject, Deleting, FileInv, FileTypeOK
    <3>2. ObjectRemove(o) /\ UNCHANGED issued
        BY <2>4, <3>1 DEF DeleteNextObject
    <3> QED BY <1>s, <3>2, RemovalType DEF TypeOK
  <2> QED BY <2>1, <2>2, <2>3, <2>4
<1>2. UNCHANGED <<txVars, state, journal, pc, purpose, undoComplete, batch, reply>>
    BY CreateObjectStore DEF CreateNextRel, DeleteNextRel, DeleteNextObject, ItemDone
<1> QED BY <1>1, <1>2 DEF TypeOK, txVars

\* Each of them changes one file, of an id nobody had or that is gone afterwards.
OneFile(id) ==
    /\ id \in Entities
    /\ \A x \in Entities \ {id} : File(x)' = File(x)
    /\ File(id)' = Absent \/ id \notin issued
    /\ issued' = issued \cup {id}
    /\ active => outside' = outside \cup {id}
    /\ UNCHANGED <<txVars, undoComplete, pc>>
    /\ pc = "file"

LEMMA ItemFiles ==
    ASSUME TypeOK, FilesIssued, FileInv,
           \/ \E o \in ObjectIds, out \in SuccessfulWrites : CreateNextObject(o, out)
           \/ \E r \in RelIds, out \in SuccessfulWrites : CreateNextRel(r, out)
           \/ DeleteNextRel
           \/ DeleteNextObject
    PROVE  \E id : OneFile(id)
<1>s. objects \in [ObjectIds -> ObjectFiles] /\ rels \in [RelIds -> RelFiles]
    BY DEF TypeOK, StoresTypeOK
<1>1. ASSUME NEW o \in ObjectIds, NEW out \in SuccessfulWrites, CreateNextObject(o, out)
      PROVE  OneFile(o)
    BY <1>s, <1>1, CreateObjectStore DEF ObjectCreate, OneFile, ItemDone, Creating, File, Entities
<1>2. ASSUME NEW r \in RelIds, NEW out \in SuccessfulWrites, CreateNextRel(r, out)
      PROVE  OneFile(r)
    BY <1>s, <1>2 DEF CreateNextRel, RelCreate, OneFile, ItemDone, Creating, File, Entities
<1>3. ASSUME DeleteNextRel PROVE OneFile(Head(file.rels))
  <2>1. PICK r \in RelIds : r = Head(file.rels)
      BY <1>3, TailFacts DEF DeleteNextRel, Deleting, FileInv, FileTypeOK
  <2>2. r \in issued
    <3>1. r \in Entities /\ File(r) # Absent
        BY <1>3, <2>1 DEF DeleteNextRel, RelRemove, File, Entities
    <3> QED BY <3>1 DEF FilesIssued
  <2>3. OneFile(r)
      BY <1>s, <1>3, <2>1, <2>2 DEF DeleteNextRel, RelRemove, OneFile, ItemDone, Deleting, File, Entities
  <2> QED BY <2>1, <2>3
<1>4. ASSUME DeleteNextObject PROVE OneFile(Head(file.objects))
  <2>1. PICK o \in ObjectIds : o = Head(file.objects)
      BY <1>4, TailFacts DEF DeleteNextObject, Deleting, FileInv, FileTypeOK
  <2>2. o \in issued
    <3>1. o \in Entities /\ File(o) # Absent
        BY <1>4, <2>1 DEF DeleteNextObject, ObjectRemove, File, Entities
    <3> QED BY <3>1 DEF FilesIssued
  <2>3. OneFile(o)
      BY <1>s, <1>4, <2>1, <2>2 DEF DeleteNextObject, ObjectRemove, OneFile, ItemDone, Deleting, File, Entities
  <2> QED BY <2>1, <2>3
<1> QED BY <1>1, <1>2, <1>3, <1>4

\* Taking a file up and putting it down touches no store.
LEMMA QuietFile ==
    ASSUME InvBut(outside), "torn" \notin WriteOutcomes,
           pc' \in {"idle", "file"}, reply' \in {"none", "ok", "error"}, pc # "undo",
           UNCHANGED <<storeVars, txVars, state, journal, issued, purpose, undoComplete, batch, outside>>
    PROVE  InvBut(outside)'
<1>1. PICK O : O = outside
    OBVIOUS
<1>2. TypeOK'
    BY DEF InvBut, TypeOK, StoresTypeOK, storeVars, txVars
<1>3. InvBut(O)
    BY <1>1
<1>4. LogAndStoresBut(O)'
    BY <1>3, QuietStepBut DEF storeVars, txVars
<1>5. outside' = O /\ (log # <<>> => active)' /\ undoComplete'
    BY <1>1 DEF InvBut, txVars
<1> QED BY <1>2, <1>4, <1>5 DEF InvBut, LogAndStoresBut, UntouchedSameBut, FirstHoldsBaseBut

LEMMA FileInvKept ==
    ASSUME FileInv, UNCHANGED <<objects, rels, issued, pc, file>>
    PROVE  FileInv'
<1>1. (Creating' <=> Creating) /\ (Deleting' <=> Deleting) /\ file' = file
    BY DEF Creating, Deleting
<1>2. /\ \A end : EndKnown(end) => EndKnown(end)'
      /\ \A spec : EndsApart(spec) => EndsApart(spec)'
      /\ \A end : EndLoads(end) => EndLoads(end)'
    BY DEF EndKnown, EndsApart, EndLoads, NamesLeft, Resolve, ObjectLoads
<1>3. FileTypeOK'
    BY DEF FileInv, FileTypeOK
<1>4. EndsOK'
    BY <1>1, <1>2, Zenon DEF FileInv, EndsOK
<1>5. EndsLoad'
    BY <1>1, <1>2, Zenon DEF FileInv, EndsLoad
<1>6. DeletesFind'
    BY <1>1, Zenon DEF FileInv, DeletesFind
<1> QED BY <1>3, <1>4, <1>5, <1>6 DEF FileInv

LEMMA BatchFilesStep ==
    ASSUME "torn" \notin WriteOutcomes, BatchFilesInv, [BatchNext]_fvars
    PROVE  BatchFilesInv'
<1>t. TypeOK /\ FilesIssued /\ InvBut(outside) /\ Held /\ FileInv
    BY DEF BatchFilesInv, InvBut
<1>1. CASE (Settled /\ RuntimeStep) \/ (Crash /\ Forget)
  <2>1. (Settled \/ Crash) /\ (Lifecycle \/ Mutate \/ Transact \/ Continue \/ Crash)
      BY <1>1 DEF RuntimeStep
  <2>2. Forget /\ (pc # "file" \/ Crash) /\ file' = NoFile
      BY <1>1 DEF RuntimeStep, Forget
  <2>3. InvBut(outside)' /\ Held' /\ FileInv'
      BY <1>t, <2>1, <2>2, ForgottenStep, HeldStep, NoFileInv
  <2> QED BY <2>3 DEF BatchFilesInv
<1>2. ASSUME NEW kind, NEW req, StartFile(kind, req) PROVE InvBut(outside)' /\ Held'
    BY <1>t, <1>2, QuietFile DEF StartFile, Callable, Held
<1>3. ASSUME NEW req \in CreateRequests, StartCreate(req) PROVE BatchFilesInv'
    BY <1>t, <1>2, <1>3, StartCreateFile DEF StartCreate, BatchFilesInv
<1>4. ASSUME NEW req \in DeleteRequests, StartDelete(req) PROVE BatchFilesInv'
    BY <1>t, <1>2, <1>4, StartDeleteFile DEF StartDelete, BatchFilesInv
<1>5. CASE FinishFile \/ RefuseNext
  <2>1. PICK how \in {"ok", "error"} : EndFile(how) /\ pc = "file"
      BY <1>5 DEF FinishFile, RefuseNext
  <2>2. InvBut(outside)' /\ Held' /\ FileInv'
      BY <1>t, <2>1, QuietFile, NoFileInv DEF EndFile, Held
  <2> QED BY <2>2 DEF BatchFilesInv
<1>6. CASE \/ \E o \in ObjectIds, out \in SuccessfulWrites : CreateNextObject(o, out)
           \/ \E r \in RelIds, out \in SuccessfulWrites : CreateNextRel(r, out)
           \/ DeleteNextRel
           \/ DeleteNextObject
  <2>1. FileInv'
      BY <1>t, <1>6, CreateObjectFile, CreateRelFile, DeleteRelFile, DeleteObjectFile
  <2>2. PICK id : OneFile(id)
      BY <1>t, <1>6, ItemFiles
  <2>3. InvBut(outside)'
      BY <1>t, <1>6, <2>2, ItemTypes, ItemStep DEF OneFile, txVars
  <2>4. Held'
      BY <2>2 DEF OneFile, Held
  <2> QED BY <2>1, <2>3, <2>4 DEF BatchFilesInv
<1>7. CASE UNCHANGED fvars
  <2>1. UNCHANGED <<vars, file, outside>>
      BY <1>7 DEF fvars, fileVars
  <2>2. InvBut(outside)'
      BY <1>t, <2>1 DEF vars, storeVars, txVars, callVars, InvBut, TypeOK, StoresTypeOK, FilesIssued,
                        EndsFixed, SameEnds, UntouchedSameBut, FirstHoldsBaseBut, FirstFor, File, BaseFile
  <2>3. Held'
      BY <1>t, <2>1 DEF vars, txVars, callVars, Held
  <2>4. FileInv'
      BY <1>t, <2>1, FileInvKept DEF vars, storeVars, callVars
  <2> QED BY <2>2, <2>3, <2>4 DEF BatchFilesInv
<1>8. CASE Record /\ UNCHANGED fileVars
  <2>1. UNCHANGED <<objects, rels, issued, txVars, callVars, file, outside>>
      BY <1>8 DEF Record, RecordEvent, fileVars
  <2>2. TypeOK' /\ LogAndStoresBut(outside)'
      <3>1. PICK O : O = outside
          OBVIOUS
      <3>2. LogAndStoresBut(O)'
        <4>1. InvBut(O)
            BY <1>t, <3>1
        <4> QED BY <1>8, <4>1, OtherStepsBut
      <3>3. outside' = O
          BY <2>1, <3>1
      <3> QED BY <1>t, <1>8, <3>2, <3>3, RecordType
                 DEF LogAndStoresBut, UntouchedSameBut, FirstHoldsBaseBut
  <2>3. InvBut(outside)'
      BY <1>t, <2>1, <2>2 DEF InvBut, LogAndStoresBut, txVars, callVars
  <2>4. Held'
      BY <1>t, <2>1 DEF txVars, callVars, Held
  <2>5. FileInv'
      BY <1>t, <2>1, FileInvKept DEF callVars
  <2> QED BY <2>3, <2>4, <2>5 DEF BatchFilesInv
<1> QED BY <1>1, <1>3, <1>4, <1>5, <1>6, <1>7, <1>8 DEF BatchNext, FileStep

LEMMA BatchFilesInit == BatchInit => BatchFilesInv
BY RollbackInvInit, InvButNothing, NoFileInv DEF BatchInit, BatchFilesInv, Held, Init

\* On a disk that works the invariant of the items alone leaves nothing to refuse.
LEMMA NothingRefused ==
    ASSUME BatchFilesInv
    PROVE  ValidationHolds
<1> SUFFICES ASSUME WriteOutcomes = {"ok"}, Creating \/ file.unique, NextRefused PROVE FALSE
    BY DEF ValidationHolds
<1>1. FileInv
    BY DEF BatchFilesInv
<1>2. ASSUME Creating, file.objects = <<>>, file.rels # <<>>, ~EndpointsLoad(Resolved(Head(file.rels)))
      PROVE  FALSE
  <2>1. file.rels \in Seq(RelSpecs) /\ NamesLeft = {}
      BY <1>1, <1>2 DEF FileInv, FileTypeOK, Creating, NamesLeft
  <2>2. PICK spec \in RelSpecs : spec = Head(file.rels) /\ spec = file.rels[1] /\ 1 \in DOMAIN file.rels
      BY <1>2, <2>1, TailFacts
  <2>3. EndLoads(spec.source) /\ EndLoads(spec.target)
      BY <1>1, <1>2, <2>2 DEF FileInv, EndsLoad
  <2> QED BY <1>2, <2>1, <2>2, <2>3 DEF EndLoads, EndpointsLoad, Resolved
<1>3. ASSUME Deleting, file.rels # <<>>, rels[Head(file.rels)] = Absent PROVE FALSE
  <2>1. file.rels \in Seq(RelIds) /\ file.unique
      BY <1>1, <1>3 DEF FileInv, FileTypeOK, Deleting, Creating
  <2>2. Head(file.rels) = file.rels[1] /\ 1 \in DOMAIN file.rels
      BY <1>3, <2>1, TailFacts
  <2> QED BY <1>1, <1>3, <2>1, <2>2 DEF FileInv, DeletesFind
<1>4. ASSUME Deleting, file.objects # <<>>, objects[Head(file.objects)] = Absent PROVE FALSE
  <2>1. file.objects \in Seq(ObjectIds) /\ file.unique
      BY <1>1, <1>4 DEF FileInv, FileTypeOK, Deleting, Creating
  <2>2. Head(file.objects) = file.objects[1] /\ 1 \in DOMAIN file.objects
      BY <1>4, <2>1, TailFacts
  <2> QED BY <1>1, <1>4, <2>1, <2>2 DEF FileInv, DeletesFind
<1> QED BY <1>2, <1>3, <1>4 DEF NextRefused

\* A batch file that was found valid is executed to its end, whatever transaction is
\* open around it: no item meets a missing end point, and none of a delete file that
\* names each id once finds its entity gone (BatchProcessor, two passes over the file).
THEOREM ValidFilesRun == BatchSpec => []ValidationHolds
<1>1. ASSUME WriteOutcomes = {"ok"} PROVE BatchSpec => []ValidationHolds
  <2>1. "torn" \notin WriteOutcomes
      BY <1>1
  <2>2. BatchFilesInv /\ [BatchNext]_fvars => BatchFilesInv'
      BY <2>1, BatchFilesStep
  <2>3. BatchFilesInv => ValidationHolds
      BY NothingRefused
  <2> QED BY <2>2, <2>3, BatchFilesInit, PTL DEF BatchSpec
<1>2. ASSUME WriteOutcomes # {"ok"} PROVE BatchSpec => []ValidationHolds
  <2>1. ValidationHolds
      BY <1>2 DEF ValidationHolds
  <2> QED BY <2>1, PTL
<1> QED BY <1>1, <1>2

\* Batch files run beside the transaction that is open and leave no undo entry, yet
\* they cannot make its rollback lie: when every undo has succeeded, whatever no such
\* file touched is as it was (rollback_transaction_internal, BatchProcessor).
THEOREM OnlyFilesEscapeRollback ==
    ASSUME "torn" \notin WriteOutcomes
    PROVE  BatchSpec => []RollbackSparesOnlyFiles
<1>1. BatchFilesInv /\ [BatchNext]_fvars => BatchFilesInv'
    BY BatchFilesStep
<1>2. BatchFilesInv => RollbackSparesOnlyFiles
    BY DEF BatchFilesInv, Held, InvBut, UntouchedSameBut, RollbackSparesOnlyFiles
<1> QED BY <1>1, <1>2, BatchFilesInit, PTL DEF BatchSpec
-----------------------------------------------------------------------------
(* What a validation reports.  Whatever happens between two validations is *)
(* at most one store call about one id.                                    *)

ObjectCall(o) ==
    \E c \in Contents, out \in WriteOutcomes :
        \/ ObjectCreate(o, c, out) /\ o \notin issued /\ issued' = issued \cup {o}
        \/ (ObjectUpdate(o, c, out) \/ ObjectRestore(o, c, out)) /\ o \in issued /\ issued' = issued
RelCall(r) ==
    \E v \in Relationships, note \in Contents, out \in WriteOutcomes :
        \/ RelCreate(r, v, out) /\ r \notin issued /\ issued' = issued \cup {r}
        \/ (RelUpdate(r, note, out) \/ RelRestore(r, v, out)) /\ r \in issued /\ issued' = issued
Removal(id) ==
    /\ id \in issued /\ issued' = issued
    /\ \/ id \in ObjectIds /\ ObjectRemove(id)
       \/ id \in RelIds /\ RelRemove(id)

Change ==
    \/ \E o \in ObjectIds : ObjectCall(o)
    \/ \E r \in RelIds : RelCall(r)
    \/ \E id : Removal(id)

StoreCall ==
    \/ UNCHANGED <<storeVars, issued>>
    \/ Settled /\ Change
    \/ (RecordEvent \/ LoseEvent) /\ issued' = issued

LEMMA FileIsIssued ==
    ASSUME FilesIssued
    PROVE  /\ \A o \in ObjectIds : objects[o] # Absent => o \in issued
           /\ \A r \in RelIds : rels[r] # Absent => r \in issued
<1>1. \A o \in ObjectIds : o \in Entities /\ File(o) = objects[o]
    BY DEF Entities, File
<1>2. \A r \in RelIds : r \in Entities /\ File(r) = rels[r]
    BY DEF Entities, File
<1> QED BY <1>1, <1>2 DEF FilesIssued

LEMMA MutateCalls ==
    ASSUME TypeOK, FilesIssued, Settled, Mutate
    PROVE  StoreCall
<1> USE DEF SuccessfulWrites
<1>1. ASSUME NEW o \in ObjectIds, NEW c \in Contents, NEW out \in SuccessfulWrites,
             CreateObject(o, c, out) \/ UpdateObject(o, c, out)
      PROVE  ObjectCall(o)
  <2>1. CASE CreateObject(o, c, out)
      BY <2>1 DEF CreateObject, ObjectCall
  <2>2. CASE UpdateObject(o, c, out)
    <3>1. o \in issued
        BY <2>2, FileIsIssued DEF UpdateObject, ObjectUpdate, ObjectLoads
    <3> QED BY <2>2, <3>1 DEF UpdateObject, ObjectCall
  <2> QED BY <1>1, <2>1, <2>2
<1>2. ASSUME NEW o \in ObjectIds, DeleteObject(o) PROVE Removal(o)
    BY <1>2, FileIsIssued DEF DeleteObject, ObjectRemove, Removal
<1>3. ASSUME NEW r \in RelIds, NEW v \in Relationships, NEW out \in SuccessfulWrites,
             CreateRelationship(r, v, out)
      PROVE  RelCall(r)
  <2>1. v.note \in Contents
      BY DEF Relationships
  <2> QED BY <1>3, <2>1 DEF CreateRelationship, RelCall
<1>4. ASSUME NEW r \in RelIds, NEW note \in Contents, NEW out \in SuccessfulWrites,
             UpdateRelationship(r, note, out)
      PROVE  RelCall(r)
  <2>1. r \in issued
      BY <1>4, FileIsIssued DEF UpdateRelationship, RelUpdate, RelLoads
  <2>2. rels[r] \in Relationships
      BY <1>4 DEF UpdateRelationship, RelUpdate, RelLoads
  <2> QED BY <1>4, <2>1, <2>2 DEF UpdateRelationship, RelCall
<1>5. ASSUME NEW r \in RelIds, DeleteRelationship(r) PROVE Removal(r)
    BY <1>5, FileIsIssued DEF DeleteRelationship, RelRemove, Removal
<1>6. CASE RefuseMutation
    BY <1>6 DEF RefuseMutation, StartRollback, StoreCall
<1> QED BY <1>1, <1>2, <1>3, <1>4, <1>5, <1>6 DEF Mutate, StoreCall, Change

LEMMA UndoCalls ==
    ASSUME TypeOK, FilesIssued, Settled, NEW out \in WriteOutcomes, UndoLast(out)
    PROVE  StoreCall
<1>1. PICK e \in LogEntries : e = LastEntry
    BY LastEntryType DEF UndoLast
<1>2. issued' = issued /\ (UndoEffect(e, out) \/ UNCHANGED storeVars)
    BY <1>1 DEF UndoLast
<1>3. e.id \in issued
  <2>1. Len(log) \in 1..Len(log)
      BY DEF UndoLast, TypeOK
  <2> QED BY <1>1, <2>1 DEF FilesIssued, LastEntry
<1>4. CASE UNCHANGED storeVars
    BY <1>2, <1>4 DEF StoreCall
<1>5. CASE UndoEffect(e, out) /\ e.kind \in {"ObjectCreated", "RelationshipCreated"}
  <2>1. \/ e.id \in ObjectIds /\ ObjectRemove(e.id)
        \/ e.id \in RelIds /\ RelRemove(e.id)
      BY <1>5 DEF UndoEffect, LogEntries, ObjectEntries, RelEntries
  <2> QED BY <1>2, <1>3, <2>1 DEF Removal, Change, StoreCall
<1>6. CASE UndoEffect(e, out) /\ e.kind \in {"ObjectUpdated", "ObjectDeleted"}
  <2>1. e.id \in ObjectIds /\ e.before \in Contents
      BY <1>6 DEF LogEntries, ObjectEntries, RelEntries
  <2>2. ObjectUpdate(e.id, e.before, out) \/ ObjectRestore(e.id, e.before, out)
      BY <1>6 DEF UndoEffect
  <2> QED BY <1>2, <1>3, <2>1, <2>2 DEF ObjectCall, Change, StoreCall
<1>7. CASE UndoEffect(e, out) /\ e.kind \in {"RelationshipUpdated", "RelationshipDeleted"}
  <2>1. e.id \in RelIds /\ e.before \in Relationships /\ e.before.note \in Contents
      BY <1>7 DEF LogEntries, ObjectEntries, RelEntries, Relationships
  <2>2. RelUpdate(e.id, e.before.note, out) \/ RelRestore(e.id, e.before, out)
      BY <1>7 DEF UndoEffect
  <2> QED BY <1>2, <1>3, <2>1, <2>2 DEF RelCall, Change, StoreCall
<1> QED BY <1>2, <1>4, <1>5, <1>6, <1>7 DEF UndoEffect

LEMMA BatchNextCalls ==
    ASSUME BatchFilesInv, BatchNext
    PROVE  StoreCall
<1>t. TypeOK /\ FilesIssued /\ FileInv
    BY DEF BatchFilesInv, InvBut
<1>1. CASE (Settled /\ RuntimeStep) \/ Crash \/ Record
  <2>1. CASE Lifecycle \/ Transact
      BY <2>1 DEF Lifecycle, Initialize, OpenRepository, CloseRepository, Shutdown, NewHandle, Leave,
                  Transact, BeginTransaction, CommitTransaction, RollbackTransaction, StartBatch,
                  StartRollback, StoreCall
  <2>2. CASE Settled /\ Continue
      BY <1>t, <2>2, UndoCalls
         DEF Continue, CommitImplicit, FinishRollback, FinishBatch, StoreCall
  <2>3. CASE Crash \/ Record
      BY <2>3 DEF Crash, Record, StoreCall
  <2> QED BY <1>t, <1>1, <2>1, <2>2, <2>3, MutateCalls DEF RuntimeStep
<1>2. ASSUME NEW kind, NEW req, StartFile(kind, req) PROVE StoreCall
    BY <1>2 DEF StartFile, StoreCall
<1>3. ASSUME NEW how, EndFile(how) PROVE StoreCall
    BY <1>3 DEF EndFile, StoreCall
<1>4. ASSUME Settled, NEW o \in ObjectIds, NEW out \in SuccessfulWrites, CreateNextObject(o, out)
      PROVE  StoreCall
  <2>1. PICK spec \in ObjectSpecs : ObjectCreate(o, spec.content, out)
      BY <1>t, <1>4, CreateObjectStore
  <2>2. o \notin issued /\ issued' = issued \cup {o} /\ spec.content \in Contents /\ out \in WriteOutcomes
      BY <1>t, <1>4, CreateObjectStore DEF ObjectSpecs, SuccessfulWrites
  <2> QED BY <1>4, <2>1, <2>2 DEF ObjectCall, Change, StoreCall
<1>5. ASSUME Settled, NEW r \in RelIds, NEW out \in SuccessfulWrites, CreateNextRel(r, out)
      PROVE  StoreCall
  <2>1. PICK v \in Relationships : v = Resolved(Head(file.rels))
      BY <1>t, <1>5, ResolvedFits DEF CreateNextRel
  <2>2. RelCreate(r, v, out) /\ r \notin issued /\ issued' = issued \cup {r}
      BY <1>5, <2>1 DEF CreateNextRel
  <2>3. v.note \in Contents /\ out \in WriteOutcomes
      BY DEF Relationships, SuccessfulWrites
  <2> QED BY <1>5, <2>2, <2>3 DEF RelCall, Change, StoreCall
<1>6. CASE Settled /\ DeleteNextRel
  <2>1. PICK r \in RelIds : r = Head(file.rels)
      BY <1>t, <1>6, TailFacts DEF DeleteNextRel, Deleting, FileInv, FileTypeOK
  <2>2. RelRemove(r) /\ issued' = issued
      BY <1>6, <2>1 DEF DeleteNextRel
  <2>3. r \in issued
      BY <1>t, <2>2, FileIsIssued DEF RelRemove
  <2> QED BY <1>6, <2>2, <2>3 DEF Removal, Change, StoreCall
<1>7. CASE Settled /\ DeleteNextObject
  <2>1. PICK o \in ObjectIds : o = Head(file.objects)
      BY <1>t, <1>7, TailFacts DEF DeleteNextObject, Deleting, FileInv, FileTypeOK
  <2>2. ObjectRemove(o) /\ issued' = issued
      BY <1>7, <2>1 DEF DeleteNextObject
  <2>3. o \in issued
      BY <1>t, <2>2, FileIsIssued DEF ObjectRemove
  <2> QED BY <1>7, <2>2, <2>3 DEF Removal, Change, StoreCall
<1> QED BY <1>1, <1>2, <1>3, <1>4, <1>5, <1>6, <1>7
        DEF BatchNext, FileStep, StartCreate, StartDelete, FinishFile, RefuseNext

LEMMA CallTearsNothing ==
    ASSUME "torn" \notin WriteOutcomes, TypeOK, NothingTorn, StoreCall
    PROVE  NothingTorn'
<1>1. objects \in [ObjectIds -> ObjectFiles] /\ rels \in [RelIds -> RelFiles]
    BY DEF TypeOK, StoresTypeOK
<1>2. ASSUME NEW o \in ObjectIds, ObjectCall(o) PROVE NothingTorn'
  <2>1. PICK c \in Contents : objects' = [objects EXCEPT ![o] = c] /\ rels' = rels
      BY <1>2, WholeValues DEF ObjectCall, ObjectCreate, ObjectUpdate, ObjectRestore
  <2> QED BY <1>1, <2>1, WholeValues DEF NothingTorn
<1>3. ASSUME NEW r \in RelIds, RelCall(r) PROVE NothingTorn'
  <2>1. PICK v \in Relationships, note \in Contents, out \in WriteOutcomes :
           RelCreate(r, v, out) \/ RelUpdate(r, note, out) \/ RelRestore(r, v, out)
      BY <1>3 DEF RelCall
  <2>2. CASE RelCreate(r, v, out) \/ RelRestore(r, v, out)
    <3>1. rels' = [rels EXCEPT ![r] = v] /\ objects' = objects
        BY <2>2, WholeValues DEF RelCreate, RelRestore
    <3> QED BY <1>1, <3>1, WholeValues DEF NothingTorn
  <2>3. CASE RelUpdate(r, note, out)
    <3>1. PICK w \in Relationships : w = [rels[r] EXCEPT !.note = note]
        BY <2>3 DEF RelUpdate, RelLoads, Relationships
    <3>2. rels' = [rels EXCEPT ![r] = w] /\ objects' = objects
        BY <2>3, <3>1, WholeValues DEF RelUpdate
    <3> QED BY <1>1, <3>2, WholeValues DEF NothingTorn
  <2> QED BY <2>1, <2>2, <2>3
<1>4. ASSUME NEW id, Removal(id) PROVE NothingTorn'
    BY <1>1, <1>4, WholeValues DEF Removal, ObjectRemove, RelRemove, NothingTorn
<1>5. CASE UNCHANGED <<objects, rels>>
    BY <1>5 DEF NothingTorn
<1> QED BY <1>2, <1>3, <1>4, <1>5 DEF StoreCall, Change, RecordEvent, LoseEvent, storeVars

LEMMA CallAudited ==
    ASSUME TypeOK, AuditInv, StoreCall
    PROVE  AuditInv'
<1>1. ASSUME Settled, NEW o \in ObjectIds, ObjectCall(o) PROVE AuditInv'
    BY <1>1, AuditedObjectCall DEF ObjectCall
<1>2. ASSUME Settled, NEW r \in RelIds, RelCall(r) PROVE AuditInv'
    BY <1>2, AuditedRelCall DEF RelCall
<1>3. ASSUME Settled, NEW id, Removal(id) PROVE AuditInv'
    BY <1>3, AuditedRemoval DEF Removal
<1> QED BY <1>1, <1>2, <1>3, AuditKept, AuditedRecord, AuditedCrash DEF StoreCall, Change

\* The log of events says of each id what the audit store recorded last.
LEMMA CallRecorded ==
    ASSUME TypeOK, EventsKnown, StoreCall, EventsRecorded
    PROVE  EventsKnown'
<1>1. audit \in [Entities -> AuditEvents] /\ issued \subseteq issued'
    BY DEF TypeOK, StoresTypeOK, StoreCall, Change, ObjectCall, RelCall, Removal
<1>2. CASE Settled /\ Change
  <2>1. ASSUME NEW id, id \in issued', NEW what, Owe(id, what) \/ NoEvent
        PROVE  audit' = audit /\ \A e \in pending' : e.id \in issued'
      BY <1>2, <2>1 DEF Owe, NoEvent, Event, Settled
  <2>2. ASSUME NEW o \in ObjectIds, ObjectCall(o)
        PROVE  o \in issued' /\ (Owe(o, "Written") \/ NoEvent)
      BY <2>2 DEF ObjectCall, ObjectCreate, ObjectUpdate, ObjectRestore
  <2>3. ASSUME NEW r \in RelIds, RelCall(r)
        PROVE  r \in issued' /\ (Owe(r, "Written") \/ NoEvent)
      BY <2>3 DEF RelCall, RelCreate, RelUpdate, RelRestore
  <2>4. ASSUME NEW id, Removal(id) PROVE id \in issued' /\ Owe(id, "Deleted")
      BY <2>4 DEF Removal, ObjectRemove, RelRemove
  <2>5. audit' = audit /\ \A e \in pending' : e.id \in issued'
      BY <1>2, <2>1, <2>2, <2>3, <2>4 DEF Change
  <2>6. events' = events
      BY <2>5 DEF EventsRecorded
  <2> QED BY <1>1, <2>5, <2>6 DEF EventsKnown
<1>3. CASE UNCHANGED <<storeVars, issued>> \/ (LoseEvent /\ issued' = issued)
  <2>1. audit' = audit /\ pending' \subseteq pending
      BY <1>3 DEF LoseEvent, storeVars
  <2>2. events' = events
      BY <2>1 DEF EventsRecorded
  <2> QED BY <1>1, <2>1, <2>2 DEF EventsKnown
<1>4. CASE RecordEvent /\ issued' = issued
  <2>1. PICK e \in pending :
           pending' = pending \ {e} /\ (audit' = audit \/ audit' = [audit EXCEPT ![e.id] = e.event])
      BY <1>4 DEF RecordEvent
  <2>2. e.id \in issued
      BY DEF EventsKnown
  <2>3. ASSUME NEW x \in Entities, audit'[x] # audit[x] PROVE x \in issued
      BY <1>1, <2>1, <2>2, <2>3
  <2>4. \A f \in events' : f.id \in issued
      BY <2>3 DEF EventsKnown, EventsRecorded
  <2>5. ASSUME NEW id \in Entities, audit'[id] # "None"
        PROVE  [id |-> id, type |-> audit'[id]] \in events'
      BY <2>5 DEF EventsKnown, EventsRecorded
  <2>6. \A f \in pending' : f.id \in issued
      BY <2>1 DEF EventsKnown
  <2> QED BY <1>4, <2>4, <2>5, <2>6 DEF EventsKnown
<1> QED BY <1>2, <1>3, <1>4 DEF StoreCall

\* A relationship is only ever written between objects that are there.
LEMMA CallEnds ==
    ASSUME TypeOK, FilesIssued, EndsIssued, StoreCall
    PROVE  EndsIssued'
<1>1. rels \in [RelIds -> RelFiles] /\ issued \subseteq issued'
    BY DEF TypeOK, StoresTypeOK, StoreCall, Change, ObjectCall, RelCall, Removal
<1>2. rels' = rels => EndsIssued'
    BY <1>1 DEF EndsIssued, RelLoads
<1>3. ASSUME NEW r \in RelIds, RelCall(r) PROVE EndsIssued'
  <2>1. PICK v \in Relationships, note \in Contents, out \in WriteOutcomes :
           RelCreate(r, v, out) \/ RelUpdate(r, note, out) \/ RelRestore(r, v, out)
      BY <1>3 DEF RelCall
  <2>2. CASE RelCreate(r, v, out) \/ RelRestore(r, v, out)
    <3>1. v.src \in issued /\ v.dst \in issued
      <4>1. v.src \in ObjectIds /\ v.dst \in ObjectIds
          BY DEF Relationships
      <4> QED BY <2>2, <4>1, FileIsIssued DEF RelCreate, RelRestore, RelFits, EndpointsLoad, ObjectLoads
    <3>2. PICK w \in {v, Torn} : rels' = [rels EXCEPT ![r] = w]
        BY <2>2 DEF RelCreate, RelRestore, Written
    <3> QED BY <1>1, <3>1, <3>2 DEF EndsIssued, RelLoads
  <2>3. CASE RelUpdate(r, note, out)
    <3>1. PICK old \in Relationships : old = rels[r]
        BY <2>3 DEF RelUpdate, RelLoads
    <3>4. PICK new : new = [old EXCEPT !.note = note]
        OBVIOUS
    <3>5. new.src = old.src /\ new.dst = old.dst
        BY <3>4 DEF Relationships
    <3>6. PICK w : (w = Torn \/ w = new) /\ rels' = [rels EXCEPT ![r] = w]
        BY <2>3, <3>1, <3>4 DEF RelUpdate, Written
    <3>3. old.src \in issued /\ old.dst \in issued
        BY <3>1 DEF EndsIssued, RelLoads
    <3> QED BY <1>1, <3>3, <3>5, <3>6 DEF EndsIssued, RelLoads
  <2> QED BY <2>1, <2>2, <2>3
<1>4. ASSUME NEW id, Removal(id) PROVE EndsIssued'
  <2>1. rels' = rels \/ (id \in RelIds /\ rels' = [rels EXCEPT ![id] = Absent])
      BY <1>4 DEF Removal, ObjectRemove, RelRemove
  <2> QED BY <1>1, <1>2, <2>1 DEF EndsIssued, RelLoads
<1>5. ASSUME NEW o, ObjectCall(o) PROVE rels' = rels
    BY <1>5 DEF ObjectCall, ObjectCreate, ObjectUpdate, ObjectRestore
<1> QED BY <1>2, <1>3, <1>4, <1>5 DEF StoreCall, Change, RecordEvent, LoseEvent, storeVars

\* A transaction is opened over the stores as they are, and its base stays.
LEMMA OpenedOver ==
    ASSUME TypeOK, BatchNext
    PROVE  \/ tx' # tx /\ base' = Snapshot
           \/ tx' = tx /\ base' = base /\ (active' => active)
<1>1. OpenTransaction => tx' # tx /\ base' = Snapshot
    BY DEF OpenTransaction, TypeOK
<1>2. JoinOrOpen => OpenTransaction \/ UNCHANGED <<active, tx, base>>
    BY DEF JoinOrOpen
<1>3. CASE Lifecycle \/ Crash
    BY <1>3 DEF Lifecycle, Initialize, OpenRepository, CloseRepository, Shutdown, NewHandle, Leave, Crash,
                txVars
<1>4. CASE Mutate
    BY <1>1, <1>2, <1>4 DEF Mutate, CreateObject, UpdateObject, DeleteObject, CreateRelationship,
                            UpdateRelationship, DeleteRelationship, RefuseMutation, LogMutation
<1>5. CASE Transact
    BY <1>1, <1>2, <1>5 DEF Transact, BeginTransaction, CommitTransaction, RollbackTransaction, StartBatch
<1>6. CASE Continue
    BY <1>6 DEF Continue, CommitImplicit, FinishRollback, FinishBatch, UndoLast
<1>7. ASSUME NEW kind, NEW req, StartFile(kind, req) PROVE UNCHANGED txVars
    BY <1>7 DEF StartFile
<1>8. CASE FileStep
  <2>1. UNCHANGED txVars
      BY <1>8, Zenon DEF FileStep, CreateNextObject, CreateNextRel, DeleteNextRel, DeleteNextObject,
                  FinishFile, RefuseNext, EndFile, ItemDone
  <2> QED BY <2>1 DEF txVars
<1>9. CASE Record
    BY <1>9 DEF Record, txVars
<1> QED BY <1>3, <1>4, <1>5, <1>6, <1>7, <1>8, <1>9
        DEF BatchNext, RuntimeStep, StartCreate, StartDelete, txVars

LEMMA ErrorsAreOf == Errors = ErrorsOf(objects, rels, meta, strays)
<1>1. ASSUME NEW o \in ObjectIds PROVE File(o) = objects[o] /\ (Loads(o) <=> objects[o] \in Contents)
    BY DEF File, Loads, ObjectLoads
<1>2. ASSUME NEW r \in RelIds PROVE File(r) = rels[r] /\ (Loads(r) <=> rels[r] \in Relationships)
    BY DEF File, Loads, RelLoads
<1>3. TornFiles(ObjectIds) = {i \in ObjectIds : objects[i] = Torn}
    BY <1>1 DEF TornFiles
<1>4. TornFiles(RelIds) = {i \in RelIds : rels[i] = Torn}
    BY <1>2 DEF TornFiles
<1>5. {i \in ObjectIds \cap Copied : Loads(i)} = {i \in ObjectIds \cap Copied : objects[i] \in Contents}
    BY <1>1
<1>6. {i \in RelIds \cap Copied : Loads(i)} = {i \in RelIds \cap Copied : rels[i] \in Relationships}
    BY <1>2
<1>7. ListedRels = ListedIn(rels, strays)
    BY DEF ListedRels, ListedIn, RelLoads
<1>8. EndpointErrors =
         {Finding("source", e.id) : e \in {e \in ListedIn(rels, strays) : objects[e.value.src] \notin Contents}}
         \cup {Finding("target", e.id) : e \in {e \in ListedIn(rels, strays) : objects[e.value.dst] \notin Contents}}
    BY <1>7, Zenon DEF EndpointErrors, ObjectLoads
<1> QED BY <1>3, <1>4, <1>5, <1>6, <1>8
        DEF Errors, ErrorsOf, MetadataErrors, FileErrors, Copied

LEMMA ReportInvStep ==
    ASSUME "torn" \notin WriteOutcomes, ReportInv, [ValNext]_<<fvars, valVars>>
    PROVE  ReportInv'
<1>t. TypeOK /\ FilesIssued
    BY DEF ReportInv, BatchFilesInv, InvBut
<1>1. BatchFilesInv'
  <2>1. [BatchNext]_fvars
      BY DEF ValNext, WorkingStep, Tamper
  <2> QED BY <2>1, BatchFilesStep DEF ReportInv
<1>2. CASE WorkingStep
  <2>1. StoreCall
      BY <1>2, BatchNextCalls DEF WorkingStep, ReportInv
  <2>2. NothingTorn' /\ AuditInv' /\ EventsKnown' /\ EndsIssued'
      BY <1>t, <1>2, <2>1, CallTearsNothing, CallAudited, CallRecorded, CallEnds DEF WorkingStep, ReportInv
  <2>3. BeforeIsBase'
    <3> SUFFICES ASSUME active' PROVE before'.errors = ErrorsOf(base.objects, base.rels, meta, strays)'
        BY DEF BeforeIsBase
    <3>1. meta' = meta /\ strays' = strays /\ before' = IF tx' # tx THEN Findings ELSE before
        BY <1>2 DEF WorkingStep
    <3>2. CASE tx' # tx /\ base' = Snapshot
      <4>1. before'.errors = ErrorsOf(objects, rels, meta, strays)
          BY <3>1, <3>2, ErrorsAreOf DEF Findings
      <4>2. base'.objects = objects /\ base'.rels = rels
          BY <3>2 DEF Snapshot
      <4> QED BY <3>1, <4>1, <4>2
    <3>3. CASE tx' = tx /\ base' = base /\ (active' => active)
        BY <3>1, <3>3 DEF BeforeIsBase, ReportInv
    <3> QED BY <1>t, <1>2, <3>2, <3>3, OpenedOver DEF WorkingStep
  <2> QED BY <1>1, <2>2, <2>3 DEF ReportInv
<1>3. CASE Tamper \/ UNCHANGED <<fvars, valVars>>
  <2>1. UNCHANGED <<objects, rels, audit, pending, unaudited, issued, active, base, events, before>>
      BY <1>3 DEF Tamper, fvars, vars, storeVars, txVars, valVars
  <2>2. StoreCall
      BY <2>1 DEF StoreCall, storeVars
  <2>3. NothingTorn' /\ AuditInv' /\ EndsIssued'
      BY <1>t, <2>2, CallTearsNothing, CallAudited, CallEnds DEF ReportInv
  <2>4. EventsKnown'
      BY <2>1 DEF EventsKnown, ReportInv
  <2>5. ~active \/ UNCHANGED <<meta, strays>>
      BY <1>3 DEF Tamper, valVars
  <2>6. BeforeIsBase'
      BY <2>1, <2>5 DEF BeforeIsBase, ReportInv
  <2> QED BY <1>1, <2>3, <2>4, <2>6 DEF ReportInv
<1> QED BY <1>2, <1>3 DEF ValNext

LEMMA ReportInvInit == ValInit => ReportInv
<1> SUFFICES ASSUME ValInit PROVE ReportInv
    OBVIOUS
<1>1. BatchFilesInv /\ TypeOK
    BY BatchFilesInit DEF ValInit, BatchFilesInv, InvBut
<1>2. StoresInit /\ issued = {id \in Entities : audit[id] = "Written"} /\ active = FALSE /\ pending = {}
    BY Zenon DEF ValInit, BatchInit, Init, StoresInit
<1>3. /\ objects \in [ObjectIds -> Contents \cup {Absent}]
      /\ rels \in [RelIds -> Relationships \cup {Absent}]
      /\ \A r \in RelIds : RelLoads(r) => EndpointsLoad(rels[r])
    BY <1>2, Zenon DEF StoresInit
<1>0. \A id \in Entities :
         \/ /\ audit[id] = "Written"
            /\ \/ id \in ObjectIds /\ objects[id] # Absent
               \/ id \in RelIds /\ rels[id] # Absent
         \/ audit[id] = "None"
  <2>1. audit = [id \in Entities |-> IF \/ id \in ObjectIds /\ objects[id] # Absent
                                        \/ id \in RelIds /\ rels[id] # Absent
                                     THEN "Written" ELSE "None"]
      BY <1>2, Zenon DEF StoresInit
  <2> HIDE DEF Entities
  <2> QED BY <2>1
<1>4. NothingTorn
  <2> HIDE DEF Relationships
  <2> QED BY <1>3, WholeValues DEF NothingTorn
<1>5. AuditInv
  <2> SUFFICES ASSUME NEW id \in issued
               PROVE  (id \in ObjectIds /\ objects[id] # Absent) \/ (id \in RelIds /\ rels[id] # Absent)
      BY <1>2 DEF AuditInv, AbsentIsAudited, PendingSeen
  <2>1. id \in Entities /\ audit[id] = "Written"
      BY <1>2
  <2> QED BY <1>0, <2>1
<1>6. EventsKnown
  <2>1. events = {[id |-> id, type |-> "Written"] : id \in {i \in Entities : audit[i] = "Written"}}
      BY DEF ValInit
  <2>2. \A e \in events : e.id \in issued
      BY <1>2, <2>1
  <2>3. \A id \in Entities : audit[id] # "None" => [id |-> id, type |-> audit[id]] \in events
      BY <1>0, <2>1
  <2> QED BY <1>2, <2>2, <2>3 DEF EventsKnown
<1>7. EndsIssued
  <2>1. FilesIssued
      BY <1>1 DEF BatchFilesInv, InvBut
  <2> SUFFICES ASSUME NEW r \in RelIds, RelLoads(r) PROVE rels[r].src \in issued /\ rels[r].dst \in issued
      BY DEF EndsIssued
  <2>2. rels[r].src \in ObjectIds /\ rels[r].dst \in ObjectIds
      BY DEF RelLoads, Relationships
  <2>3. objects[rels[r].src] # Absent /\ objects[rels[r].dst] # Absent
      BY <1>3 DEF EndpointsLoad, ObjectLoads
  <2> QED BY <2>1, <2>2, <2>3, FileIsIssued
<1>8. BeforeIsBase
    BY <1>2 DEF BeforeIsBase
<1> QED BY <1>1, <1>4, <1>5, <1>6, <1>7, <1>8 DEF ReportInv

\* An entity the events name that does not load is gone, which is explained.
LEMMA GoneIsDeleted ==
    ASSUME ReportInv, AuditOutcomes = {"ok"}, NEW id \in issued, ~Loads(id)
    PROVE  File(id) = Absent /\ Explained(id)
<1>1. id \in Entities /\ TypeOK
    BY DEF ReportInv, BatchFilesInv, InvBut, TypeOK
<1>2. File(id) = Absent
    BY <1>1 DEF Loads, ObjectLoads, RelLoads, File, ReportInv, NothingTorn, Entities, TypeOK, StoresTypeOK,
                ObjectFiles, RelFiles
<1>3. DeletionTold(id)
    BY <1>1, <1>2 DEF ReportInv, AuditInv, AbsentIsAudited, File
<1>4. audit[id] = "Deleted" => [id |-> id, type |-> "Deleted"] \in events
    BY <1>1 DEF ReportInv, EventsKnown
<1> QED BY <1>2, <1>3, <1>4 DEF DeletionTold, Explained

LEMMA ReportInvExplains ==
    ASSUME ReportInv
    PROVE  UnhealthyIsExplained
<1> SUFFICES ASSUME WriteOutcomes = {"ok"}, AuditOutcomes = {"ok"}, meta = "valid", strays = {}
             PROVE  /\ ~Healthy => \E r \in RelIds, o \in ObjectIds :
                            /\ RelLoads(r) /\ o \in {rels[r].src, rels[r].dst}
                            /\ ~ObjectLoads(o) /\ Explained(o)
                    /\ \A w \in Warnings : Explained(w.id)
    BY DEF UnhealthyIsExplained
<1>1. ASSUME ~Healthy
      PROVE  \E r \in RelIds, o \in ObjectIds :
                /\ RelLoads(r) /\ o \in {rels[r].src, rels[r].dst}
                /\ ~ObjectLoads(o) /\ Explained(o)
  <2>1. MetadataErrors = {} /\ FileErrors(ObjectIds) = {} /\ FileErrors(RelIds) = {}
    <3>1. TornFiles(ObjectIds) = {} /\ TornFiles(RelIds) = {}
        BY DEF TornFiles, File, ReportInv, NothingTorn
    <3> QED BY <3>1 DEF MetadataErrors, FileErrors, Copied
  <2>2. EndpointErrors # {}
      BY <1>1, <2>1 DEF Healthy, Errors
  <2>3. PICK e \in ListedRels : ~ObjectLoads(e.value.src) \/ ~ObjectLoads(e.value.dst)
      BY <2>2 DEF EndpointErrors
  <2>4. PICK r \in RelIds : RelLoads(r) /\ e.value = rels[r]
      BY <2>3 DEF ListedRels
  <2>5. PICK o : o \in {rels[r].src, rels[r].dst} /\ ~ObjectLoads(o)
      BY <2>3, <2>4
  <2>6. o \in ObjectIds
      BY <2>4, <2>5 DEF RelLoads, Relationships
  <2>7. o \in issued /\ ~Loads(o)
      BY <2>4, <2>5, <2>6 DEF ReportInv, EndsIssued, Loads
  <2> QED BY <2>4, <2>5, <2>6, <2>7, GoneIsDeleted
<1>2. ASSUME NEW w \in Warnings PROVE Explained(w.id)
  <2>1. PICK e \in events : w.id = e.id /\ ~Loads(e.id)
      BY DEF Warnings, Finding
  <2>2. e.id \in issued
      BY DEF ReportInv, EventsKnown
  <2> QED BY <2>1, <2>2, GoneIsDeleted
<1> QED BY <1>1, <1>2

LEMMA ReportInvRollsBack ==
    ASSUME ReportInv
    PROVE  RollbackAddsOnlyWarnings
<1> SUFFICES ASSUME pc = "undo", log = <<>>, undoComplete
             PROVE  /\ outside = {} => Errors = before.errors
                    /\ \A w \in Warnings \ before.warnings : BaseFile(w.id) = Absent \/ w.id \in outside
    BY DEF RollbackAddsOnlyWarnings
<1>1. TypeOK /\ active
    BY DEF ReportInv, BatchFilesInv, InvBut, Held
<1>2. \A id \in Entities \ outside : File(id) = BaseFile(id)
    BY <1>1 DEF ReportInv, BatchFilesInv, InvBut, UntouchedSameBut
<1>3. ASSUME outside = {} PROVE Errors = before.errors
  <2>1. \A o \in ObjectIds : objects[o] = base.objects[o]
      BY <1>2, <1>3 DEF File, BaseFile, Entities
  <2>2. \A r \in RelIds : rels[r] = base.rels[r]
      BY <1>2, <1>3 DEF File, BaseFile, Entities
  <2>3. objects = base.objects /\ rels = base.rels
      BY <1>1, <2>1, <2>2 DEF TypeOK, StoresTypeOK, Snapshots
  <2> QED BY <1>1, <2>3, ErrorsAreOf DEF ReportInv, BeforeIsBase
<1>4. ASSUME NEW w \in Warnings, w.id \notin outside PROVE BaseFile(w.id) = Absent
  <2>1. PICK e \in events : w.id = e.id /\ ~Loads(e.id)
      BY DEF Warnings, Finding
  <2>2. e.id \in Entities
      BY <1>1 DEF ReportInv, EventsKnown, TypeOK
  <2>3. File(e.id) = Absent
      BY <1>1, <2>1, <2>2 DEF Loads, ObjectLoads, RelLoads, File, ReportInv, NothingTorn, Entities, TypeOK,
                              StoresTypeOK, ObjectFiles, RelFiles
  <2> QED BY <1>2, <1>4, <2>1, <2>2, <2>3
<1> QED BY <1>3, <1>4

\* What a validation says can be explained in every state, also in the middle of a
\* rollback: errors come from deleted end points and the audit log names them, but for
\* those whose event a crash swallowed, and a complete rollback leaves the errors as they
\* were and brings warnings only about what it took away again or a batch file changed
\* (RepositoryValidator::validate).
THEOREM ReportsAreExplained ==
    ASSUME "torn" \notin WriteOutcomes
    PROVE  ValSpec => []ReportIsExplained
<1>1. ReportInv /\ [ValNext]_<<fvars, valVars>> => ReportInv'
    BY ReportInvStep
<1>2. ReportInv => ReportIsExplained
    BY ReportInvExplains, ReportInvRollsBack DEF ReportIsExplained
<1> QED BY <1>1, <1>2, ReportInvInit, PTL DEF ValSpec

\* A validated repository is one batch files run on: what is proved of those holds here.
THEOREM ValidatedRunsAreRuns == ValSpec => BatchSpec
<1>1. ValInit => BatchInit
    BY DEF ValInit
<1>2. [ValNext]_<<fvars, valVars>> => [BatchNext]_fvars
    BY DEF ValNext, WorkingStep, Tamper
<1> QED BY <1>1, <1>2, PTL DEF ValSpec, BatchSpec
=============================================================================
