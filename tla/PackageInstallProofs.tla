------------------------- MODULE PackageInstallProofs -------------------------
(***************************************************************************)
(* Proofs about PackageInstall, for all packages, fragments, ids, contents *)
(* and bounds.  The steps an install takes inside its transaction preserve *)
(* the runtime's inductive invariant RollbackInv, although the ids of a    *)
(* package may have been in use before; the runtime's own steps preserve   *)
(* what is said of installs.                                               *)
(***************************************************************************)
EXTENDS RuntimeViews, FoundationRuntimeProofs, FiniteSetTheorems

USE StoresAssumption, RuntimeAssumption, InstallAssumption

-----------------------------------------------------------------------------
(* The steps of the runtime. *)

LEMMA RuntimeStepIsNext == Settled /\ RuntimeStep => Next
BY DEF RuntimeStep, Next

\* The second half of a store call changes nothing but the audit log.
Telling == Record /\ UNCHANGED installVars
Quiet ==
    UNCHANGED <<objects, rels, active, log, tx, base, pc, purpose, undoComplete, state, journal,
                issued, installing, fragment, registry>>

LEMMA TellingIsQuiet == Telling => Quiet /\ Next
BY DEF Telling, Quiet, Record, RecordEvent, txVars, callVars, installVars, Next

LEMMA CrashIsNext == CrashInInstall => Next
BY DEF CrashInInstall, Next

\* No call of the runtime enters or stays in an install.
LEMMA RuntimeStepLeaves ==
    ASSUME RollbackInv, RuntimeStep
    PROVE  pc' # "install"
<1> USE DEF RollbackInv, NoStrandedTransaction
<1>1. CASE Lifecycle
    BY <1>1 DEF Lifecycle, Initialize, OpenRepository, CloseRepository, Shutdown, NewHandle,
                Callable, Leave, StartRollback
<1>2. CASE Mutate
  <2>1. ASSUME NEW kind, NEW id, NEW before, LogMutation(kind, id, before),
               Callable \/ BatchItem("objects") \/ BatchItem("relationships")
        PROVE  pc' # "install"
      BY <2>1 DEF LogMutation, Callable, BatchItem
  <2> QED BY <1>2, <2>1
          DEF Mutate, CreateObject, UpdateObject, DeleteObject, CreateRelationship,
              UpdateRelationship, DeleteRelationship, RefuseMutation, StartRollback
<1>3. CASE Transact
    BY <1>3 DEF Transact, BeginTransaction, CommitTransaction, RollbackTransaction, StartBatch,
                StartRollback, Callable
<1>4. CASE Continue
    BY <1>4 DEF Continue, CommitImplicit, FinishRollback, FinishBatch, UndoLast
<1> QED BY <1>1, <1>2, <1>3, <1>4 DEF RuntimeStep

\* Only the replay of an install's own undo log is the undoing of an install.
LEMMA RuntimeStepUndoing ==
    ASSUME RollbackInv, RuntimeStep, UndoingInstall'
    PROVE  UndoingInstall /\ \E out \in WriteOutcomes : UndoLast(out)
<1> USE DEF RollbackInv, NoStrandedTransaction, UndoingInstall
<1>1. CASE Lifecycle
    BY <1>1 DEF Lifecycle, Initialize, OpenRepository, CloseRepository, Shutdown, NewHandle,
                Callable, Leave, StartRollback
<1>2. CASE Mutate
  <2>1. ASSUME NEW kind, NEW id, NEW before, LogMutation(kind, id, before),
               Callable \/ BatchItem("objects") \/ BatchItem("relationships")
        PROVE  FALSE
      BY <2>1 DEF LogMutation, Callable, BatchItem
  <2> QED BY <1>2, <2>1
          DEF Mutate, CreateObject, UpdateObject, DeleteObject, CreateRelationship,
              UpdateRelationship, DeleteRelationship, RefuseMutation, StartRollback
<1>3. CASE Transact
    BY <1>3 DEF Transact, BeginTransaction, CommitTransaction, RollbackTransaction, StartBatch,
                StartRollback, Callable
<1>4. CASE Continue
    BY <1>4 DEF Continue, CommitImplicit, FinishRollback, FinishBatch, UndoLast
<1> QED BY <1>1, <1>2, <1>3, <1>4 DEF RuntimeStep

\* An undo of an install removes the file of the last entry, or fails and leaves
\* everything; the files of the other entries stay.
LEMMA UndoneCreation ==
    ASSUME RollbackInv, InstallOnlyCreates, UndoingInstall,
           NEW out \in WriteOutcomes, UndoLast(out)
    PROVE  InstallOnlyCreates'
<1> USE DEF RollbackInv
<1> DEFINE n == Len(log)
<1>1. log \in Seq(LogEntries) /\ log # <<>>
    BY DEF UndoLast, TypeOK
<1>2. n \in Nat \ {0}
    BY <1>1
<1>3. Len(log') = n - 1 /\ \A i \in 1..(n - 1) : log'[i] = log[i]
  <2>1. log' = SubSeq(log, 1, n - 1)
      BY DEF UndoLast
  <2> QED BY <1>1, <1>2, <2>1, FrontOfLog
<1>4. log[n] \in LogEntries /\ \A i \in 1..n : log[i].id \in Entities
  <2>1. \A i \in 1..n : log[i] \in LogEntries
      BY <1>1, <1>2
  <2> QED BY <1>2, <2>1 DEF LogEntries, ObjectEntries, RelEntries, Entities
<1>5. log[n].kind \in {"ObjectCreated", "RelationshipCreated"}
    BY <1>2 DEF InstallOnlyCreates
<1>6. \A x \in Entities \ {log[n].id} : File(x)' = File(x)
  <2>1. CASE UNCHANGED storeVars
      BY <2>1 DEF File, storeVars
  <2>2. CASE UndoEffect(LastEntry, out)
    <3>1. LastEntry = log[n]
        BY DEF LastEntry
    <3>2. PICK e \in LogEntries : e = log[n]
        BY <1>4
    <3>3. \/ e.id \in ObjectIds /\ objects' = [objects EXCEPT ![e.id] = Absent] /\ rels' = rels
          \/ e.id \in RelIds /\ rels' = [rels EXCEPT ![e.id] = Absent] /\ objects' = objects
        BY <1>5, <2>2, <3>1, <3>2
           DEF UndoEffect, ObjectRemove, RelRemove, LogEntries, ObjectEntries, RelEntries
    <3> QED BY <3>2, <3>3 DEF File, TypeOK, StoresTypeOK, Entities
  <2> QED BY <2>1, <2>2 DEF UndoLast
<1>7. \A i \in 1..(n - 1) : log[i].id # log[n].id
    BY <1>2 DEF InstallOnlyCreates
<1>8. ASSUME NEW i \in 1..(n - 1)
      PROVE  log'[i].kind \in {"ObjectCreated", "RelationshipCreated"} /\ File(log[i].id)' # Absent
  <2>1. PICK x \in Entities : x = log[i].id
      BY <1>2, <1>4
  <2>2. log'[i].id = x /\ log'[i].kind = log[i].kind
      BY <1>3, <2>1
  <2>3. File(x)' # Absent
    <3>1. File(x) # Absent
        BY <1>2, <2>1 DEF InstallOnlyCreates
    <3> QED BY <1>6, <1>7, <2>1, <3>1
  <2>4. log[i].kind \in {"ObjectCreated", "RelationshipCreated"}
      BY <1>2 DEF InstallOnlyCreates
  <2> QED BY <2>2, <2>3, <2>4 DEF File
<1>9. \A i, j \in 1..(n - 1) : log'[i].id = log'[j].id => i = j
    BY <1>2, <1>3 DEF InstallOnlyCreates
<1> QED BY <1>2, <1>3, <1>8, <1>9 DEF InstallOnlyCreates

-----------------------------------------------------------------------------
(* The steps of an install. *)

LEMMA RollbackInvParts ==
    ASSUME TypeOK', NoStrandedTransaction', (pc # "undo" => undoComplete)', LogAndStores'
    PROVE  RollbackInv'
BY DEF RollbackInv, LogAndStores

\* A record of the fragment is created: what both kinds of records share.
LEMMA CreatedStep ==
    ASSUME InstallInv, pc = "install", MoreItems,
           NEW kind \in {"ObjectCreated", "RelationshipCreated"}, NEW id \in Entities,
           NEW value,
           [kind |-> kind, id |-> id, before |-> Absent] \in LogEntries,
           LogMutation(kind, id, Absent),
           StoresTypeOK',
           File(id) = Absent, File(id)' \in {value, Torn}, File(id)' # Absent,
           \A x \in Entities \ {id} : File(x)' = File(x),
           \A r \in RelIds : rels'[r] \in Relationships =>
                \/ rels[r] = Absent
                \/ rels[r] \in Relationships /\ SameEnds(rels'[r], rels[r]),
           issued' = issued \cup {id},
           NextItem.id \in {id, Generated}, NextItem.value = value,
           UNCHANGED installVars
    PROVE  InstallInv'
<1> DEFINE e == [kind |-> kind, id |-> id, before |-> Absent]
<1>1. RollbackInv /\ TypeOK /\ active
    BY DEF InstallInv, RollbackInv, NoStrandedTransaction
<1>n. PICK n \in Nat : n = Len(log)
    BY <1>1 DEF TypeOK
<1>2. /\ log' = Append(log, e)
      /\ Len(log') = n + 1
      /\ log'[n + 1] = e
      /\ \A i \in 1..n : log'[i] = log[i] /\ log[i].id \in Entities
  <2>1. log \in Seq(LogEntries) /\ log' = Append(log, e)
      BY <1>n, <1>1 DEF TypeOK, LogMutation
  <2>2. \A i \in 1..n : log[i] \in LogEntries
      BY <1>n, <2>1
  <2>3. \A i \in 1..n : log[i].id \in Entities
      BY <1>n, <2>2 DEF LogEntries, ObjectEntries, RelEntries, Entities
  <2> QED BY <1>n, <2>1, <2>3
<1>3. UNCHANGED <<active, tx, base, state, purpose, undoComplete, pc, registry, installing, fragment>>
    BY <1>n, <1>1 DEF LogMutation, JoinOrOpen, installVars
<1>4. RollbackInv'
  <2>1. TypeOK'
    <3>1. issued' \subseteq Entities
        BY <1>n, <1>1 DEF TypeOK
    <3> QED BY <1>n, <1>1, <3>1, LogMutationType DEF TypeOK
  <2>2. NoStrandedTransaction'
      BY <1>n, <1>1, <1>3 DEF NoStrandedTransaction, RollbackInv, LogMutation
  <2>3. BaseFile(id) = Absent
    <3>1. \A i \in 1..n : log[i].id # id
      <4> SUFFICES ASSUME NEW i \in 1..n, log[i].id = id PROVE FALSE
          OBVIOUS
      <4>1. File(log[i].id) # Absent
          BY <1>n DEF InstallInv, InstallOnlyCreates
      <4> QED BY <1>n, <4>1
    <3>2. undoComplete
        BY <1>n, <1>1 DEF RollbackInv
    <3> QED BY <1>n, <1>1, <3>1, <3>2 DEF RollbackInv, UntouchedSame
  <2>4. LogAndStores'
      BY <1>n, <1>1, <2>3, MutatedStep
  <2>5. (pc # "undo" => undoComplete)'
      BY <1>n, <1>1, <1>3 DEF RollbackInv
  <2> QED BY <1>n, <2>1, <2>2, <2>4, <2>5, RollbackInvParts
<1>5. n < Len(fragment) /\ fragment \in Seq(Items)
    BY <1>n DEF InstallInv, InstallTypeOK, MoreItems
<1>6. InstallTypeOK'
    BY <1>n, <1>2, <1>3, <1>5 DEF InstallInv, InstallTypeOK
(* The files of the entries before this one are other files, and stay.     *)
<1>7. \A i \in 1..n : File(log[i].id) # Absent /\ log[i].id # id
    BY <1>n DEF InstallInv, InstallOnlyCreates
<1>8. ASSUME NEW i \in 1..n
      PROVE  File(log[i].id)' # Absent /\ File(log[i].id)' \in {fragment[i].value, Torn}
  <2>1. PICK x \in Entities : x = log[i].id
      BY <1>n, <1>2
  <2>2. File(x)' = File(x) /\ log'[i].id = x
      BY <1>n, <1>2, <1>7, <2>1
  <2>3. File(x) # Absent /\ File(x) \in {fragment[i].value, Torn}
    <3>1. File(log[i].id) \in {fragment[i].value, Torn}
        BY <1>n DEF InstallInv, InstallProgress
    <3> QED BY <1>n, <1>7, <2>1, <3>1
  <2> QED BY <1>n, <2>2, <2>3 DEF File
<1>9. File(log[n + 1].id)' # Absent /\ File(log[n + 1].id)' \in {fragment[n + 1].value, Torn}
  <2>1. log'[n + 1].id = id
      BY <1>n, <1>2
  <2>2. fragment[n + 1].value = value
      BY <1>n DEF NextItem
  <2> QED BY <1>n, <2>1, <2>2 DEF File
<1>10. InstallOnlyCreates'
  <2>1. \A i \in 1..n : log'[i].kind \in {"ObjectCreated", "RelationshipCreated"}
      BY <1>n, <1>2 DEF InstallInv, InstallOnlyCreates
  <2>2. \A i, j \in 1..n : log'[i].id = log'[j].id => i = j
      BY <1>n, <1>2 DEF InstallInv, InstallOnlyCreates
  <2>3. log'[n + 1].kind = kind /\ \A i \in 1..n : log'[i].id # log'[n + 1].id
      BY <1>n, <1>2, <1>7
  <2>4. \A i \in 1..Len(log') : i \in 1..n \/ i = n + 1
      BY <1>n, <1>2
  <2> QED BY <1>n, <1>8, <1>9, <2>1, <2>2, <2>3, <2>4 DEF InstallOnlyCreates
<1>11. InstallProgress'
  <2>1. \A i \in 1..n : fragment'[i].id \in {log'[i].id, Generated}
      BY <1>n, <1>2, <1>3 DEF InstallInv, InstallProgress
  <2>2. fragment'[n + 1].id \in {log'[n + 1].id, Generated}
      BY <1>n, <1>2, <1>3 DEF NextItem
  <2>3. \A i \in 1..Len(log') : i \in 1..n \/ i = n + 1
      BY <1>n, <1>2
  <2> QED BY <1>n, <1>3, <1>8, <1>9, <2>1, <2>2, <2>3 DEF InstallProgress
<1> QED BY <1>n, <1>4, <1>6, <1>10, <1>11 DEF InstallInv

LEMMA InstallObjectStep ==
    ASSUME InstallInv, NEW out \in SuccessfulWrites, InstallObject(out)
    PROVE  InstallInv'
<1>1. RollbackInv /\ StoresTypeOK /\ pc = "install" /\ MoreItems
    BY DEF InstallInv, RollbackInv, TypeOK, InstallObject
<1>2. PICK item \in ObjectItems : item = NextItem
    BY DEF InstallObject
<1>3. PICK o \in IdsFor(NextItem, ObjectIds) :
         /\ ObjectCreate(o, NextItem.value, out)
         /\ LogMutation("ObjectCreated", o, Absent)
         /\ issued' = issued \cup {o}
    BY DEF InstallObject
<1>4. PICK c \in Contents : c = NextItem.value
    BY <1>2 DEF ObjectItems
<1>5. o \in ObjectIds /\ NextItem.id \in {o, Generated}
    BY <1>2, <1>3 DEF IdsFor, ObjectItems
<1>6. /\ objects[o] = Absent
      /\ objects' = [objects EXCEPT ![o] = Written(c, out)]
      /\ rels' = rels
      /\ ObjectCreate(o, c, out)
    BY <1>3, <1>4 DEF ObjectCreate
<1>7. StoresTypeOK'
    BY <1>1, <1>5, <1>6, ObjectCallsType
<1>8. o \in Entities /\ Written(c, out) \in {c, Torn} /\ Written(c, out) # Absent
    BY <1>5 DEF Entities, Written
<1>9. File(o) = Absent /\ File(o)' = Written(c, out)
    BY <1>1, <1>5, <1>6 DEF File, StoresTypeOK
<1>10. \A x \in Entities \ {o} : File(x)' = File(x)
    BY <1>1, <1>5, <1>6 DEF File, StoresTypeOK
<1>11. [kind |-> "ObjectCreated", id |-> o, before |-> Absent] \in LogEntries
    BY <1>5 DEF LogEntries, ObjectEntries
<1>12. \A r \in RelIds : rels'[r] \in Relationships =>
          \/ rels[r] = Absent
          \/ rels[r] \in Relationships /\ SameEnds(rels'[r], rels[r])
    BY <1>6 DEF SameEnds
<1>13. UNCHANGED installVars
    BY DEF InstallObject
<1> QED BY <1>1, <1>3, <1>4, <1>5, <1>7, <1>8, <1>9, <1>10, <1>11, <1>12, <1>13, CreatedStep

LEMMA InstallRelationshipStep ==
    ASSUME InstallInv, NEW out \in SuccessfulWrites, InstallRelationship(out)
    PROVE  InstallInv'
<1>1. RollbackInv /\ StoresTypeOK /\ pc = "install" /\ MoreItems
    BY DEF InstallInv, RollbackInv, TypeOK, InstallRelationship
<1>2. PICK item \in RelItems : item = NextItem
    BY DEF InstallRelationship
<1>3. PICK r \in IdsFor(NextItem, RelIds) :
         /\ RelCreate(r, NextItem.value, out)
         /\ LogMutation("RelationshipCreated", r, Absent)
         /\ issued' = issued \cup {r}
    BY DEF InstallRelationship
<1>4. PICK v \in Relationships : v = NextItem.value
    BY <1>2 DEF RelItems
<1>5. r \in RelIds /\ r \notin ObjectIds /\ NextItem.id \in {r, Generated}
    BY <1>2, <1>3 DEF IdsFor, RelItems
<1>6. /\ rels[r] = Absent
      /\ rels' = [rels EXCEPT ![r] = Written(v, out)]
      /\ objects' = objects
      /\ RelCreate(r, v, out)
    BY <1>3, <1>4 DEF RelCreate, RelFits
<1>7. StoresTypeOK'
  <2>1. v.note \in Contents
      BY DEF Relationships
  <2> QED BY <1>1, <1>5, <1>6, <2>1, RelCallsType
<1>8. r \in Entities /\ Written(v, out) \in {v, Torn} /\ Written(v, out) # Absent
    BY <1>5 DEF Entities, Written
<1>9. File(r) = Absent /\ File(r)' = Written(v, out)
    BY <1>1, <1>5, <1>6 DEF File, StoresTypeOK
<1>10. \A x \in Entities \ {r} : File(x)' = File(x)
    BY <1>1, <1>5, <1>6 DEF File, StoresTypeOK, Entities
<1>11. [kind |-> "RelationshipCreated", id |-> r, before |-> Absent] \in LogEntries
    BY <1>5 DEF LogEntries, RelEntries
<1>12. \A q \in RelIds : rels'[q] \in Relationships =>
          \/ rels[q] = Absent
          \/ rels[q] \in Relationships /\ SameEnds(rels'[q], rels[q])
    BY <1>1, <1>5, <1>6 DEF SameEnds, StoresTypeOK
<1>13. UNCHANGED installVars
    BY DEF InstallRelationship
<1> QED BY <1>1, <1>3, <1>4, <1>5, <1>7, <1>8, <1>9, <1>10, <1>11, <1>12, <1>13, CreatedStep

\* The fragment of an archive is a sequence of records.
LEMMA FragmentType ==
    ASSUME NEW f \in Fragments
    PROVE  f \in Seq(Items)
<1>1. PICK os \in SeqsUpTo(ObjectItems, MaxLog), rs \in SeqsUpTo(RelItems, MaxLog) : f = os \o rs
    BY DEF Fragments
<1>2. \A S : \A s \in SeqsUpTo(S, MaxLog) : s \in Seq(S)
    BY DEF SeqsUpTo
<1>3. os \in Seq(Items) /\ rs \in Seq(Items)
    BY <1>2 DEF Items
<1> QED BY <1>1, <1>3

\* An install opens its transaction: only when none is open.
LEMMA StartInstallStep ==
    ASSUME InstallInv, NEW p \in Packages, NEW f \in Fragments, StartInstall(p, f)
    PROVE  InstallInv'
<1>1. RollbackInv /\ TypeOK /\ InstallTypeOK
    BY DEF InstallInv, RollbackInv
<1>2. log' = <<>> /\ Len(log') = 0 /\ \A i \in 1..Len(log') : FALSE
    BY DEF StartInstall
<1>3. TypeOK'
  <2>1. Snapshot \in Snapshots /\ log' \in Seq(LogEntries)
      BY <1>1, <1>2, SnapshotType, EmptyLogType DEF TypeOK
  <2> QED BY <1>1, <2>1 DEF StartInstall, OpenTransaction, TypeOK, StoresTypeOK, storeVars
<1>4. NoStrandedTransaction'
    BY DEF StartInstall, OpenTransaction, NoStrandedTransaction, Callable
<1>5. (pc # "undo" => undoComplete)'
    BY <1>1 DEF StartInstall, Callable, RollbackInv
<1>6. LogAndStores'
    BY <1>1, OpenedStep DEF StartInstall, OpenTransaction, storeVars
<1>7. InstallTypeOK'
  <2>1. f \in Seq(Items) /\ Len(f) \in Nat
      BY FragmentType
  <2> QED BY <1>1, <1>2, <2>1 DEF StartInstall, Installable, InstallTypeOK
<1>8. InstallOnlyCreates' /\ InstallProgress'
    BY <1>2 DEF InstallOnlyCreates, InstallProgress
<1> QED BY <1>3, <1>4, <1>5, <1>6, <1>7, <1>8, RollbackInvParts DEF InstallInv

\* The package is recorded; the commit comes next.
LEMMA RecordInstallStep ==
    ASSUME InstallInv, NEW out, RecordInstall(out)
    PROVE  InstallInv'
<1>1. RollbackInv /\ TypeOK /\ InstallTypeOK /\ pc = "install"
    BY DEF InstallInv, RollbackInv, RecordInstall
<1>2. /\ pc' = "commit"
      /\ UNCHANGED <<objects, rels, audit, pending, unaudited, active, log, tx, base, state, journal, issued, purpose,
                     undoComplete, batch, reply>>
    BY DEF RecordInstall, storeVars, txVars
<1>3. RollbackInv'
  <2>1. TypeOK'
      BY <1>1, <1>2 DEF TypeOK, StoresTypeOK
  <2>2. NoStrandedTransaction' /\ (pc # "undo" => undoComplete)'
      BY <1>1, <1>2 DEF RollbackInv, NoStrandedTransaction
  <2>3. LogAndStores'
      BY <1>1, <1>2, QuietStep
  <2> QED BY <2>1, <2>2, <2>3, RollbackInvParts
<1>4. InstallTypeOK'
  <2>1. {log[i].id : i \in 1..Len(log)} \subseteq Entities
    <3>1. \A i \in 1..Len(log) : log[i] \in LogEntries
        BY <1>1 DEF TypeOK
    <3> QED BY <3>1 DEF LogEntries, ObjectEntries, RelEntries, Entities
  <2>2. [ids |-> {log[i].id : i \in 1..Len(log)}] \in RegistryEntries
      BY <2>1 DEF RegistryEntries
  <2>3. registry' \in [Packages -> RegistryEntries \cup {Absent, Torn}]
      BY <1>1, <2>2 DEF RecordInstall, RecordEntry, Written, InstallTypeOK
  <2>4. installing' = Nobody /\ fragment' = <<>> /\ fragment' \in Seq(Items)
      BY DEF RecordInstall
  <2> QED BY <1>2, <2>3, <2>4 DEF InstallTypeOK
<1>5. InstallOnlyCreates' /\ InstallProgress'
    BY <1>2 DEF InstallOnlyCreates, InstallProgress, UndoingInstall
<1> QED BY <1>3, <1>4, <1>5 DEF InstallInv

\* The install fails and is rolled back.
LEMMA AbandonInstallStep ==
    ASSUME InstallInv, pc = "install", AbandonInstall
    PROVE  InstallInv'
<1>1. RollbackInv /\ TypeOK /\ InstallTypeOK /\ undoComplete /\ active
    BY DEF InstallInv, RollbackInv, NoStrandedTransaction
<1>2. /\ pc' = "undo"
      /\ purpose' = "install"
      /\ undoComplete'
      /\ UNCHANGED <<objects, rels, audit, pending, unaudited, active, log, tx, base, state, journal, issued, batch>>
      /\ reply' = "none"
    BY DEF AbandonInstall, StartRollback, storeVars
<1>3. RollbackInv'
  <2>1. TypeOK'
      BY <1>1, <1>2 DEF TypeOK, StoresTypeOK, AbandonInstall, StartRollback
  <2>2. NoStrandedTransaction'
      BY <1>1, <1>2 DEF RollbackInv, NoStrandedTransaction
  <2>3. LogAndStores'
      BY <1>1, <1>2, QuietStep
  <2> QED BY <1>2, <2>1, <2>2, <2>3, RollbackInvParts
<1>4. InstallTypeOK'
  <2>1. installing' = Nobody /\ fragment' = <<>> /\ fragment' \in Seq(Items) /\ registry' = registry
      BY DEF AbandonInstall
  <2> QED BY <1>1, <1>2, <2>1 DEF InstallTypeOK
<1>5. InstallOnlyCreates'
  <2>1. \A x : File(x)' = File(x)
      BY <1>2 DEF File
  <2> QED BY <1>2 DEF InstallInv, InstallOnlyCreates, File
<1>6. InstallProgress'
    BY <1>2 DEF InstallProgress
<1> QED BY <1>3, <1>4, <1>5, <1>6 DEF InstallInv

LEMMA InstallInvStep ==
    ASSUME "torn" \notin WriteOutcomes, InstallInv, [InstallNext]_ivars
    PROVE  InstallInv'
<1>1. RollbackInv /\ InstallTypeOK
    BY DEF InstallInv
<1>2. CASE Settled /\ RuntimeStep
  <2>1. RollbackInv'
      BY <1>1, <1>2, RuntimeStepIsNext, RollbackInvStep
  <2>2. pc' # "install"
      BY <1>1, <1>2, RuntimeStepLeaves
  <2>3. InstallTypeOK' /\ InstallProgress'
      BY <1>1, <1>2, <2>2 DEF RuntimeStep, installVars, InstallTypeOK, InstallProgress
  <2>4. InstallOnlyCreates'
    <3>1. CASE UndoingInstall'
      <4>1. UndoingInstall /\ \E out \in WriteOutcomes : UndoLast(out)
          BY <1>1, <1>2, <3>1, RuntimeStepUndoing
      <4>2. InstallOnlyCreates
          BY DEF InstallInv
      <4> QED BY <1>1, <4>1, <4>2, UndoneCreation
    <3>2. CASE ~UndoingInstall'
        BY <2>2, <3>2 DEF InstallOnlyCreates
    <3> QED BY <3>1, <3>2
  <2> QED BY <2>1, <2>3, <2>4 DEF InstallInv
<1>3. CASE CrashInInstall
  <2>1. RollbackInv'
      BY <1>1, <1>3, CrashIsNext, RollbackInvStep
  <2>2. pc' = "idle"
      BY <1>3 DEF CrashInInstall, Crash
  <2>3. installing' = Nobody /\ fragment' = <<>> /\ fragment' \in Seq(Items) /\ registry' = registry
      BY <1>3 DEF CrashInInstall
  <2> QED BY <1>1, <2>1, <2>2, <2>3
          DEF InstallInv, InstallTypeOK, InstallOnlyCreates, InstallProgress, UndoingInstall
<1>4. CASE \E p \in Packages, f \in Fragments : StartInstall(p, f)
    BY <1>4, StartInstallStep
<1>5. CASE InstallStep
  <2>1. RefuseItem \/ RefuseRecord => pc = "install" /\ AbandonInstall
      BY DEF RefuseItem, RefuseRecord
  <2> QED BY <1>5, <2>1, InstallObjectStep, InstallRelationshipStep, RecordInstallStep,
             AbandonInstallStep DEF InstallStep
<1>6. CASE Telling \/ UNCHANGED ivars
  <2>1. RollbackInv'
      BY <1>1, <1>6, TellingIsQuiet, RollbackInvStep DEF ivars
  <2>2. Quiet
      BY <1>6, TellingIsQuiet DEF Quiet, ivars, vars, storeVars, txVars, callVars, installVars
  <2> QED BY <2>1, <2>2
          DEF Quiet, InstallInv, InstallTypeOK, InstallOnlyCreates, InstallProgress, UndoingInstall,
              File
<1> QED BY <1>2, <1>3, <1>4, <1>5, <1>6 DEF InstallNext, Telling

LEMMA InstallInvInit == InstallInit => InstallInv
<1> SUFFICES ASSUME InstallInit PROVE InstallInv
    OBVIOUS
<1>1. RollbackInv /\ pc = "idle"
    BY RollbackInvInit DEF InstallInit, Init
<1>2. <<>> \in Seq(Items)
    OBVIOUS
<1> QED BY <1>1, <1>2
        DEF InstallInit, InstallInv, InstallTypeOK, InstallOnlyCreates, InstallProgress,
            UndoingInstall

\* With installs too, the undo log determines how to get back to the stores the
\* transaction found, and what an install has logged mirrors what it was given.
THEOREM InstallsKeepInvariant ==
    ASSUME "torn" \notin WriteOutcomes
    PROVE  InstallSpec => []InstallInv
<1>1. InstallInv /\ [InstallNext]_ivars => InstallInv'
    BY InstallInvStep
<1> QED BY <1>1, InstallInvInit, PTL DEF InstallSpec

LEMMA InvGivesUndoable == InstallInv => InstallUndoNeverRefused
<1> SUFFICES ASSUME InstallInv, UndoingInstall, log # <<>> PROVE Undoable(LastEntry)
    BY DEF InstallUndoNeverRefused
<1>1. log \in Seq(LogEntries)
    BY DEF InstallInv, RollbackInv, TypeOK
<1>2. PICK e \in LogEntries : e = LastEntry
    BY <1>1, LastEntryType DEF InstallInv, RollbackInv
<1>3. Len(log) \in 1..Len(log) /\ LastEntry = log[Len(log)]
    BY <1>1 DEF LastEntry
<1>4. e.kind \in {"ObjectCreated", "RelationshipCreated"} /\ File(e.id) # Absent
    BY <1>2, <1>3 DEF InstallInv, InstallOnlyCreates
<1>5. Undoable(e)
    BY <1>4 DEF Undoable, File, LogEntries, ObjectEntries, RelEntries
<1> QED BY <1>2, <1>5

\* No undo of an install is refused by a store: what it created is there until the
\* replay comes to it.
THEOREM InstallUndoesSucceed ==
    ASSUME "torn" \notin WriteOutcomes
    PROVE  InstallSpec => []InstallUndoNeverRefused
BY InvGivesUndoable, InstallsKeepInvariant, PTL
-----------------------------------------------------------------------------
(* Installs are atomic transactions too. *)

LEMMA InstallRefinementStep ==
    ASSUME InstallInv, InstallInv', [InstallNext]_ivars
    PROVE  [Atomic!ANext]_(Atomic!absVars)
<1>1. RollbackInv /\ TypeOK /\ TypeOK' /\ NoStrandedTransaction
    BY DEF InstallInv, RollbackInv
<1>2. CASE (Settled /\ RuntimeStep) \/ Telling \/ CrashInInstall \/ UNCHANGED ivars
  <2>1. [Next]_vars
      BY <1>2, RuntimeStepIsNext, TellingIsQuiet, CrashIsNext DEF ivars
  <2> QED BY <1>1, <2>1, RefinementStep
<1>3. ASSUME NEW p, NEW f, StartInstall(p, f) PROVE Atomic!ANext
    BY <1>1, <1>3, RefinesBegin DEF StartInstall, Atomic!ANext
<1>4. ASSUME NEW out, InstallObject(out) \/ InstallRelationship(out) PROVE Atomic!ANext
  <2>1. JoinOrOpen /\ UNCHANGED journal
      BY <1>4 DEF InstallObject, InstallRelationship, LogMutation
  <2> QED BY <1>1, <2>1, RefinesJoinOrOpen
<1>5. ASSUME NEW out, RecordInstall(out) PROVE UNCHANGED Atomic!absVars
    BY <1>5, RefinesStutter DEF RecordInstall, storeVars, txVars
<1>6. ASSUME AbandonInstall PROVE UNCHANGED Atomic!absVars
    BY <1>6, RefinesStutter DEF AbandonInstall, StartRollback, storeVars
<1> QED BY <1>2, <1>3, <1>4, <1>5, <1>6
        DEF InstallNext, InstallStep, RefuseItem, RefuseRecord, Telling

\* The runtime with installs implements atomic transactions: an install is one
\* transaction, and a record that says it was rolled back is true.
THEOREM InstallsAreAtomic ==
    ASSUME "torn" \notin WriteOutcomes
    PROVE  InstallSpec => AtomicSpec
<1>1. InstallInv /\ [InstallNext]_ivars => InstallInv'
    BY InstallInvStep
<1>2. InstallInv /\ InstallInv' /\ [InstallNext]_ivars => [Atomic!ANext]_(Atomic!absVars)
    BY InstallRefinementStep
<1>3. InstallInit => Atomic!AInit
    BY RefinementInit DEF InstallInit
<1> QED BY <1>1, <1>2, <1>3, InstallInvInit, PTL DEF InstallSpec, AtomicSpec, Atomic!ASpec
-----------------------------------------------------------------------------
(* On a disk that works, a failed install leaves nothing. *)

UndoneSoFar == UndoingInstall => undoComplete

LEMMA UndoneSoFarStep ==
    ASSUME WriteOutcomes \subseteq {"ok"}, InstallInv, UndoneSoFar, [InstallNext]_ivars
    PROVE  UndoneSoFar'
<1>1. RollbackInv
    BY DEF InstallInv
<1>2. CASE RuntimeStep
  <2>1. CASE UndoingInstall'
    <3>1. UndoingInstall /\ \E out \in WriteOutcomes : UndoLast(out)
        BY <1>1, <1>2, <2>1, RuntimeStepUndoing
    <3>2. PICK out \in WriteOutcomes : UndoLast(out)
        BY <3>1
    <3>3. out = "ok" /\ log # <<>> /\ undoComplete
        BY <3>1, <3>2 DEF UndoLast, UndoneSoFar
    <3>4. Undoable(LastEntry)
        BY <3>1, <3>3, InvGivesUndoable DEF InstallUndoNeverRefused
    <3> QED BY <3>2, <3>3, <3>4 DEF UndoLast, UndoneSoFar
  <2>2. CASE ~UndoingInstall'
      BY <2>2 DEF UndoneSoFar
  <2> QED BY <2>1, <2>2
<1>3. CASE CrashInInstall
    BY <1>3 DEF CrashInInstall, Crash, UndoneSoFar, UndoingInstall
<1>4. CASE \E p \in Packages, f \in Fragments : StartInstall(p, f)
    BY <1>4 DEF StartInstall, UndoneSoFar, UndoingInstall
<1>5. CASE InstallStep
  <2>1. undoComplete /\ NoStrandedTransaction
      BY <1>1, <1>5 DEF InstallStep, InstallObject, InstallRelationship, RecordInstall, RefuseItem,
                        RefuseRecord, RollbackInv
  <2>2. undoComplete'
      BY <1>5, <2>1 DEF InstallStep, InstallObject, InstallRelationship, LogMutation, RecordInstall,
                        RefuseItem, RefuseRecord, AbandonInstall, StartRollback
  <2> QED BY <2>2 DEF UndoneSoFar
<1>6. CASE Telling \/ UNCHANGED ivars
    BY <1>6, TellingIsQuiet DEF Quiet, ivars, vars, callVars, UndoneSoFar, UndoingInstall
<1> QED BY <1>2, <1>3, <1>4, <1>5, <1>6 DEF InstallNext, Telling

\* As long as every file operation works - whatever becomes of audit events and
\* journal records, and wherever the process dies - an install that reports a
\* failure has left both stores as it found them.
THEOREM FailedInstallsLeaveNothing ==
    ASSUME WriteOutcomes \subseteq {"ok"}
    PROVE  InstallSpec => []FailedInstallLeavesNothing
<1>1. "torn" \notin WriteOutcomes
    OBVIOUS
<1>2. InstallInit => UndoneSoFar
    BY DEF InstallInit, Init, UndoneSoFar, UndoingInstall
<1>3. InstallInv /\ UndoneSoFar /\ [InstallNext]_ivars => UndoneSoFar'
    BY UndoneSoFarStep
<1>4. InstallInv /\ UndoneSoFar => FailedInstallLeavesNothing
    BY RollbackInvGivesRestored
       DEF InstallInv, UndoneSoFar, UndoingInstall, RolledBackMeansRestored, FailedInstallLeavesNothing
<1> QED BY <1>1, <1>2, <1>3, <1>4, InstallsKeepInvariant, PTL DEF InstallSpec
-----------------------------------------------------------------------------
(* What the registry says is so. *)

\* Entries that name different files name as many files as there are entries.
LEMMA AsManyIds ==
    ASSUME NEW n \in Nat, NEW T, NEW f \in [1..n -> T],
           \A t \in T : \E i \in 1..n : f[i] = t,
           \A i, j \in 1..n : f[i] = f[j] => i = j
    PROVE  Cardinality(T) = n
<1>1. f \in Bijection(1..n, T)
    BY DEF Bijection, Injection, Surjection, IsInjective
<1> QED BY <1>1, FS_CountingElements DEF ExistsBijection

LEMMA RecordedWhole ==
    ASSUME InstallInv, NEW out, RecordInstall(out),
           NEW p \in Packages, registry'[p] # registry[p]
    PROVE  /\ p = installing
           /\ registry'[p] # Torn => Cardinality(registry'[p].ids) = Len(fragment)
           /\ \A i \in 1..Len(fragment) :
                 \E id \in Entities :
                     /\ registry'[p] # Torn => id \in registry'[p].ids
                     /\ File(id) \in {fragment[i].value, Torn}
                     /\ fragment[i].id \in {id, Generated}
<1> DEFINE ids == {log[i].id : i \in 1..Len(log)}
<1>1. /\ log \in Seq(LogEntries)
      /\ Len(log) = Len(fragment)
      /\ pc = "install"
      /\ registry \in [Packages -> RegistryEntries \cup {Absent, Torn}]
    BY DEF InstallInv, RollbackInv, TypeOK, InstallTypeOK, RecordInstall, AllCreated
<1>2. p = installing /\ registry'[p] \in {[ids |-> ids], Torn}
    BY <1>1 DEF RecordInstall, RecordEntry, Written
<1>3. \A i \in 1..Len(log) : log[i].id \in Entities
  <2>1. \A i \in 1..Len(log) : log[i] \in LogEntries
      BY <1>1
  <2> QED BY <2>1 DEF LogEntries, ObjectEntries, RelEntries, Entities
<1>4. Cardinality(ids) = Len(fragment)
  <2>1. PICK n \in Nat : n = Len(log)
      BY <1>1
  <2>2. PICK f \in [1..n -> ids] : \A i \in 1..n : f[i] = log[i].id
    <3>1. [i \in 1..n |-> log[i].id] \in [1..n -> ids]
        BY <2>1
    <3> QED BY <3>1
  <2>3. \A i, j \in 1..n : f[i] = f[j] => i = j
      BY <1>1, <2>1, <2>2 DEF InstallInv, InstallOnlyCreates
  <2>4. \A id \in ids : \E i \in 1..n : f[i] = id
      BY <2>1, <2>2
  <2> HIDE DEF ids
  <2>5. Cardinality(ids) = n
      BY <2>3, <2>4, AsManyIds
  <2> QED BY <1>1, <2>1, <2>5
<1>5. \A i \in 1..Len(fragment) :
         /\ log[i].id \in ids
         /\ File(log[i].id) \in {fragment[i].value, Torn}
         /\ fragment[i].id \in {log[i].id, Generated}
    BY <1>1 DEF InstallInv, InstallProgress
<1>6. registry'[p] # Torn => registry'[p].ids = ids
    BY <1>2
<1> HIDE DEF ids
<1>7. ASSUME NEW i \in 1..Len(fragment)
      PROVE  \E id \in Entities :
                 /\ registry'[p] # Torn => id \in registry'[p].ids
                 /\ File(id) \in {fragment[i].value, Torn}
                 /\ fragment[i].id \in {id, Generated}
  <2>1. PICK id \in Entities : id = log[i].id
      BY <1>1, <1>3
  <2> QED BY <1>5, <1>6, <2>1
<1> QED BY <1>2, <1>4, <1>6, <1>7

LEMMA RegisteredWholeStep ==
    ASSUME InstallInv, [InstallNext]_ivars, NEW p \in Packages, registry'[p] # registry[p]
    PROVE  \E out \in RegistryOutcomes \ {"failed"} : RecordInstall(out)
<1>1. registry' # registry
    OBVIOUS
<1> QED BY <1>1
        DEF InstallNext, RuntimeStep, installVars, ivars, CrashInInstall, StartInstall, InstallStep,
            InstallObject, InstallRelationship, RefuseItem, RefuseRecord, AbandonInstall

\* A registry entry appears only for the package being installed, when all of its
\* fragment is in the stores, and lists the files that hold it and no others.
THEOREM RegistryTellsTheTruth ==
    ASSUME "torn" \notin WriteOutcomes
    PROVE  InstallSpec => RegisteredWhole
<1>1. InstallInv /\ [InstallNext]_ivars =>
        [\A p \in Packages : registry'[p] # registry[p] =>
            /\ p = installing
            /\ registry'[p] # Torn => Cardinality(registry'[p].ids) = Len(fragment)
            /\ \A i \in 1..Len(fragment) :
                  \E id \in Entities :
                      /\ registry'[p] # Torn => id \in registry'[p].ids
                      /\ File(id) \in {fragment[i].value, Torn}
                      /\ fragment[i].id \in {id, Generated}]_ivars
    BY RecordedWhole, RegisteredWholeStep
<1> QED BY <1>1, InstallsKeepInvariant, PTL DEF InstallSpec, RegisteredWhole
-----------------------------------------------------------------------------
(* The shapes a step can have, for what is said of the registry and of the *)
(* views: what it does to the files, the undo log and the transaction.     *)

InLog(id) == \E i \in 1..Len(log) : log[i].id = id
Logs(id) ==
    \E kind, before : log' = Append(log, [kind |-> kind, id |-> id, before |-> before])
OthersStay(id) == \A x \in Entities \ {id} : File(x)' = File(x)

Stays ==
    /\ UNCHANGED <<objects, rels, issued, journal, registry, active, tx, base, log>>
    /\ pc \in {"idle", "batch", "install"} /\ pc' \in {"idle", "batch", "undo"}
    /\ pc = "install" <=> UndoingInstall'
    /\ state' # state => ~active

Opening ==
    /\ pc = "idle" /\ ~active /\ OpenTransaction /\ log = <<>> /\ log' = <<>>
    /\ UNCHANGED <<objects, rels, issued, journal, registry, state>>
    /\ pc' \in {"idle", "batch", "undo", "install"} /\ ~UndoingInstall'

Mutating(id) ==
    /\ pc \in {"idle", "batch"} /\ pc' \in {"idle", "batch", "commit"}
    /\ JoinOrOpen /\ Logs(id) /\ OthersStay(id)
    /\ File(id) = Absent => id \notin issued
    /\ issued' \in {issued, issued \cup {id}}
    /\ UNCHANGED <<registry, journal, state>>

Undoing == (\E out \in WriteOutcomes : UndoLast(out)) /\ UNCHANGED registry

Closing ==
    /\ pc \in {"idle", "batch", "commit", "undo"} /\ pc' = "idle"
    /\ active /\ ~active' /\ log' = <<>>
    /\ UNCHANGED <<objects, rels, issued, tx, base, registry>>
    /\ pc = "undo" => log = <<>>
    /\ \E verdict \in Verdicts, out \in JournalOutcomes :
          /\ JournalWrite(verdict, out)
          /\ pc = "undo" /\ verdict \in {"Committed", "RolledBack"} => undoComplete

Creating(id) ==
    /\ pc = "install" /\ pc' = "install"
    /\ UNCHANGED <<active, tx, base, registry, journal, state, installing>>
    /\ Logs(id) /\ OthersStay(id)
    /\ File(id) = Absent
    /\ issued' = issued \cup {id}

Recording == \E out \in RegistryOutcomes \ {"failed"} : RecordInstall(out)

LEMMA ObjectFile ==
    ASSUME StoresTypeOK, NEW o \in ObjectIds, NEW new,
           objects' = [objects EXCEPT ![o] = new], rels' = rels
    PROVE  o \in Entities /\ OthersStay(o) /\ File(o) = objects[o] /\ File(o)' = new
BY DEF File, OthersStay, StoresTypeOK, Entities

LEMMA RelFile ==
    ASSUME StoresTypeOK, NEW r \in RelIds, NEW new,
           rels' = [rels EXCEPT ![r] = new], objects' = objects
    PROVE  r \in Entities /\ OthersStay(r) /\ File(r) = rels[r] /\ File(r)' = new
<1>1. r \notin ObjectIds
    OBVIOUS
<1> QED BY <1>1 DEF File, OthersStay, StoresTypeOK, Entities

\* A mutation of the runtime.
LEMMA MutationShape ==
    ASSUME InstallInv, Mutate, ~RefuseMutation, UNCHANGED installVars
    PROVE  \E id \in Entities : Mutating(id)
<1>1. RollbackInv /\ TypeOK /\ StoresTypeOK
    BY DEF InstallInv, RollbackInv, TypeOK
<1>2. ASSUME NEW id \in Entities, NEW kind, NEW before, LogMutation(kind, id, before),
             Callable \/ BatchItem("objects") \/ BatchItem("relationships"),
             OthersStay(id), File(id) = Absent => id \notin issued,
             issued' \in {issued, issued \cup {id}}
      PROVE  Mutating(id)
  <2>1. pc \in {"idle", "batch"} /\ pc' \in {"idle", "batch", "commit"}
      BY <1>2 DEF LogMutation, Callable, BatchItem
  <2>2. JoinOrOpen /\ Logs(id) /\ UNCHANGED <<journal, state, registry>>
      BY <1>2 DEF LogMutation, Logs, installVars
  <2> QED BY <1>2, <2>1, <2>2 DEF Mutating
<1>3. ASSUME NEW o \in ObjectIds, NEW c \in Contents, NEW out,
             CreateObject(o, c, out) \/ UpdateObject(o, c, out) \/ DeleteObject(o)
      PROVE  Mutating(o)
  <2>1. PICK new : objects' = [objects EXCEPT ![o] = new] /\ rels' = rels
      BY <1>3 DEF CreateObject, UpdateObject, DeleteObject, ObjectCreate, ObjectUpdate, ObjectRemove
  <2>2. o \in Entities /\ OthersStay(o) /\ File(o) = objects[o]
      BY <1>1, <2>1, ObjectFile
  <2>3. CASE CreateObject(o, c, out)
      BY <1>2, <2>2, <2>3 DEF CreateObject
  <2>4. CASE UpdateObject(o, c, out) \/ DeleteObject(o)
    <3>1. objects[o] # Absent
        BY <2>4 DEF UpdateObject, ObjectUpdate, DeleteObject, ObjectLoads
    <3> QED BY <1>2, <2>2, <2>4, <3>1 DEF UpdateObject, DeleteObject
  <2> QED BY <1>3, <2>3, <2>4
<1>4. ASSUME NEW r \in RelIds, NEW v, NEW note, NEW out,
             \/ CreateRelationship(r, v, out)
             \/ UpdateRelationship(r, note, out)
             \/ DeleteRelationship(r)
      PROVE  Mutating(r)
  <2>1. PICK new : rels' = [rels EXCEPT ![r] = new] /\ objects' = objects
      BY <1>4 DEF CreateRelationship, UpdateRelationship, DeleteRelationship, RelCreate, RelUpdate,
                  RelRemove
  <2>2. r \in Entities /\ OthersStay(r) /\ File(r) = rels[r]
      BY <1>1, <2>1, RelFile
  <2>3. CASE CreateRelationship(r, v, out)
      BY <1>2, <2>2, <2>3 DEF CreateRelationship
  <2>4. CASE UpdateRelationship(r, note, out) \/ DeleteRelationship(r)
    <3>1. rels[r] # Absent
        BY <2>4 DEF UpdateRelationship, RelUpdate, DeleteRelationship, RelLoads
    <3> QED BY <1>2, <2>2, <2>4, <3>1 DEF UpdateRelationship, DeleteRelationship
  <2> QED BY <1>4, <2>3, <2>4
<1>5. \A o \in ObjectIds, c \in Contents : o \in Entities /\ \A r \in RelIds : r \in Entities
    BY DEF Entities
<1>6. CASE \E o \in ObjectIds, c \in Contents, out \in SuccessfulWrites :
              CreateObject(o, c, out) \/ UpdateObject(o, c, out)
    BY <1>3, <1>6 DEF Entities
<1>7. CASE \E o \in ObjectIds : DeleteObject(o)
  <2>1. PICK o \in ObjectIds : DeleteObject(o)
      BY <1>7
  <2>2. objects[o] \in Contents
      BY <2>1 DEF DeleteObject, ObjectLoads
  <2> QED BY <1>3, <2>1, <2>2 DEF Entities
<1>8. CASE \/ \E r \in RelIds, v \in Relationships, out \in SuccessfulWrites :
                 CreateRelationship(r, v, out)
           \/ \E r \in RelIds, note \in Contents, out \in SuccessfulWrites :
                 UpdateRelationship(r, note, out)
           \/ \E r \in RelIds : DeleteRelationship(r)
    BY <1>4, <1>8 DEF Entities
<1> QED BY <1>6, <1>7, <1>8 DEF Mutate

LEMMA RuntimeShape ==
    ASSUME InstallInv, RuntimeStep
    PROVE  \/ Stays \/ Opening \/ Undoing \/ Closing
           \/ \E id \in Entities : Mutating(id)
<1>1. RollbackInv /\ TypeOK /\ NoStrandedTransaction /\ installVars' = installVars
    BY DEF InstallInv, RollbackInv, RuntimeStep
<1>2. /\ active => state = "RepositoryOpen"
      /\ log # <<>> => active
      /\ pc # "idle" => active
    BY <1>1 DEF NoStrandedTransaction
<1>3. registry' = registry
    BY <1>1 DEF installVars
<1>4. CASE Lifecycle
  <2>1. UNCHANGED <<objects, rels, issued, journal, active, tx, base, log>>
      BY <1>4 DEF Lifecycle, Initialize, OpenRepository, CloseRepository, Shutdown, NewHandle,
                  Leave, StartRollback, storeVars, txVars
  <2>2. pc = "idle" /\ pc' \in {"idle", "undo"} /\ ~UndoingInstall' /\ (state' # state => ~active)
      BY <1>2, <1>4
         DEF Lifecycle, Initialize, OpenRepository, CloseRepository, Shutdown, NewHandle,
             Leave, StartRollback, UndoingInstall, Callable
  <2> QED BY <1>3, <2>1, <2>2 DEF Stays
<1>5. CASE RefuseMutation
  <2>1. /\ UNCHANGED <<objects, rels, issued, journal, log, state>> /\ JoinOrOpen
        /\ pc \in {"idle", "batch"} /\ pc' = "undo" /\ ~UndoingInstall'
      BY <1>5 DEF RefuseMutation, StartRollback, storeVars, Callable, BatchItem, UndoingInstall
  <2>2. CASE active
      BY <1>3, <2>1, <2>2 DEF Stays, JoinOrOpen
  <2>3. CASE ~active
      BY <1>2, <1>3, <2>1, <2>3 DEF Opening, JoinOrOpen
  <2> QED BY <2>2, <2>3
<1>6. CASE Mutate /\ ~RefuseMutation
    BY <1>1, <1>6, MutationShape
<1>7. CASE BeginTransaction
    BY <1>2, <1>3, <1>7 DEF BeginTransaction, Opening, Callable, UndoingInstall, storeVars
<1>8. ASSUME NEW out \in JournalOutcomes,
             CommitTransaction(out) \/ CommitImplicit(out) \/ FinishBatch(out) \/ FinishRollback(out)
      PROVE  Stays \/ Closing
  <2>1. UNCHANGED <<objects, rels, issued, tx, base>>
      BY <1>8 DEF CommitTransaction, CommitImplicit, FinishBatch, FinishRollback, storeVars
  <2>2. CASE CommitTransaction(out) \/ CommitImplicit(out)
    <3>1. JournalWrite("Committed", out) /\ "Committed" \in Verdicts
        BY <2>2 DEF CommitTransaction, CommitImplicit, Verdicts
    <3>2. pc \in {"idle", "commit"} /\ pc' = "idle" /\ active /\ ~active' /\ log' = <<>>
        BY <1>2, <2>2 DEF CommitTransaction, CommitImplicit, Callable
    <3> QED BY <1>3, <2>1, <3>1, <3>2 DEF Closing
  <2>3. CASE FinishBatch(out)
    <3>1. pc = "batch" /\ pc' = "idle" /\ active /\ state' = state
        BY <1>2, <2>3 DEF FinishBatch
    <3>2. CASE batch.own
      <4>1. JournalWrite("Committed", out) /\ "Committed" \in Verdicts /\ ~active' /\ log' = <<>>
          BY <2>3, <3>2 DEF FinishBatch, Verdicts
      <4> QED BY <1>3, <2>1, <3>1, <4>1 DEF Closing
    <3>3. CASE ~batch.own
      <4>1. UNCHANGED <<active, log, journal>>
          BY <2>3, <3>3 DEF FinishBatch
      <4> QED BY <1>3, <2>1, <3>1, <4>1 DEF Stays, UndoingInstall
    <3> QED BY <3>2, <3>3
  <2>4. CASE FinishRollback(out)
    <3>1. PICK verdict \in Verdicts :
             /\ verdict = IF undoComplete THEN "RolledBack" ELSE "Failed"
             /\ JournalWrite(verdict, out)
        BY <2>4 DEF FinishRollback, Verdicts
    <3>2. pc = "undo" /\ pc' = "idle" /\ active /\ ~active' /\ log = <<>> /\ log' = <<>>
        BY <1>2, <2>4 DEF FinishRollback
    <3> QED BY <1>3, <2>1, <3>1, <3>2 DEF Closing
  <2> QED BY <1>8, <2>2, <2>3, <2>4
<1>9. CASE RollbackTransaction
    BY <1>3, <1>9 DEF RollbackTransaction, StartRollback, Stays, Callable, UndoingInstall, storeVars
<1>10. ASSUME NEW kind, NEW n, StartBatch(kind, n) PROVE Stays \/ Opening
  <2>1. /\ UNCHANGED <<objects, rels, issued, journal, state>> /\ JoinOrOpen
        /\ pc = "idle" /\ pc' = "batch" /\ ~UndoingInstall'
        /\ log' = IF active THEN log ELSE <<>>
      BY <1>10 DEF StartBatch, storeVars, Callable, UndoingInstall
  <2>2. CASE active
      BY <1>3, <2>1, <2>2 DEF Stays, JoinOrOpen
  <2>3. CASE ~active
      BY <1>2, <1>3, <2>1, <2>3 DEF Opening, JoinOrOpen
  <2> QED BY <2>2, <2>3
<1>11. CASE Transact
    BY <1>7, <1>8, <1>9, <1>10, <1>11 DEF Transact
<1>12. CASE Continue
    BY <1>3, <1>8, <1>12 DEF Continue, Undoing
<1> QED BY <1>4, <1>5, <1>6, <1>11, <1>12 DEF RuntimeStep

LEMMA InstallShape ==
    ASSUME InstallInv, InstallStep
    PROVE  Stays \/ Recording \/ \E id \in Entities : Creating(id)
<1>1. RollbackInv /\ StoresTypeOK /\ active
    BY DEF InstallInv, RollbackInv, TypeOK, NoStrandedTransaction, InstallStep, InstallObject,
           InstallRelationship, RecordInstall, RefuseItem, RefuseRecord
<1>2. ASSUME NEW id \in Entities, NEW kind, LogMutation(kind, id, Absent), pc = "install",
             OthersStay(id), File(id) = Absent, issued' = issued \cup {id}, UNCHANGED installVars
      PROVE  Creating(id)
  <2>1. pc' = "install" /\ UNCHANGED <<active, tx, base, journal, state>> /\ Logs(id)
      BY <1>1, <1>2 DEF LogMutation, JoinOrOpen, Logs
  <2> QED BY <1>2, <2>1 DEF Creating, installVars
<1>3. ASSUME NEW out, InstallObject(out)
      PROVE  \E id \in Entities : Creating(id)
  <2>1. PICK o \in IdsFor(NextItem, ObjectIds) :
            /\ ObjectCreate(o, NextItem.value, out)
            /\ LogMutation("ObjectCreated", o, Absent)
            /\ issued' = issued \cup {o}
      BY <1>3 DEF InstallObject
  <2>2. o \in ObjectIds
      BY <1>3, <2>1 DEF InstallObject, IdsFor, ObjectItems
  <2>3. objects' = [objects EXCEPT ![o] = Written(NextItem.value, out)] /\ rels' = rels
      BY <2>1 DEF ObjectCreate
  <2>4. o \in Entities /\ OthersStay(o) /\ File(o) = objects[o]
      BY <1>1, <2>2, <2>3, ObjectFile
  <2> QED BY <1>2, <1>3, <2>1, <2>4 DEF InstallObject, ObjectCreate
<1>4. ASSUME NEW out, InstallRelationship(out)
      PROVE  \E id \in Entities : Creating(id)
  <2>1. PICK r \in IdsFor(NextItem, RelIds) :
            /\ RelCreate(r, NextItem.value, out)
            /\ LogMutation("RelationshipCreated", r, Absent)
            /\ issued' = issued \cup {r}
      BY <1>4 DEF InstallRelationship
  <2>2. r \in RelIds
      BY <1>4, <2>1 DEF InstallRelationship, IdsFor, RelItems
  <2>3. rels' = [rels EXCEPT ![r] = Written(NextItem.value, out)] /\ objects' = objects
      BY <2>1 DEF RelCreate
  <2>4. r \in Entities /\ OthersStay(r) /\ File(r) = rels[r]
      BY <1>1, <2>2, <2>3, RelFile
  <2> QED BY <1>2, <1>4, <2>1, <2>4 DEF InstallRelationship, RelCreate, RelFits
<1>5. CASE RefuseItem \/ RefuseRecord
  <2>1. pc = "install" /\ AbandonInstall
      BY <1>5 DEF RefuseItem, RefuseRecord
  <2> QED BY <2>1 DEF AbandonInstall, StartRollback, Stays, storeVars, UndoingInstall
<1> QED BY <1>3, <1>4, <1>5 DEF InstallStep, Recording

LEMMA StepShape ==
    ASSUME InstallInv, InstallNext
    PROVE  \/ Quiet \/ Stays \/ Opening \/ Undoing \/ Closing \/ Recording \/ CrashInInstall
           \/ \E id \in Entities : Mutating(id) \/ Creating(id)
<1>1. ASSUME NEW p \in Packages, NEW f, StartInstall(p, f) PROVE Opening
  <2>1. log = <<>>
      BY <1>1 DEF StartInstall, InstallInv, RollbackInv, NoStrandedTransaction
  <2> QED BY <1>1, <2>1 DEF StartInstall, Opening, Callable, UndoingInstall, storeVars
<1> QED BY <1>1, RuntimeShape, InstallShape, TellingIsQuiet DEF InstallNext, Telling
-----------------------------------------------------------------------------
(* The files a transaction knows of: there now, there when it was opened,  *)
(* or named by its undo log.                                               *)

Known(id) == File(id) # Absent \/ (active /\ BaseFile(id) # Absent) \/ InLog(id)

LEMMA LoggedOne ==
    ASSUME TypeOK, NEW id, Logs(id), NEW x
    PROVE  InLog(x)' <=> InLog(x) \/ x = id
<1>1. \E e : \E n \in Nat : log' = Append(log, e) /\ e.id = id /\ n = Len(log)
  <2>1. PICK kind, before : log' = Append(log, [kind |-> kind, id |-> id, before |-> before])
      BY DEF Logs
  <2>2. Len(log) \in Nat
      BY DEF TypeOK
  <2> QED BY <2>1, <2>2
<1>2. PICK e : \E n \in Nat : log' = Append(log, e) /\ e.id = id /\ n = Len(log)
    BY <1>1
<1>n. PICK n \in Nat : log' = Append(log, e) /\ e.id = id /\ n = Len(log)
    BY <1>2
<1>3. /\ Len(log') = n + 1 /\ log'[n + 1] = e
      /\ \A i \in 1..n : log'[i] = log[i]
    BY <1>n DEF TypeOK
<1>4. \A i \in 1..(n + 1) : i \in 1..n \/ i = n + 1
    BY <1>n
<1> QED BY <1>n, <1>3, <1>4 DEF InLog

LEMMA UndoneOne ==
    ASSUME TypeOK, NEW out, UndoLast(out)
    PROVE  /\ LastEntry \in LogEntries /\ LastEntry.id \in Entities
           /\ InLog(LastEntry.id)
           /\ \A x : InLog(x) => InLog(x)' \/ x = LastEntry.id
           /\ \A x : InLog(x)' => \E i \in 1..(Len(log) - 1) : log[i].id = x
<1>1. log \in Seq(LogEntries) /\ log # <<>> /\ log' = SubSeq(log, 1, Len(log) - 1)
    BY DEF TypeOK, UndoLast
<1>2. PICK n \in Nat : n = Len(log)
    BY <1>1
<1>3. n # 0 /\ LastEntry = log[n]
    BY <1>1, <1>2 DEF LastEntry
<1>4. Len(log') = n - 1 /\ \A i \in 1..(n - 1) : log'[i] = log[i]
    BY <1>1, <1>2, <1>3, FrontOfLog
<1>5. LastEntry \in LogEntries /\ LastEntry.id \in Entities
    BY <1>1, <1>2, <1>3 DEF LogEntries, ObjectEntries, RelEntries, Entities
<1>6. \A i \in 1..n : i \in 1..(n - 1) \/ i = n
    BY <1>3
<1>7. InLog(LastEntry.id)
    BY <1>2, <1>3 DEF InLog
<1>8. \A x : InLog(x) => InLog(x)' \/ x = LastEntry.id
    BY <1>2, <1>3, <1>4, <1>6 DEF InLog
<1>9. \A x : InLog(x)' => \E i \in 1..(n - 1) : log[i].id = x
    BY <1>4 DEF InLog
<1> QED BY <1>2, <1>5, <1>7, <1>8, <1>9

\* An undo touches the file of its entry only.
LEMMA UndoneFile ==
    ASSUME TypeOK, NEW out, UndoLast(out), NEW x \in Entities, x # LastEntry.id
    PROVE  File(x)' = File(x)
<1>1. PICK e \in LogEntries : e = LastEntry
    BY UndoneOne
<1>2. CASE UNCHANGED storeVars
    BY <1>2 DEF File, storeVars
<1>3. CASE UndoEffect(LastEntry, out)
  <2>1. \/ e.id \in ObjectIds /\ rels' = rels /\ \E new : objects' = [objects EXCEPT ![e.id] = new]
        \/ e.id \in RelIds /\ objects' = objects /\ \E new : rels' = [rels EXCEPT ![e.id] = new]
      BY <1>1, <1>3
         DEF UndoEffect, ObjectRemove, ObjectUpdate, ObjectRestore, RelRemove, RelUpdate, RelRestore,
             LogEntries, ObjectEntries, RelEntries
  <2>2. OthersStay(e.id)
      BY <2>1, ObjectFile, RelFile DEF TypeOK
  <2> QED BY <1>1, <2>2 DEF OthersStay
<1> QED BY <1>2, <1>3 DEF UndoLast

\* A file comes to be known only when it is created: under an id of its own by a
\* mutation, or by an install.
LEMMA KnownStep ==
    ASSUME InstallInv, InstallNext, NEW id \in Entities, Known(id)', ~Known(id)
    PROVE  Creating(id) \/ (Mutating(id) /\ id \notin issued)
<1>1. TypeOK /\ NoStrandedTransaction
    BY DEF InstallInv, RollbackInv
<1>2. ASSUME UNCHANGED <<objects, rels>>
      PROVE  File(id)' = Absent
    BY <1>2 DEF File, Known
<1>3. ASSUME JoinOrOpen
      PROVE  ~(active' /\ BaseFile(id)' # Absent)
  <2>1. CASE active
      BY <1>3, <2>1 DEF JoinOrOpen, BaseFile, Known
  <2>2. CASE ~active
      BY <1>3, <2>2 DEF JoinOrOpen, OpenTransaction, BaseFile, Snapshot, File, Known
  <2> QED BY <2>1, <2>2
<1>4. ASSUME log' = <<>> PROVE ~InLog(id)'
    BY <1>4 DEF InLog
<1>5. CASE Quiet \/ Stays
    BY <1>2, <1>5 DEF Quiet, Stays, Known, InLog, BaseFile
<1>6. CASE Opening
    BY <1>2, <1>3, <1>4, <1>6 DEF Opening, JoinOrOpen, Known
<1>7. CASE Undoing
  <2>1. PICK out : UndoLast(out)
      BY <1>7 DEF Undoing
  <2>2. \A x : InLog(x)' => InLog(x)
    <3>1. \A i \in 1..(Len(log) - 1) : i \in 1..Len(log)
        BY <1>1 DEF TypeOK
    <3> QED BY <1>1, <2>1, <3>1, UndoneOne DEF InLog
  <2>3. File(id)' = File(id)
      BY <1>1, <2>1, UndoneOne, UndoneFile DEF Known
  <2> QED BY <2>1, <2>2, <2>3 DEF Known, UndoLast, BaseFile
<1>8. CASE Closing
    BY <1>2, <1>4, <1>8 DEF Closing, Known
<1>9. CASE Recording
  <2>1. UNCHANGED <<objects, rels, active, base, log>>
      BY <1>9 DEF Recording, RecordInstall, storeVars, txVars
  <2> QED BY <2>1 DEF Known, File, BaseFile, InLog
<1>10. CASE CrashInInstall
    BY <1>2, <1>4, <1>10 DEF CrashInInstall, Crash, LoseEvent, Known
<1>11. ASSUME NEW x \in Entities, Mutating(x)
       PROVE  x = id /\ id \notin issued
  <2>1. ASSUME x # id PROVE FALSE
    <3>1. File(id)' = File(id)
        BY <1>11, <2>1 DEF Mutating, OthersStay
    <3>2. ~InLog(id)'
        BY <1>1, <1>11, <2>1, LoggedOne DEF Mutating, Known
    <3> QED BY <1>3, <1>11, <3>1, <3>2 DEF Mutating, Known
  <2> QED BY <1>11, <2>1 DEF Mutating, Known
<1>12. ASSUME NEW x \in Entities, Creating(x)
       PROVE  x = id
  <2>1. SUFFICES ASSUME x # id PROVE FALSE
      OBVIOUS
  <2>2. File(id)' = File(id)
      BY <1>12, <2>1 DEF Creating, OthersStay
  <2>3. ~InLog(id)'
      BY <1>1, <1>12, <2>1, LoggedOne DEF Creating, Known
  <2> QED BY <1>12, <2>2, <2>3 DEF Creating, Known, BaseFile
<1> QED BY <1>5, <1>6, <1>7, <1>8, <1>9, <1>10, <1>11, <1>12, StepShape

\* What a running install has created is its own until the install ends.
Own(id) == (pc = "install" \/ UndoingInstall) /\ InLog(id)

\* An undo of an install that succeeds takes a file of its own away.
LEMMA OwnUndone ==
    ASSUME InstallInv, UndoingInstall, NEW out \in WriteOutcomes, UndoLast(out), undoComplete',
           NEW id, id = LastEntry.id
    PROVE  ~Known(id)'
<1>1. TypeOK /\ InstallOnlyCreates /\ FirstHoldsBase
    BY DEF InstallInv, RollbackInv
<1>2. PICK e \in LogEntries : e = LastEntry /\ e.id \in Entities
    BY <1>1, UndoneOne
<1>3. PICK n \in Nat : n = Len(log) /\ n # 0 /\ LastEntry = log[n]
  <2>1. Len(log) \in Nat /\ Len(log) # 0
      BY <1>1 DEF TypeOK, UndoLast
  <2> QED BY <2>1 DEF LastEntry
<1>4. e.kind \in {"ObjectCreated", "RelationshipCreated"}
    BY <1>1, <1>2, <1>3 DEF InstallOnlyCreates
<1>5. \A i \in 1..(n - 1) : log[i].id # e.id
    BY <1>1, <1>2, <1>3 DEF InstallOnlyCreates
<1>6. ~InLog(e.id)'
    BY <1>1, <1>2, <1>3, <1>5, UndoneOne
<1>7. BaseFile(e.id)' = Absent
  <2>1. FirstFor(n)
      BY <1>2, <1>3, <1>5 DEF FirstFor
  <2>2. e.before = BaseFile(e.id)
      BY <1>1, <1>2, <1>3, <2>1 DEF FirstHoldsBase
  <2>3. e.before = Absent
      BY <1>4 DEF LogEntries, ObjectEntries, RelEntries
  <2> QED BY <2>2, <2>3 DEF UndoLast, BaseFile
<1>8. File(e.id)' = Absent
  <2>1. UndoEffect(e, out)
      BY <1>2 DEF UndoLast
  <2>2. CASE e.kind = "ObjectCreated"
    <3>1. e.id \in ObjectIds
        BY <2>2 DEF LogEntries, ObjectEntries, RelEntries
    <3>2. objects' = [objects EXCEPT ![e.id] = Absent] /\ rels' = rels
        BY <2>1, <2>2 DEF UndoEffect, ObjectRemove
    <3> QED BY <1>1, <3>1, <3>2, ObjectFile DEF TypeOK
  <2>3. CASE e.kind = "RelationshipCreated"
    <3>1. e.id \in RelIds
        BY <2>3 DEF LogEntries, ObjectEntries, RelEntries
    <3>2. rels' = [rels EXCEPT ![e.id] = Absent] /\ objects' = objects
        BY <2>1, <2>3 DEF UndoEffect, RelRemove
    <3> QED BY <1>1, <3>1, <3>2, RelFile DEF TypeOK
  <2> QED BY <1>4, <2>2, <2>3
<1> QED BY <1>2, <1>6, <1>7, <1>8 DEF Known

LEMMA OwnStep ==
    ASSUME InstallInv, InstallNext, NEW id \in Entities, Own(id), ~Own(id)'
    PROVE  Recording \/ CrashInInstall \/ ~undoComplete' \/ ~Known(id)'
<1>1. TypeOK
    BY DEF InstallInv, RollbackInv
<1>2. CASE Quiet \/ Stays
    BY <1>2 DEF Quiet, Stays, Own, UndoingInstall, InLog
<1>3. CASE Opening \/ Closing \/ \E x \in Entities : Mutating(x)
  <2>1. pc = "undo" /\ log = <<>>
      BY <1>3 DEF Opening, Closing, Mutating, Own, UndoingInstall
  <2> QED BY <2>1 DEF Own, InLog
<1>4. ASSUME NEW x, Creating(x) PROVE FALSE
    BY <1>1, <1>4, LoggedOne DEF Creating, Own
<1>5. CASE Undoing
  <2>1. PICK out \in WriteOutcomes : UndoLast(out)
      BY <1>5 DEF Undoing
  <2>2. UndoingInstall /\ (UndoingInstall' <=> UndoingInstall)
      BY <2>1 DEF Own, UndoLast, UndoingInstall
  <2>3. id = LastEntry.id
      BY <1>1, <2>1, <2>2, UndoneOne DEF Own
  <2> QED BY <2>1, <2>2, <2>3, OwnUndone
<1> QED BY <1>2, <1>3, <1>4, <1>5, StepShape

-----------------------------------------------------------------------------
(* What the registry says of the files, and the runtime of the registry.   *)

\* No transaction but the open one is without a record that says what it did.
Clean == \A t \in 1..tx : journal[t] \in {"Committed", "RolledBack"} \/ (t = tx /\ active)

Unwritten ==
    /\ active => tx # 0
    /\ \A t \in Transactions : t > tx \/ (t = tx /\ active) => journal[t] = "None"

\* The package that brought a file has an entry, which lists it or cannot be read.
Claimed(id) ==
    LET p == contributor[id]
    IN  p # Nobody => registry[p] # Absent /\ (Readable(p) => Claims(p, id))

\* Every file somebody may see again is claimed by the package that brought it, or
\* is still in the hands of the running install.
ClaimInv ==
    /\ Unwritten
    /\ Clean /\ undoComplete => \A id \in Entities : Known(id) => Claimed(id) \/ Own(id)

\* What an install has created is its package's, and no entry lists anything else.
VouchInv ==
    /\ contributor \in [Entities -> Packages \cup {Nobody}]
    /\ pc # "install" => installing = Nobody
    /\ pc = "install" => \A id \in Entities : InLog(id) => contributor[id] = installing
    /\ \A id \in Entities : contributor[id] # Nobody => id \in issued
    /\ \A p \in Packages : Readable(p) => \A id \in registry[p].ids : contributor[id] # Nobody

\* Only an install makes a file somebody else's.
LEMMA ContributorStep ==
    ASSUME InstallInv, VouchInv, InstallNext, Contribute,
           NEW x \in Entities, contributor'[x] # contributor[x]
    PROVE  Creating(x) /\ contributor'[x] = installing
<1>1. File(x) = Absent /\ File(x)' # Absent /\ pc # "undo" /\ contributor'[x] = installing
    BY DEF Contribute
<1>2. ASSUME UNCHANGED <<objects, rels>> PROVE FALSE
    BY <1>1, <1>2 DEF File
<1>3. ~(Quiet \/ Stays \/ Opening \/ Closing)
    BY <1>2 DEF Quiet, Stays, Opening, Closing
<1>4. ~Undoing
    BY <1>1 DEF Undoing, UndoLast
<1>5. ~Recording
    BY <1>2 DEF Recording, RecordInstall, storeVars
<1>6. ~CrashInInstall
    BY <1>2 DEF CrashInInstall, Crash, LoseEvent
<1>7. ASSUME NEW y \in Entities, Mutating(y) PROVE FALSE
  <2>1. x = y
      BY <1>1, <1>7 DEF Mutating, OthersStay
  <2>2. contributor[x] = Nobody /\ installing = Nobody
      BY <1>1, <1>7, <2>1 DEF Mutating, VouchInv
  <2> QED BY <1>1, <2>2
<1>8. ASSUME NEW y \in Entities, Creating(y) PROVE x = y
    BY <1>1, <1>8 DEF Creating, OthersStay
<1> QED BY <1>1, <1>3, <1>4, <1>5, <1>6, <1>7, <1>8, StepShape

LEMMA InstallingStep ==
    ASSUME InstallInv, VouchInv, InstallNext
    PROVE  /\ pc' # "install" => installing' = Nobody
           /\ pc' = "install" => log' = <<>> \/ Quiet \/ \E id \in Entities : Creating(id)
<1>1. RollbackInv
    BY DEF InstallInv
<1>2. CASE RuntimeStep
  <2>1. pc' # "install"
      BY <1>1, <1>2, RuntimeStepLeaves
  <2>2. pc # "install"
    <3>1. Stays => pc # "install"
      <4>1. UndoingInstall' => UndoingInstall
          BY <1>1, <1>2, RuntimeStepUndoing
      <4> QED BY <4>1 DEF Stays, UndoingInstall
    <3> QED BY <1>2, <3>1, RuntimeShape DEF Opening, Undoing, UndoLast, Closing, Mutating
  <2> QED BY <1>2, <2>1, <2>2 DEF RuntimeStep, installVars, VouchInv
<1>3. CASE CrashInInstall
    BY <1>3 DEF CrashInInstall, Crash
<1>4. CASE \E p \in Packages, f \in Fragments : StartInstall(p, f)
    BY <1>4 DEF StartInstall
<1>5. CASE InstallStep
  <2>1. CASE \E id \in Entities : Creating(id)
      BY <2>1 DEF Creating
  <2>2. CASE Stays
    <3>1. pc' # "install"
        BY <2>2 DEF Stays
    <3>2. pc = "install" /\ active
        BY <1>1, <1>5 DEF InstallStep, InstallObject, InstallRelationship, RecordInstall, RefuseItem,
                    RefuseRecord, RollbackInv, NoStrandedTransaction
    <3>3. installing' = Nobody
        BY <1>5, <3>1, <3>2
           DEF InstallStep, InstallObject, InstallRelationship, LogMutation, RecordInstall, RefuseItem,
               RefuseRecord, AbandonInstall
    <3> QED BY <3>1, <3>3
  <2>3. CASE Recording
      BY <2>3 DEF Recording, RecordInstall
  <2> QED BY <1>5, <2>1, <2>2, <2>3, InstallShape
<1>6. CASE Telling
    BY <1>6, TellingIsQuiet DEF Quiet, VouchInv
<1> QED BY <1>2, <1>3, <1>4, <1>5, <1>6 DEF InstallNext, Telling

\* The registry entry of an install: what it has created.
LEMMA RecordingStep ==
    ASSUME InstallInv, Recording
    PROVE  /\ pc = "install" /\ pc' = "commit" /\ installing \in Packages
           /\ UNCHANGED <<objects, rels, active, tx, base, log, journal, issued, undoComplete>>
           /\ \A p \in Packages : p # installing => registry'[p] = registry[p]
           /\ \A p \in Packages : p = installing =>
                 /\ registry[p] = Absent /\ registry'[p] # Absent
                 /\ Readable(p)' =>
                        \A id \in Entities : InLog(id) <=> id \in registry'[p].ids
<1> DEFINE ids == {log[i].id : i \in 1..Len(log)}
<1>1. PICK out \in RegistryOutcomes \ {"failed"} : RecordInstall(out)
    BY DEF Recording
<1>2. InstallTypeOK /\ pc = "install"
    BY <1>1 DEF InstallInv, RecordInstall
<1>3. /\ installing \in Packages
      /\ registry \in [Packages -> RegistryEntries \cup {Absent, Torn}]
    BY <1>2 DEF InstallTypeOK
<1>4. /\ registry[installing] = Absent
      /\ registry' = [registry EXCEPT ![installing] = Written([ids |-> ids], out)]
    BY <1>1 DEF RecordInstall, RecordEntry
<1>5. registry'[installing] \in {[ids |-> ids], Torn}
    BY <1>3, <1>4 DEF Written
<1>6. ids \subseteq Entities
  <2>1. \A i \in 1..Len(log) : log[i] \in LogEntries
      BY DEF InstallInv, RollbackInv, TypeOK
  <2> QED BY <2>1 DEF LogEntries, ObjectEntries, RelEntries, Entities
<1>7. [ids |-> ids] \in RegistryEntries
    BY <1>6 DEF RegistryEntries
<1>8. \A id \in Entities : InLog(id) <=> id \in ids
    BY DEF InLog
<1>9. Torn \notin RegistryEntries /\ Torn # Absent /\ Absent \notin RegistryEntries
    OBVIOUS
<1> HIDE DEF ids
<1>10. ASSUME NEW p \in Packages, p = installing, Readable(p)' PROVE registry'[p].ids = ids
    BY <1>5, <1>9, <1>10 DEF Readable
<1>11. /\ pc' = "commit"
       /\ UNCHANGED <<objects, rels, active, tx, base, log, journal, issued, undoComplete>>
    BY <1>1 DEF RecordInstall, storeVars, txVars
<1>12. \A p \in Packages : p # installing => registry'[p] = registry[p]
    BY <1>3, <1>4
<1>13. ASSUME NEW p \in Packages, p = installing
       PROVE  /\ registry[p] = Absent /\ registry'[p] # Absent
              /\ Readable(p)' => \A id \in Entities : InLog(id) <=> id \in registry'[p].ids
  <2>1. registry[p] = Absent /\ registry'[p] # Absent
      BY <1>4, <1>5, <1>7, <1>9, <1>13
  <2>2. Readable(p)' => registry'[p].ids = ids
      BY <1>10, <1>13
  <2> QED BY <1>8, <2>1, <2>2
<1> QED BY <1>2, <1>3, <1>11, <1>12, <1>13

LEMMA IssuedGrows ==
    ASSUME InstallInv, InstallNext
    PROVE  issued \subseteq issued'
<1>1. Undoing => issued' = issued
    BY DEF Undoing, UndoLast
<1>2. Recording => issued' = issued
    BY RecordingStep
<1>3. CrashInInstall => issued' = issued
    BY DEF CrashInInstall, Crash
<1> QED BY <1>1, <1>2, <1>3, StepShape DEF Quiet, Stays, Opening, Closing, Mutating, Creating

LEMMA VouchStep ==
    ASSUME InstallInv, InstallInv', VouchInv, [QueriesNext]_qvars
    PROVE  VouchInv'
<1>1. CASE UNCHANGED qvars
    BY <1>1 DEF qvars, ivars, vars, storeVars, txVars, callVars, installVars, VouchInv, InLog, Readable
<1>2. CASE QueriesNext
  <2>1. InstallNext /\ Contribute /\ TypeOK
      BY <1>2 DEF QueriesNext, InstallInv, RollbackInv
  <2>2. installing \in Packages \cup {Nobody} /\ (pc = "install" => installing \in Packages)
      BY DEF InstallInv, InstallTypeOK
  <2>3. Nobody \notin Packages
      OBVIOUS
  <2>4. contributor' \in [Entities -> Packages \cup {Nobody}]
      BY <2>1, <2>2 DEF Contribute, VouchInv
  <2>5. pc' # "install" => installing' = Nobody
      BY <2>1, InstallingStep
  <2>6. ASSUME pc' = "install", NEW id \in Entities, InLog(id)'
        PROVE  contributor'[id] = installing'
    <3>1. log' # <<>>
        BY <2>6 DEF InLog
    <3>2. ASSUME NEW x \in Entities, Creating(x)
          PROVE  installing' = installing /\ pc = "install" /\ (InLog(id) \/ id = x)
        BY <2>1, <2>6, <3>2, LoggedOne DEF Creating
    <3>3. CASE Creating(id)
      <4>1. File(id)' # Absent
          BY <2>6 DEF InstallInv, InstallOnlyCreates, InLog
      <4>2. File(id) = Absent /\ pc # "undo"
          BY <3>3 DEF Creating
      <4> QED BY <2>1, <3>2, <3>3, <4>1, <4>2 DEF Contribute
    <3>4. CASE Quiet
      <4>1. installing' = installing /\ pc = "install" /\ InLog(id)
          BY <2>6, <3>4 DEF Quiet, InLog
      <4> QED BY <2>1, <4>1, ContributorStep DEF VouchInv
    <3>5. CASE installing' = installing /\ pc = "install" /\ InLog(id)
        BY <2>1, <3>5, ContributorStep DEF VouchInv
    <3> QED BY <2>1, <2>6, <3>1, <3>2, <3>3, <3>4, <3>5, InstallingStep
  <2>7. ASSUME NEW id \in Entities, contributor'[id] # Nobody
        PROVE  id \in issued'
    <3>1. CASE contributor'[id] = contributor[id]
        BY <2>1, <2>7, <3>1, IssuedGrows DEF VouchInv
    <3>2. CASE contributor'[id] # contributor[id]
        BY <2>1, <3>2, ContributorStep DEF Creating
    <3> QED BY <3>1, <3>2
  <2>8. ASSUME NEW id \in Entities, contributor[id] # Nobody
        PROVE  contributor'[id] # Nobody
    <3>1. CASE contributor'[id] # contributor[id]
        BY <2>1, <2>2, <2>3, <3>1, ContributorStep DEF Creating
    <3> QED BY <2>8, <3>1
  <2>9. ASSUME NEW p \in Packages, Readable(p)', NEW id \in registry'[p].ids
        PROVE  contributor'[id] # Nobody
    <3>1. id \in Entities
        BY <2>9 DEF Readable, RegistryEntries
    <3>2. CASE registry'[p] = registry[p]
        BY <2>8, <2>9, <3>1, <3>2 DEF VouchInv, Readable
    <3>3. CASE registry'[p] # registry[p]
      <4>1. Recording
          BY <2>1, <3>3, RegisteredWholeStep DEF Recording
      <4>2. p = installing /\ InLog(id) /\ pc = "install"
          BY <2>9, <3>1, <3>3, <4>1, RecordingStep
      <4>3. contributor[id] # Nobody
          BY <2>3, <3>1, <4>2 DEF VouchInv
      <4> QED BY <2>8, <3>1, <4>3
    <3> QED BY <3>2, <3>3
  <2> QED BY <2>4, <2>5, <2>6, <2>7, <2>9 DEF VouchInv
<1> QED BY <1>1, <1>2

LEMMA UnwrittenStep ==
    ASSUME InstallInv, Unwritten, InstallNext
    PROVE  Unwritten'
<1>1. tx \in 0..MaxTransactions /\ journal \in [Transactions -> Verdicts] /\ MaxTransactions \in Nat
    BY DEF InstallInv, RollbackInv, TypeOK
<1>2. PICK n \in Nat : n = tx
    BY <1>1
<1>3. CASE UNCHANGED <<active, tx, journal>>
    BY <1>3 DEF Unwritten
<1>4. CASE OpenTransaction /\ UNCHANGED journal
    BY <1>1, <1>2, <1>4 DEF OpenTransaction, Unwritten, Transactions
<1>5. CASE Closing
    BY <1>1, <1>2, <1>5 DEF Closing, JournalWrite, Unwritten, Transactions
<1>6. Quiet \/ Stays \/ Undoing \/ Recording \/ (\E id \in Entities : Creating(id)) =>
        UNCHANGED <<active, tx, journal>>
    BY RecordingStep DEF Quiet, Stays, Undoing, UndoLast, Creating
<1>7. Opening \/ (\E id \in Entities : Mutating(id)) =>
        (OpenTransaction /\ UNCHANGED journal) \/ UNCHANGED <<active, tx, journal>>
    BY DEF Opening, Mutating, JoinOrOpen
<1>8. CASE CrashInInstall
    BY <1>8 DEF CrashInInstall, Crash, Unwritten
<1> QED BY <1>3, <1>4, <1>5, <1>6, <1>7, <1>8, StepShape

\* A record that says a transaction was rolled back is written only when all of it was.
LEMMA CleanStep ==
    ASSUME InstallInv, Unwritten, InstallNext, Clean', undoComplete'
    PROVE  Clean /\ undoComplete /\ (CrashInInstall => ~active)
<1>1. /\ tx \in 0..MaxTransactions /\ journal \in [Transactions -> Verdicts]
      /\ MaxTransactions \in Nat
      /\ pc # "undo" => undoComplete
      /\ pc # "idle" => active
    BY DEF InstallInv, RollbackInv, TypeOK, NoStrandedTransaction
<1>2. PICK n \in Nat : n = tx
    BY <1>1
<1>3. \A t \in 1..n : t \in Transactions
    BY <1>1, <1>2 DEF Transactions
<1>4. UNCHANGED <<active, tx, journal>> => Clean
    BY DEF Clean
<1>5. OpenTransaction /\ ~active /\ UNCHANGED journal => Clean
    BY <1>2 DEF OpenTransaction, Clean
<1>6. active => /\ n # 0 /\ n \in 1..n /\ journal[n] = "None"
    BY <1>1, <1>2, <1>3 DEF Unwritten, Transactions
<1>7. active /\ ~active' /\ UNCHANGED <<tx, journal>> => FALSE
    BY <1>2, <1>6 DEF Clean
<1>8. CrashInInstall => ~active
    BY <1>7 DEF CrashInInstall, Crash
<1>9. CASE Stays \/ Opening \/ \E id \in Entities : Mutating(id)
  <2>1. pc # "undo"
      BY <1>9 DEF Stays, Opening, Mutating
  <2>2. \/ UNCHANGED <<active, tx, journal>>
        \/ OpenTransaction /\ ~active /\ UNCHANGED journal
      BY <1>9 DEF Stays, Opening, Mutating, JoinOrOpen
  <2> QED BY <1>1, <1>4, <1>5, <1>8, <2>1, <2>2
<1>10. CASE Recording \/ \E id \in Entities : Creating(id)
  <2>1. pc # "undo" /\ UNCHANGED <<active, tx, journal>>
      BY <1>10, RecordingStep DEF Creating
  <2> QED BY <1>1, <1>4, <1>8, <2>1
<1>11. CASE Undoing
    BY <1>4, <1>8, <1>11 DEF Undoing, UndoLast
<1>12. CASE Closing
  <2>1. PICK verdict \in Verdicts, out \in JournalOutcomes :
           /\ JournalWrite(verdict, out)
           /\ pc = "undo" /\ verdict \in {"Committed", "RolledBack"} => undoComplete
      BY <1>12 DEF Closing
  <2>2. active /\ ~active' /\ tx' = n
      BY <1>2, <1>12 DEF Closing
  <2>3. \A t \in 1..n : t # n => journal'[t] = journal[t]
      BY <1>1, <1>2, <2>1 DEF JournalWrite
  <2>4. \A t \in 1..n : journal'[t] \in {"Committed", "RolledBack"}
      BY <2>2 DEF Clean
  <2>5. Clean
      BY <1>2, <2>2, <2>3, <2>4 DEF Clean
  <2>6. verdict \in {"Committed", "RolledBack"}
      BY <1>1, <1>2, <1>3, <1>6, <2>1, <2>2, <2>4 DEF JournalWrite
  <2> QED BY <1>1, <1>8, <2>1, <2>5, <2>6
<1>13. CASE CrashInInstall
  <2>1. ~active /\ UNCHANGED <<active, tx, journal>>
    <3>1. active \in BOOLEAN
        BY DEF InstallInv, RollbackInv, TypeOK
    <3> QED BY <1>8, <1>13, <3>1 DEF CrashInInstall, Crash
  <2> QED BY <1>1, <1>4, <1>8, <2>1
<1>14. CASE Quiet
  <2>1. ~(CrashInInstall /\ active)
      BY <1>8
  <2> QED BY <1>4, <1>14, <2>1 DEF Quiet
<1> QED BY <1>9, <1>10, <1>11, <1>12, <1>13, <1>14, StepShape

LEMMA ClaimStep ==
    ASSUME "torn" \notin WriteOutcomes, InstallInv, VouchInv, ClaimInv, [QueriesNext]_qvars
    PROVE  ClaimInv'
<1>1. CASE UNCHANGED qvars
    BY <1>1
       DEF qvars, ivars, vars, storeVars, txVars, callVars, installVars, ClaimInv, Unwritten, Clean,
           Known, Claimed, Own, InLog, File, BaseFile, Readable, Claims, UndoingInstall
<1>2. CASE QueriesNext
  <2>1. InstallNext /\ Contribute /\ TypeOK /\ Unwritten
      BY <1>2 DEF QueriesNext, InstallInv, RollbackInv, ClaimInv
  <2>2. Unwritten'
      BY <2>1, UnwrittenStep
  <2>3. SUFFICES ASSUME Clean', undoComplete', NEW id \in Entities, Known(id)', ~Own(id)'
                 PROVE  Claimed(id)'
      BY <2>2 DEF ClaimInv
  <2>4. Clean /\ undoComplete /\ (CrashInInstall => ~active)
      BY <2>1, <2>3, CleanStep
  <2>5. ~Creating(id)
      BY <2>1, <2>3, LoggedOne DEF Creating, Own
  <2>6. PICK p \in Packages \cup {Nobody} : p = contributor[id] /\ contributor'[id] = p
      BY <2>1, <2>5, ContributorStep DEF VouchInv
  <2>7. CASE p = Nobody
      BY <2>6, <2>7 DEF Claimed
  <2>8. CASE p # Nobody
    <3>1. p \in Packages
        BY <2>6, <2>8
    <3>2. Known(id)
        BY <2>1, <2>3, <2>5, <2>6, <2>8, KnownStep DEF VouchInv
    <3>3. CASE Recording /\ p = installing /\ Own(id)
      <4>1. InLog(id)
          BY <3>3 DEF Own
      <4>2. registry'[p] # Absent /\ (Readable(p)' => id \in registry'[p].ids)
          BY <3>1, <3>3, <4>1, RecordingStep
      <4> QED BY <2>6, <4>2 DEF Claimed, Claims, Readable
    <3>4. CASE Claimed(id)
      <4>1. registry[p] # Absent /\ (Readable(p) => id \in registry[p].ids)
          BY <2>6, <2>8, <3>4 DEF Claimed, Claims
      <4>2. registry'[p] = registry[p]
        <5>1. registry'[p] # registry[p] => Recording
            BY <2>1, <3>1, RegisteredWholeStep DEF Recording
        <5> QED BY <3>1, <4>1, <5>1, RecordingStep
      <4> QED BY <2>6, <4>1, <4>2 DEF Claimed, Claims, Readable
    <3>5. CASE Own(id)
      <4>1. Recording \/ CrashInInstall
          BY <2>1, <2>3, <3>5, OwnStep
      <4>2. CASE Recording
          BY <2>6, <3>3, <3>5, <4>2, RecordingStep DEF VouchInv, Own
      <4>3. CASE CrashInInstall
        <5>1. active
            BY <3>5 DEF Own, UndoingInstall, InstallInv, RollbackInv, NoStrandedTransaction
        <5> QED BY <2>4, <4>3, <5>1
      <4> QED BY <4>1, <4>2, <4>3
    <3> QED BY <2>3, <2>4, <3>2, <3>4, <3>5 DEF ClaimInv
  <2> QED BY <2>7, <2>8
<1> QED BY <1>1, <1>2

\* What the invariants say between calls.
LEMMA ClaimsGiveFound ==
    ASSUME InstallInv, VouchInv, ClaimInv
    PROVE  ContributorFound
<1> SUFFICES ASSUME NothingLeftBehind, AtRest, NEW id \in Entities, contributor[id] # Nobody,
                    File(id) \notin {Absent, Torn}
             PROVE  LET p == contributor[id]
                    IN  /\ registry[p] # Absent
                        /\ Readable(p) =>
                            /\ p \in FindOwner(id)
                            /\ id \in GetContents(p).objects \cup GetContents(p).rels
                            /\ id \in ObjectIds => p \in SearchInstalled(objects[id])
    BY DEF ContributorFound
<1>1. PICK p \in Packages : p = contributor[id]
    BY DEF VouchInv
<1>2. Clean /\ undoComplete /\ ~Own(id)
    BY DEF NothingLeftBehind, AtRest, Clean, InstallInv, RollbackInv, Own, UndoingInstall
<1>3. registry[p] # Absent /\ (Readable(p) => Claims(p, id))
    BY <1>1, <1>2 DEF ClaimInv, Known, Claimed
<1>4. Loads(id) /\ (id \in ObjectIds \/ id \in RelIds)
    BY DEF File, Loads, ObjectLoads, RelLoads, InstallInv, RollbackInv, TypeOK, StoresTypeOK,
           ObjectFiles, RelFiles, Entities
<1>5. ASSUME Readable(p)
      PROVE  /\ p \in FindOwner(id)
             /\ id \in GetContents(p).objects \cup GetContents(p).rels
             /\ id \in ObjectIds => p \in SearchInstalled(objects[id])
  <2>1. p \in ListInstalled /\ id \in registry[p].ids
      BY <1>3, <1>5 DEF ListInstalled, Claims
  <2>2. p \in FindOwner(id)
      BY <2>1 DEF FindOwner, Claims
  <2>3. GetInfoCode(p) = "NONE"
      BY <1>5 DEF GetInfoCode, Readable
  <2>4. id \in Present(p)
      BY <1>4, <2>1 DEF Present
  <2>5. id \in GetContents(p).objects \cup GetContents(p).rels
      BY <1>4, <2>3, <2>4 DEF GetContents
  <2>6. id \in ObjectIds => p \in SearchInstalled(objects[id])
      BY <1>4, <2>1 DEF SearchInstalled, Loads
  <2> QED BY <2>2, <2>5, <2>6
<1> QED BY <1>1, <1>3, <1>5

LEMMA ClaimsVouch ==
    ASSUME InstallInv, VouchInv, ClaimInv
    PROVE  VerifyVouches
<1> SUFFICES ASSUME AtRest, NothingLeftBehind, Torn \notin {registry[p] : p \in Packages},
                    NEW p \in ListInstalled, Verified(p, "same"),
                    \A q \in ListInstalled \ {p} : registry[p].ids \cap registry[q].ids = {},
                    NEW id \in registry[p].ids
             PROVE  contributor[id] = p
    BY DEF VerifyVouches
<1>1. p \in Packages /\ Readable(p) /\ id \in Entities
    BY DEF ListInstalled, Readable, RegistryEntries
<1>2. PICK q \in Packages : q = contributor[id]
    BY <1>1 DEF VouchInv
<1>3. Clean /\ undoComplete /\ ~Own(id)
    BY DEF NothingLeftBehind, AtRest, Clean, InstallInv, RollbackInv, Own, UndoingInstall
<1>4. Known(id)
  <2>1. Loads(id)
      BY DEF Verified, Present
  <2> QED BY <2>1 DEF Loads, ObjectLoads, RelLoads, Known, File
<1>5. registry[q] # Absent /\ (Readable(q) => Claims(q, id))
    BY <1>1, <1>2, <1>3, <1>4 DEF ClaimInv, Claimed
<1>6. Readable(q)
    BY <1>2, <1>5 DEF InstallInv, InstallTypeOK, Readable
<1>7. q \in ListInstalled /\ id \in registry[q].ids
    BY <1>5, <1>6 DEF ListInstalled, Claims
<1> QED BY <1>2, <1>7

LEMMA AnswersAlwaysAgree ==
    ASSUME InstallInv
    PROVE  AnswersAgree
<1> SUFFICES ASSUME NEW p \in Packages, NEW archive \in ArchiveStates
             PROVE  LET contents == GetContents(p)  verified == VerifyResult(p, archive)
                    IN  /\ p \in ListInstalled <=> verified.code = "NONE"
                        /\ Cardinality(contents.objects \cup contents.rels) = verified.present
                        /\ verified.verified => verified.present = verified.expected
                        /\ \A id \in contents.objects \cup contents.rels :
                              \E a \in Locate(id) : a.found /\ a.package = p
    BY DEF AnswersAgree
<1>1. registry[p] \in RegistryEntries \cup {Absent, Torn}
    BY DEF InstallInv, InstallTypeOK
<1>2. p \in ListInstalled <=> GetInfoCode(p) = "NONE"
    BY <1>1 DEF ListInstalled, Readable, GetInfoCode
<1>3. CASE GetInfoCode(p) = "NONE"
  <2>1. p \in ListInstalled /\ registry[p].ids \subseteq ObjectIds \cup RelIds
      BY <1>2, <1>3 DEF ListInstalled, Readable, RegistryEntries, Entities
  <2>2. GetContents(p).objects \cup GetContents(p).rels = Present(p)
      BY <1>3, <2>1 DEF GetContents, Present
  <2>3. /\ VerifyResult(p, archive).code = "NONE"
        /\ VerifyResult(p, archive).present = Cardinality(Present(p))
        /\ VerifyResult(p, archive).expected = Cardinality(registry[p].ids)
        /\ VerifyResult(p, archive).verified <=> Verified(p, archive)
      BY Zenon, <1>3 DEF VerifyResult
  <2>4. Verified(p, archive) => Present(p) = registry[p].ids
      BY DEF Verified
  <2>5. ASSUME NEW id \in Present(p)
        PROVE  \E a \in Locate(id) : a.found /\ a.package = p
    <3>1. p \in FindOwner(id) /\ p # Nobody
        BY <2>1 DEF FindOwner, Claims, Present
    <3> DEFINE kind == CASE p = Nobody -> "none" [] id \in ObjectIds -> "object"
                         [] OTHER -> "relationship"
    <3>2. [found |-> p # Nobody, kind |-> kind, package |-> p] \in Locate(id)
        BY Zenon, <3>1 DEF Locate
    <3> HIDE DEF kind
    <3> QED BY Zenon, <3>1, <3>2
  <2> QED BY <1>2, <1>3, <2>2, <2>3, <2>4, <2>5
<1>4. CASE GetInfoCode(p) # "NONE"
  <2>1. GetContents(p).objects = {} /\ GetContents(p).rels = {}
      BY <1>4 DEF GetContents
  <2>2. /\ VerifyResult(p, archive).code = GetInfoCode(p)
        /\ VerifyResult(p, archive).present = 0
        /\ ~VerifyResult(p, archive).verified
      BY Zenon, <1>4 DEF VerifyResult
  <2>3. Cardinality({}) = 0
      BY FS_EmptySet
  <2> QED BY <1>2, <1>4, <2>1, <2>2, <2>3
<1> QED BY <1>3, <1>4

LEMMA QueriesInitHolds == QueriesInit => InstallInv /\ VouchInv /\ ClaimInv
<1> SUFFICES ASSUME QueriesInit PROVE InstallInv /\ VouchInv /\ ClaimInv
    OBVIOUS
<1>1. InstallInv
    BY InstallInvInit DEF QueriesInit
<1>2. pc = "idle" /\ ~active /\ tx = 0 /\ journal = [t \in Transactions |-> "None"]
    BY DEF QueriesInit, InstallInit, Init
<1>3. VouchInv
    BY <1>2 DEF QueriesInit, InstallInit, VouchInv, Readable
<1>4. Unwritten
    BY <1>2 DEF Unwritten
<1>5. \A id \in Entities : Claimed(id)
    BY DEF QueriesInit, Claimed
<1> QED BY <1>1, <1>3, <1>4, <1>5 DEF ClaimInv

\* What every query about installed packages answers is so, whatever was created,
\* deleted, rolled back or failed since, as long as no file of the stores is written
\* short and nothing was left half done.
THEOREM RegistrySpeaksTrue ==
    ASSUME "torn" \notin WriteOutcomes
    PROVE  QueriesSpec => []RegistryTellsTruth
<1> DEFINE Inv == InstallInv /\ VouchInv /\ ClaimInv
<1>1. Inv /\ [QueriesNext]_qvars => Inv'
  <2>1. [QueriesNext]_qvars => [InstallNext]_ivars
      BY DEF QueriesNext, qvars
  <2> QED BY <2>1, InstallInvStep, VouchStep, ClaimStep
<1>2. Inv => RegistryTellsTruth
    BY ClaimsGiveFound, ClaimsVouch, AnswersAlwaysAgree DEF RegistryTellsTruth
<1> QED BY <1>1, <1>2, QueriesInitHolds, PTL DEF QueriesSpec

-----------------------------------------------------------------------------
(* The views of an open runtime.                                           *)

LEMMA InstallTearsNothing ==
    ASSUME "torn" \notin WriteOutcomes, InstallInv, NothingTorn, InstallNext
    PROVE  NothingTorn'
<1>1. /\ objects \in [ObjectIds -> ObjectFiles] /\ rels \in [RelIds -> RelFiles] /\ TypeOK
      /\ \A out \in SuccessfulWrites : out # "torn"
    BY DEF InstallInv, RollbackInv, TypeOK, StoresTypeOK, SuccessfulWrites
<1>2. UNCHANGED <<objects, rels>> => NothingTorn'
    BY DEF NothingTorn
<1>3. CASE RuntimeStep
    BY <1>1, <1>3, RuntimeTearsNothing DEF RuntimeStep
<1>4. CASE CrashInInstall \/ Telling
    BY <1>2, <1>4, TellingIsQuiet DEF CrashInInstall, Crash, LoseEvent, Quiet
<1>5. CASE \E p \in Packages, f \in Fragments : StartInstall(p, f)
    BY <1>2, <1>5 DEF StartInstall, storeVars
<1>6. ASSUME NEW out \in SuccessfulWrites, InstallObject(out) PROVE NothingTorn'
  <2>1. NextItem.value \in Contents
      BY <1>6 DEF InstallObject, ObjectItems
  <2> QED BY <1>1, <1>6, <2>1, WholeValues DEF InstallObject, ObjectCreate, NothingTorn
<1>7. ASSUME NEW out \in SuccessfulWrites, InstallRelationship(out) PROVE NothingTorn'
  <2>1. NextItem.value \in Relationships
      BY <1>7 DEF InstallRelationship, RelItems
  <2> QED BY <1>1, <1>7, <2>1, WholeValues DEF InstallRelationship, RelCreate, NothingTorn
<1>8. CASE Recording \/ RefuseItem \/ RefuseRecord
    BY <1>2, <1>8 DEF Recording, RecordInstall, RefuseItem, RefuseRecord, AbandonInstall, StartRollback,
                      storeVars
<1> QED BY <1>3, <1>4, <1>5, <1>6, <1>7, <1>8 DEF InstallNext, InstallStep, Recording, Telling

\* A repository that is opened has no transaction open.
LEMMA OpensAtRest ==
    ASSUME InstallInv, InstallNext, state # "RepositoryOpen", state' = "RepositoryOpen"
    PROVE  ~active' /\ log' = <<>>
<1>1. ~active /\ log = <<>> /\ pc = "idle"
    BY DEF InstallInv, RollbackInv, NoStrandedTransaction
<1>2. ~Opening /\ ~Recording /\ \A id \in Entities : ~Mutating(id) /\ ~Creating(id)
    BY <1>1, RecordingStep DEF Opening, Mutating, Creating
<1>3. ~Undoing /\ ~Closing /\ ~CrashInInstall
    BY <1>1 DEF Undoing, UndoLast, Closing, CrashInInstall, Crash
<1> QED BY <1>1, <1>2, <1>3, StepShape DEF Quiet, Stays

\* The commit of an implicit transaction or of an install is the end of its call.
LEMMA CommitEnds ==
    ASSUME InstallInv, InstallNext, pc = "commit", pc' # "commit", state' = "RepositoryOpen"
    PROVE  pc' = "idle" /\ ~active' /\ log' = <<>>
<1>1. ~Stays /\ ~Opening /\ ~Recording /\ \A id \in Entities : ~Mutating(id) /\ ~Creating(id)
    BY RecordingStep DEF Stays, Opening, Mutating, Creating
<1>2. ~Undoing /\ ~CrashInInstall
    BY DEF Undoing, UndoLast, CrashInInstall, Crash
<1> QED BY <1>1, <1>2, StepShape DEF Quiet, Closing

Registered(id) == \E p \in Packages : Readable(p) /\ id \in registry[p].ids
Shows(id) ==
    /\ id \in ObjectIds => id \in DOMAIN search.objects
    /\ id \in RelIds => id \in DOMAIN search.rels

\* Whatever is registered and somebody may see again can be found, but for what the
\* running install has yet to take away or to commit.
IndexedInv ==
    /\ owed => pc = "commit"
    /\ NothingTorn
    /\ state = "RepositoryOpen" /\ ~owed =>
          \A id \in Entities : Registered(id) /\ Known(id) => Shows(id) \/ Own(id)

\* What is rebuilt shows every file.
LEMMA RebuiltShows ==
    ASSUME TypeOK', NothingTorn', Rebuild, ~active', log' = <<>>, NEW id \in Entities, Known(id)'
    PROVE  Shows(id)'
<1>1. File(id)' # Absent
    BY DEF Known, InLog
<1>2. (id \in ObjectIds => ObjectLoads(id)') /\ (id \in RelIds => RelLoads(id)')
    BY <1>1 DEF File, TypeOK, StoresTypeOK, ObjectFiles, RelFiles, NothingTorn, ObjectLoads, RelLoads
<1>3. /\ DOMAIN (search').objects = {o \in ObjectIds : ObjectLoads(o)'}
      /\ DOMAIN (search').rels = {r \in RelIds : RelLoads(r)'}
    BY DEF Rebuild, Listed, Restricted, ObjectLoads, RelLoads
<1> QED BY <1>2, <1>3 DEF Shows

\* As long as no undo of an install fails, none of its steps does.
LEMMA OwnUndosSucceed ==
    ASSUME InstallInv, InstallInv', InstallNext, UndoneSoFar', NEW id, Own(id)
    PROVE  undoComplete'
<1> SUFFICES ASSUME ~undoComplete' PROVE FALSE
    OBVIOUS
<1>1. pc' = "undo"
    BY DEF InstallInv, RollbackInv
<1>2. ~UndoingInstall'
    BY DEF UndoneSoFar
<1>3. ~Undoing /\ ~Stays
    BY <1>2 DEF Undoing, UndoLast, Stays, Own, UndoingInstall
<1>4. ~Quiet
    BY <1>1, <1>2 DEF Quiet, Own, UndoingInstall
<1>5. ~Opening /\ ~Closing /\ ~Recording /\ ~CrashInInstall
    BY <1>1, RecordingStep DEF Opening, Closing, CrashInInstall, Crash, Own, UndoingInstall
<1>6. \A x \in Entities : ~Mutating(x) /\ ~Creating(x)
    BY <1>1 DEF Mutating, Creating, Own, UndoingInstall
<1> QED BY <1>3, <1>4, <1>5, <1>6, StepShape

LEMMA IndexedStep ==
    ASSUME "torn" \notin WriteOutcomes, InstallInv, InstallInv', VouchInv, UndoneSoFar', IndexedInv,
           [ViewsNext]_vvars
    PROVE  IndexedInv'
<1>1. CASE UNCHANGED vvars
    BY <1>1
       DEF vvars, views, qvars, ivars, vars, storeVars, txVars, callVars, installVars, IndexedInv,
           NothingTorn, Registered, Readable, Known, Shows, Own, InLog, File, BaseFile, UndoingInstall
<1>2. CASE ViewsNext
  <2>1. InstallNext /\ Contribute /\ TypeOK /\ TypeOK' /\ ViewsFollow
      BY <1>2 DEF ViewsNext, QueriesNext, InstallInv, RollbackInv
  <2>2. NothingTorn'
      BY <2>1, InstallTearsNothing DEF IndexedInv
  <2>3. owed' <=> pc' = "commit" /\ (pc = "install" \/ owed)
      BY <1>2 DEF ViewsNext
  <2>4. SUFFICES ASSUME state' = "RepositoryOpen", ~owed',
                        NEW id \in Entities, Registered(id)', Known(id)', ~Own(id)'
                 PROVE  Shows(id)'
      BY <2>2, <2>3 DEF IndexedInv
  <2>5. ~Recording
      BY <2>3, <2>4, RecordingStep
  <2>6. registry' = registry \/ \A p \in Packages : registry'[p] = registry[p]
      BY <2>1, <2>5, RegisteredWholeStep DEF Recording
  <2>7. Registered(id)
      BY <2>4, <2>6 DEF Registered, Readable
  <2>8. CASE Opens \/ InstallEnds
    <3>1. ~active' /\ log' = <<>>
        BY <2>1, <2>4, <2>8, OpensAtRest, CommitEnds DEF Opens, InstallEnds, IndexedInv
    <3> QED BY <2>1, <2>2, <2>4, <2>8, <3>1, RebuiltShows DEF ViewsFollow
  <2>9. CASE ~(Opens \/ InstallEnds)
    <3>1. state = "RepositoryOpen" /\ search' = search
        BY <2>1, <2>4, <2>9 DEF ViewsFollow, KeepViews, Opens
    <3>2. ~owed
        BY <2>1, <2>3, <2>4, <2>9, CommitEnds DEF InstallEnds, IndexedInv
    <3>3. ~Creating(id)
        BY <2>1, <2>4, LoggedOne DEF Creating, Own
    <3>4. id \in issued
        BY <2>7 DEF Registered, VouchInv
    <3>5. Known(id)
        BY <2>1, <2>4, <3>3, <3>4, KnownStep
    <3>6. ~Own(id)
      <4>1. SUFFICES ASSUME Own(id) PROVE FALSE
          OBVIOUS
      <4>2. undoComplete'
          BY <2>1, <4>1, OwnUndosSucceed
      <4>3. CrashInInstall
          BY <2>1, <2>4, <2>5, <4>1, <4>2, OwnStep
      <4> QED BY <2>4, <4>3 DEF CrashInInstall, Crash
    <3>7. Shows(id)
        BY <2>7, <3>1, <3>2, <3>5, <3>6 DEF IndexedInv
    <3> QED BY <3>1, <3>7 DEF Shows
  <2> QED BY <2>8, <2>9
<1> QED BY <1>1, <1>2

LEMMA ViewsInitHolds ==
    ViewsInit => InstallInv /\ VouchInv /\ ClaimInv /\ UndoneSoFar /\ IndexedInv
<1> SUFFICES ASSUME ViewsInit
             PROVE  InstallInv /\ VouchInv /\ ClaimInv /\ UndoneSoFar /\ IndexedInv
    OBVIOUS
<1>1. InstallInv /\ VouchInv /\ ClaimInv
    BY QueriesInitHolds DEF ViewsInit
<1>2. state = "Uninitialized" /\ pc = "idle" /\ ~owed /\ StoresInit
    BY DEF ViewsInit, QueriesInit, InstallInit, Init
<1>3. NothingTorn
    BY <1>2, WholeValues DEF StoresInit, NothingTorn
<1> QED BY <1>1, <1>2, <1>3 DEF UndoneSoFar, UndoingInstall, IndexedInv

LEMMA IndexedGives ==
    ASSUME InstallInv, IndexedInv
    PROVE  InstalledIsIndexed
<1> SUFFICES ASSUME state = "RepositoryOpen", pc = "idle", NEW p \in Packages,
                    registry[p] \in RegistryEntries, NEW id \in registry[p].ids
             PROVE  /\ id \in ObjectIds /\ ObjectLoads(id) => id \in DOMAIN search.objects
                    /\ id \in RelIds /\ RelLoads(id) => id \in DOMAIN search.rels
    BY DEF InstalledIsIndexed
<1>1. id \in Entities /\ Registered(id) /\ ~Own(id) /\ ~owed
    BY DEF RegistryEntries, Registered, Readable, Own, UndoingInstall, IndexedInv
<1>2. (id \in ObjectIds /\ ObjectLoads(id)) \/ (id \in RelIds /\ RelLoads(id)) => Known(id)
    BY WholeValues DEF ObjectLoads, RelLoads, Known, File
<1> QED BY <1>1, <1>2 DEF IndexedInv, Shows

\* In an open runtime, whatever a registered package brought and still loads can be
\* searched for, on a disk that works: the undo of a failed install that itself fails
\* leaves a file the index does not know, under an id an older record may still list.
THEOREM InstalledCanBeFound ==
    ASSUME WriteOutcomes \subseteq {"ok"}
    PROVE  ViewsSpec => []InstalledIsIndexed
<1> DEFINE Inv == InstallInv /\ VouchInv /\ UndoneSoFar /\ IndexedInv
<1>1. "torn" \notin WriteOutcomes
    OBVIOUS
<1>2. Inv /\ [ViewsNext]_vvars => Inv'
  <2>1. [ViewsNext]_vvars => [QueriesNext]_qvars /\ [InstallNext]_ivars
      BY DEF ViewsNext, vvars, QueriesNext, qvars
  <2>2. Inv /\ [ViewsNext]_vvars => InstallInv' /\ VouchInv' /\ UndoneSoFar'
      BY <1>1, <2>1, InstallInvStep, VouchStep, UndoneSoFarStep
  <2> QED BY <1>1, <2>2, IndexedStep
<1>3. ViewsInit => Inv
    BY ViewsInitHolds
<1>4. Inv => InstalledIsIndexed
    BY IndexedGives
<1> QED BY <1>2, <1>3, <1>4, PTL DEF ViewsSpec

\* What the views of a repository with these files are.
ListedIn(s) ==
    [objects |-> Restricted(s.objects, {o \in ObjectIds : s.objects[o] \in Contents}),
     rels |-> Restricted(s.rels, {r \in RelIds : s.rels[r] \in Relationships})]
BuiltIn(s) ==
    [nodes |-> {o \in ObjectIds : s.objects[o] \in Contents},
     edges |-> {r \in RelIds :
                    /\ s.rels[r] \in Relationships
                    /\ s.objects[s.rels[r].src] \in Contents
                    /\ s.objects[s.rels[r].dst] \in Contents}]

LEMMA ViewsOfSnapshot == Listed = ListedIn(Snapshot) /\ Built = BuiltIn(Snapshot)
BY DEF Listed, Built, ListedIn, BuiltIn, Snapshot, ObjectLoads, RelLoads, EndpointsLoad

\* Views that showed the repository when the transaction was opened still show it as
\* it was then.
FreshInv ==
    /\ owed => pc = "commit"
    /\ active /\ fresh => search = ListedIn(base) /\ graph = BuiltIn(base)

\* While a transaction stays open nothing touches the views.
LEMMA ViewsStay ==
    ASSUME InstallInv, InstallInv', InstallNext, ViewsFollow, owed => pc = "commit", active'
    PROVE  /\ UNCHANGED <<search, graph>>
           /\ (tx' = tx /\ base' = base /\ active) \/ (tx' # tx /\ base' = Snapshot)
<1>1. state' = "RepositoryOpen"
    BY DEF InstallInv, RollbackInv, NoStrandedTransaction
<1>2. state = "RepositoryOpen"
    BY <1>1, OpensAtRest
<1>3. ~InstallEnds
    BY <1>1, CommitEnds DEF InstallEnds
<1>4. UNCHANGED <<search, graph>>
    BY <1>1, <1>2, <1>3 DEF ViewsFollow, Opens, KeepViews
<1>5. tx \in Nat /\ active \in BOOLEAN
    BY DEF InstallInv, RollbackInv, TypeOK
<1>6. ~Closing /\ ~CrashInInstall
    BY DEF Closing, CrashInInstall, Crash
<1>7. UNCHANGED <<active, tx, base>> \/ OpenTransaction
  <2>1. Undoing => UNCHANGED <<active, tx, base>>
      BY DEF Undoing, UndoLast
  <2>2. Recording => UNCHANGED <<active, tx, base>>
      BY RecordingStep
  <2> QED BY <1>6, <2>1, <2>2, StepShape
          DEF Quiet, Stays, Opening, Mutating, Creating, JoinOrOpen
<1>8. OpenTransaction => tx' # tx /\ base' = Snapshot
    BY <1>5 DEF OpenTransaction
<1> QED BY <1>4, <1>5, <1>7, <1>8

LEMMA FreshStep ==
    ASSUME InstallInv, InstallInv', FreshInv, [ViewsNext]_vvars
    PROVE  FreshInv'
<1>1. CASE UNCHANGED vvars
    BY <1>1 DEF vvars, views, qvars, ivars, vars, txVars, callVars, FreshInv, ListedIn, BuiltIn
<1>2. CASE ViewsNext
  <2>1. InstallNext /\ ViewsFollow /\ (owed' => pc' = "commit")
        /\ fresh' = IF tx' # tx THEN Shown ELSE fresh
      BY <1>2 DEF ViewsNext, QueriesNext
  <2>2. SUFFICES ASSUME active', fresh'
                 PROVE  search' = ListedIn(base)' /\ graph' = BuiltIn(base)'
      BY <2>1 DEF FreshInv
  <2>3. UNCHANGED <<search, graph>>
      BY <2>1, <2>2, ViewsStay DEF FreshInv
  <2>4. CASE tx' = tx /\ base' = base /\ active
      BY <2>1, <2>2, <2>3, <2>4 DEF FreshInv, ListedIn, BuiltIn
  <2>5. CASE tx' # tx /\ base' = Snapshot
    <3>1. search = ListedIn(Snapshot) /\ graph = BuiltIn(Snapshot)
        BY <2>1, <2>2, <2>5, ViewsOfSnapshot DEF Shown
    <3>2. PICK s : s = Snapshot
        OBVIOUS
    <3>3. search = ListedIn(s) /\ graph = BuiltIn(s) /\ base' = s
        BY <2>5, <3>1, <3>2
    <3> QED BY <2>3, <3>3 DEF ListedIn, BuiltIn
  <2> QED BY <2>1, <2>2, <2>4, <2>5, ViewsStay DEF FreshInv
<1> QED BY <1>1, <1>2

\* A rollback that ends in an open repository, with every undo successful, finds the
\* views as they were.
LEMMA RolledBackShown ==
    ASSUME InstallInv, FreshInv, ViewsNext, pc = "undo", pc' = "idle", undoComplete, fresh,
           state' = "RepositoryOpen"
    PROVE  Shown'
<1>1. InstallNext /\ ViewsFollow /\ active /\ state = "RepositoryOpen" /\ ~owed
    BY DEF ViewsNext, QueriesNext, InstallInv, RollbackInv, NoStrandedTransaction, FreshInv
<1>2. Closing
  <2>1. ~Stays /\ ~Opening /\ ~Recording /\ \A id \in Entities : ~Mutating(id) /\ ~Creating(id)
      BY RecordingStep DEF Stays, Opening, Mutating, Creating
  <2>2. ~Undoing /\ ~CrashInInstall /\ ~Quiet
      BY DEF Undoing, UndoLast, CrashInInstall, Crash, Quiet
  <2> QED BY <1>1, <2>1, <2>2, StepShape
<1>3. log = <<>> /\ UNCHANGED <<objects, rels>>
    BY <1>2 DEF Closing
<1>4. Snapshot = base
    BY <1>3, RollbackInvGivesRestored DEF InstallInv, RolledBackMeansRestored
<1>5. search = Listed /\ graph = Built
  <2>1. search = ListedIn(base) /\ graph = BuiltIn(base)
      BY <1>1 DEF FreshInv
  <2> QED BY <1>4, <2>1, ViewsOfSnapshot
<1>6. UNCHANGED <<search, graph>>
    BY <1>1 DEF ViewsFollow, Opens, InstallEnds, KeepViews
<1>7. Listed' = Listed /\ Built' = Built
    BY <1>3 DEF Listed, Built, ObjectLoads, RelLoads, EndpointsLoad
<1> QED BY <1>5, <1>6, <1>7 DEF Shown

\* The views need no rebuild after a rollback: whatever else was lost - failed writes,
\* failed audit events, crashes before - undoing restores what they show.
THEOREM RollbacksKeepViews ==
    ASSUME "torn" \notin WriteOutcomes
    PROVE  ViewsSpec => RollbackKeepsViewsTrue
<1> DEFINE Inv == InstallInv /\ FreshInv
<1>1. Inv /\ [ViewsNext]_vvars => Inv'
  <2>1. [ViewsNext]_vvars => [InstallNext]_ivars
      BY DEF ViewsNext, vvars, QueriesNext, qvars
  <2> QED BY <2>1, InstallInvStep, FreshStep
<1>2. ViewsInit => Inv
    BY ViewsInitHolds DEF FreshInv, ViewsInit, QueriesInit, InstallInit, Init
<1>3. Inv /\ [ViewsNext]_vvars =>
        [pc = "undo" /\ pc' = "idle" /\ undoComplete /\ fresh /\ state' = "RepositoryOpen"
            /\ (\A id \in Entities : File(id) # Torn) => Shown']_vvars
    BY RolledBackShown
<1> QED BY <1>1, <1>2, <1>3, PTL DEF ViewsSpec, RollbackKeepsViewsTrue

=============================================================================
