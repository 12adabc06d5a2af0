----------------------- MODULE FoundationRuntimeProofs -----------------------
(***************************************************************************)
(* Proofs about FoundationRuntime, for all sets of ids and contents and    *)
(* all bounds: what is stored is consistent, transactions are atomic, the  *)
(* journal and the audit log are complete, and on a disk that works every  *)
(* undo of a rollback finds the file it needs, but for a relationship      *)
(* whose end point is missing.                                             *)
(***************************************************************************)
EXTENDS FoundationRuntime, SequenceTheorems, TLAPS

USE StoresAssumption, RuntimeAssumption

-----------------------------------------------------------------------------
(* The stores keep their types. *)

EventsTyped ==
    /\ audit' \in [Entities -> AuditEvents]
    /\ pending' \subseteq EventsOf(Entities)
    /\ unaudited' \subseteq Entities

LEMMA EventType ==
    \A id \in Entities, what \in {"Written", "Deleted"} :
        Event(id, what) \in EventsOf(Entities)
BY DEF Event, EventsOf, AuditEvents

LEMMA ObjectCallsType ==
    ASSUME StoresTypeOK, NEW o \in ObjectIds, NEW c \in Contents, NEW out,
           \/ ObjectCreate(o, c, out)
           \/ ObjectUpdate(o, c, out)
           \/ ObjectRemove(o)
           \/ ObjectRestore(o, c, out)
    PROVE  StoresTypeOK'
<1>1. objects' \in [ObjectIds -> ObjectFiles]
    BY DEF StoresTypeOK, ObjectCreate, ObjectUpdate, ObjectRemove, ObjectRestore,
           Written, ObjectFiles
<1>2. rels' = rels
    BY DEF ObjectCreate, ObjectUpdate, ObjectRemove, ObjectRestore
<1>3. Owe(o, "Written") \/ Owe(o, "Deleted") \/ NoEvent
    BY DEF ObjectCreate, ObjectUpdate, ObjectRemove, ObjectRestore
<1>4. EventsTyped
    BY <1>3, EventType DEF Owe, NoEvent, EventsTyped, StoresTypeOK, Entities
<1> QED BY <1>1, <1>2, <1>4 DEF EventsTyped, StoresTypeOK

LEMMA RelCallsType ==
    ASSUME StoresTypeOK, NEW r \in RelIds, NEW v \in Relationships, NEW note \in Contents, NEW out,
           \/ RelCreate(r, v, out)
           \/ RelUpdate(r, note, out)
           \/ RelRemove(r)
           \/ RelRestore(r, v, out)
    PROVE  StoresTypeOK'
<1>1. rels' \in [RelIds -> RelFiles]
  <2>1. CASE RelUpdate(r, note, out)
    <3>1. [rels[r] EXCEPT !.note = note] \in Relationships
        BY <2>1 DEF RelUpdate, RelLoads, Relationships
    <3> QED BY <2>1, <3>1 DEF RelUpdate, Written, StoresTypeOK, RelFiles
  <2>2. CASE RelCreate(r, v, out) \/ RelRestore(r, v, out)
      BY <2>2 DEF RelCreate, RelRestore, Written, StoresTypeOK, RelFiles
  <2>3. CASE RelRemove(r)
      BY <2>3 DEF RelRemove, StoresTypeOK, RelFiles
  <2> QED BY <2>1, <2>2, <2>3
<1>2. objects' = objects
    BY DEF RelCreate, RelUpdate, RelRemove, RelRestore
<1>3. Owe(r, "Written") \/ Owe(r, "Deleted") \/ NoEvent
    BY DEF RelCreate, RelUpdate, RelRemove, RelRestore
<1>4. EventsTyped
    BY <1>3, EventType DEF Owe, NoEvent, EventsTyped, StoresTypeOK, Entities
<1> QED BY <1>1, <1>2, <1>4 DEF EventsTyped, StoresTypeOK

\* The second half of a store call, and a crash before it.
LEMMA RecordEventType ==
    ASSUME StoresTypeOK, RecordEvent \/ LoseEvent
    PROVE  StoresTypeOK'
<1>1. CASE RecordEvent
  <2>1. PICK e \in pending, out \in AuditOutcomes :
           /\ audit' = IF out = "ok" THEN [audit EXCEPT ![e.id] = e.event] ELSE audit
           /\ pending' = pending \ {e}
      BY <1>1 DEF RecordEvent
  <2>2. e.event \in AuditEvents
      BY <2>1 DEF StoresTypeOK, EventsOf
  <2>3. audit' \in [Entities -> AuditEvents]
      BY <2>1, <2>2 DEF StoresTypeOK
  <2> QED BY <1>1, <2>1, <2>3 DEF RecordEvent, StoresTypeOK
<1>2. CASE LoseEvent
    BY <1>2 DEF LoseEvent, StoresTypeOK, EventsOf
<1> QED BY <1>1, <1>2

-----------------------------------------------------------------------------
(* Type correctness of the runtime. *)

LEMMA SnapshotType == StoresTypeOK => Snapshot \in Snapshots
BY DEF StoresTypeOK, Snapshot, Snapshots

LEMMA JoinOrOpenType ==
    ASSUME TypeOK, JoinOrOpen
    PROVE  active' \in BOOLEAN /\ tx' \in 0..MaxTransactions /\ base' \in Snapshots
<1>1. CASE active
    BY <1>1 DEF TypeOK, JoinOrOpen
<1>2. CASE ~active
  <2>1. OpenTransaction
      BY <1>2 DEF JoinOrOpen
  <2>2. tx' \in 0..MaxTransactions
      BY <2>1 DEF OpenTransaction, TypeOK
  <2> QED BY <2>1, <2>2, SnapshotType DEF OpenTransaction, TypeOK
<1> QED BY <1>1, <1>2

\* What every mutation does besides its store call and its new id.
LEMMA LogMutationType ==
    ASSUME TypeOK, NEW kind, NEW id, NEW before,
           [kind |-> kind, id |-> id, before |-> before] \in LogEntries,
           \/ Callable
           \/ BatchItem("objects")
           \/ BatchItem("relationships")
           \/ pc = "install",
           LogMutation(kind, id, before)
    PROVE  /\ active' \in BOOLEAN
           /\ log' \in Seq(LogEntries)
           /\ tx' \in 0..MaxTransactions
           /\ base' \in Snapshots
           /\ pc' \in {"idle", "commit", "undo", "batch", "install", "file"}
           /\ batch' \in Batches
           /\ reply' \in {"none", "ok", "error"}
           /\ UNCHANGED <<state, journal, purpose, undoComplete>>
<1>1. active' \in BOOLEAN /\ tx' \in 0..MaxTransactions /\ base' \in Snapshots
    BY JoinOrOpenType DEF LogMutation
<1>2. log' \in Seq(LogEntries)
    BY DEF TypeOK, LogMutation
<1>3. batch' \in Batches
  <2>1. CASE pc = "batch"
    <3>1. batch.left \in 1..MaxBatch
        BY <2>1 DEF TypeOK, Batches, Callable, BatchItem
    <3>2. batch \in Batches
        BY DEF TypeOK
    <3>3. [batch EXCEPT !.left = batch.left - 1] \in Batches
        BY <3>1, <3>2 DEF Batches
    <3>4. batch' = [batch EXCEPT !.left = batch.left - 1]
        BY <2>1 DEF LogMutation
    <3> QED BY <3>3, <3>4
  <2>2. CASE pc # "batch"
      BY <2>2 DEF TypeOK, LogMutation
  <2> QED BY <2>1, <2>2
<1> QED BY <1>1, <1>2, <1>3 DEF TypeOK, LogMutation

LEMMA JournalWriteType ==
    ASSUME TypeOK, NEW verdict \in Verdicts, NEW out, JournalWrite(verdict, out)
    PROVE  journal' \in [Transactions -> Verdicts]
BY DEF TypeOK, JournalWrite
LEMMA InitType == Init => TypeOK
<1> SUFFICES ASSUME Init PROVE TypeOK
    OBVIOUS
<1>1. StoresTypeOK
    BY DEF Init, StoresInit, StoresTypeOK, ObjectFiles, RelFiles, AuditEvents
<1>2. batch \in Batches
    BY DEF Init, NoBatch, Batches
<1>3. base \in Snapshots
    BY <1>1, SnapshotType DEF Init
<1>4. log \in Seq(LogEntries)
    BY DEF Init
<1>5. tx \in 0..MaxTransactions
    BY DEF Init
<1> QED BY <1>1, <1>2, <1>3, <1>4, <1>5 DEF Init, TypeOK, RuntimeStates, Verdicts

\* Lifecycle steps.
LEMMA LifecycleType == TypeOK /\ Lifecycle => TypeOK'
<1> SUFFICES ASSUME TypeOK, Lifecycle PROVE TypeOK'
    OBVIOUS
<1>1. CASE Initialize \/ OpenRepository \/ NewHandle
    BY <1>1 DEF Initialize, OpenRepository, NewHandle, TypeOK, StoresTypeOK, RuntimeStates,
                storeVars, txVars
<1>2. CASE CloseRepository
    BY <1>2 DEF CloseRepository, Leave, StartRollback, TypeOK, StoresTypeOK, RuntimeStates,
                storeVars, txVars
<1>3. CASE Shutdown
    BY <1>3 DEF Shutdown, Leave, StartRollback, TypeOK, StoresTypeOK, RuntimeStates,
                storeVars, txVars
<1> QED BY <1>1, <1>2, <1>3 DEF Lifecycle

\* Mutations.
LEMMA MutateType == TypeOK /\ Mutate => TypeOK'
<1> SUFFICES ASSUME TypeOK, Mutate PROVE TypeOK'
    OBVIOUS
<1> USE DEF SuccessfulWrites
<1>s. StoresTypeOK
    BY DEF TypeOK
<1>1. ASSUME NEW o \in ObjectIds, NEW c \in Contents, NEW out \in SuccessfulWrites,
             CreateObject(o, c, out)
      PROVE  TypeOK'
  <2>1. StoresTypeOK'
      BY <1>s, <1>1, ObjectCallsType DEF CreateObject
  <2>2. [kind |-> "ObjectCreated", id |-> o, before |-> Absent] \in LogEntries
      BY DEF LogEntries, ObjectEntries
  <2>3. issued' \subseteq Entities
      BY <1>1 DEF CreateObject, TypeOK, Entities
  <2> QED BY <1>1, <2>1, <2>2, <2>3, LogMutationType DEF CreateObject, TypeOK
<1>2. ASSUME NEW o \in ObjectIds, NEW c \in Contents, NEW out \in SuccessfulWrites,
             UpdateObject(o, c, out)
      PROVE  TypeOK'
  <2>1. StoresTypeOK'
      BY <1>s, <1>2, ObjectCallsType DEF UpdateObject
  <2>2. [kind |-> "ObjectUpdated", id |-> o, before |-> objects[o]] \in LogEntries
      BY <1>2 DEF UpdateObject, ObjectUpdate, ObjectLoads, LogEntries, ObjectEntries
  <2> QED BY <1>2, <2>1, <2>2, LogMutationType DEF UpdateObject, TypeOK
<1>3. ASSUME NEW o \in ObjectIds, DeleteObject(o) PROVE TypeOK'
  <2>1. objects[o] \in Contents
      BY <1>3 DEF DeleteObject, ObjectLoads
  <2>2. StoresTypeOK'
      BY <1>s, <1>3, <2>1, ObjectCallsType DEF DeleteObject
  <2>3. [kind |-> "ObjectDeleted", id |-> o, before |-> objects[o]] \in LogEntries
      BY <2>1 DEF LogEntries, ObjectEntries
  <2> QED BY <1>3, <2>2, <2>3, LogMutationType DEF DeleteObject, TypeOK
<1>4. ASSUME NEW r \in RelIds, NEW v \in Relationships, NEW out \in SuccessfulWrites,
             CreateRelationship(r, v, out)
      PROVE  TypeOK'
  <2>1. v.note \in Contents
      BY DEF Relationships
  <2>2. StoresTypeOK'
      BY <1>s, <1>4, <2>1, RelCallsType DEF CreateRelationship
  <2>3. [kind |-> "RelationshipCreated", id |-> r, before |-> Absent] \in LogEntries
      BY DEF LogEntries, RelEntries
  <2>4. issued' \subseteq Entities
      BY <1>4 DEF CreateRelationship, TypeOK, Entities
  <2> QED BY <1>4, <2>2, <2>3, <2>4, LogMutationType DEF CreateRelationship, TypeOK
<1>5. ASSUME NEW r \in RelIds, NEW note \in Contents, NEW out \in SuccessfulWrites,
             UpdateRelationship(r, note, out)
      PROVE  TypeOK'
  <2>1. rels[r] \in Relationships
      BY <1>5 DEF UpdateRelationship, RelUpdate, RelLoads
  <2>2. StoresTypeOK'
      BY <1>s, <1>5, <2>1, RelCallsType DEF UpdateRelationship
  <2>3. [kind |-> "RelationshipUpdated", id |-> r, before |-> rels[r]] \in LogEntries
      BY <2>1 DEF LogEntries, RelEntries
  <2> QED BY <1>5, <2>2, <2>3, LogMutationType DEF UpdateRelationship, TypeOK
<1>6. ASSUME NEW r \in RelIds, DeleteRelationship(r) PROVE TypeOK'
  <2>1. rels[r] \in Relationships /\ rels[r].note \in Contents
      BY <1>6 DEF DeleteRelationship, RelLoads, Relationships
  <2>2. StoresTypeOK'
      BY <1>s, <1>6, <2>1, RelCallsType DEF DeleteRelationship
  <2>3. [kind |-> "RelationshipDeleted", id |-> r, before |-> rels[r]] \in LogEntries
      BY <2>1 DEF LogEntries, RelEntries
  <2> QED BY <1>6, <2>2, <2>3, LogMutationType DEF DeleteRelationship, TypeOK
<1>7. CASE RefuseMutation
    BY <1>7, JoinOrOpenType DEF RefuseMutation, StartRollback, TypeOK, StoresTypeOK, storeVars
<1> QED BY <1>1, <1>2, <1>3, <1>4, <1>5, <1>6, <1>7 DEF Mutate
LEMMA EmptyLogType == <<>> \in Seq(LogEntries)
OBVIOUS

\* Beginning, committing and rolling back a transaction; starting a batch.
LEMMA TransactType == TypeOK /\ Transact => TypeOK'
<1> SUFFICES ASSUME TypeOK, Transact PROVE TypeOK'
    OBVIOUS
<1>1. CASE BeginTransaction
  <2>1. tx' \in 0..MaxTransactions
      BY <1>1 DEF BeginTransaction, OpenTransaction, TypeOK
  <2>2. log' \in Seq(LogEntries)
      BY <1>1, EmptyLogType DEF BeginTransaction
  <2>3. base' \in Snapshots
      BY <1>1, SnapshotType DEF BeginTransaction, OpenTransaction, TypeOK
  <2> QED BY <1>1, <2>1, <2>2, <2>3
          DEF BeginTransaction, OpenTransaction, TypeOK, StoresTypeOK, storeVars
<1>2. ASSUME NEW out \in JournalOutcomes, CommitTransaction(out) PROVE TypeOK'
  <2>1. journal' \in [Transactions -> Verdicts]
      BY <1>2, JournalWriteType DEF CommitTransaction, Verdicts
  <2>2. log' \in Seq(LogEntries)
      BY <1>2, EmptyLogType DEF CommitTransaction
  <2> QED BY <1>2, <2>1, <2>2 DEF CommitTransaction, TypeOK, StoresTypeOK, storeVars
<1>3. CASE RollbackTransaction
    BY <1>3 DEF RollbackTransaction, StartRollback, TypeOK, StoresTypeOK, storeVars
<1>4. ASSUME NEW kind \in {"objects", "relationships"}, NEW n \in 0..MaxBatch,
             StartBatch(kind, n)
      PROVE  TypeOK'
  <2>1. batch' \in Batches
      BY <1>4 DEF StartBatch, Batches, TypeOK
  <2>2. log' \in Seq(LogEntries)
      BY <1>4 DEF StartBatch, TypeOK
  <2> QED BY <1>4, <2>1, <2>2, JoinOrOpenType DEF StartBatch, TypeOK, StoresTypeOK, storeVars
<1> QED BY <1>1, <1>2, <1>3, <1>4 DEF Transact

LEMMA LastEntryType == TypeOK /\ log # <<>> => LastEntry \in LogEntries
BY DEF TypeOK, LastEntry

\* The undo of one log entry keeps the stores' types.
LEMMA UndoEffectType ==
    ASSUME StoresTypeOK, NEW e \in LogEntries, NEW out, UndoEffect(e, out)
    PROVE  StoresTypeOK'
<1>1. CASE e \in ObjectEntries
  <2>1. e.id \in ObjectIds
      BY <1>1 DEF ObjectEntries
  <2>2. CASE e.kind = "ObjectCreated"
    <3>1. objects' = [objects EXCEPT ![e.id] = Absent] /\ rels' = rels
        BY <1>1, <2>2 DEF ObjectEntries, UndoEffect, ObjectRemove
    <3>2. Owe(e.id, "Deleted")
        BY <1>1, <2>2 DEF ObjectEntries, UndoEffect, ObjectRemove
    <3> QED BY <2>1, <3>1, <3>2, EventType DEF StoresTypeOK, ObjectFiles, Owe, Entities
  <2>3. CASE e.kind \in {"ObjectUpdated", "ObjectDeleted"}
    <3>1. e.before \in Contents
        BY <1>1, <2>3 DEF ObjectEntries
    <3>2. ObjectUpdate(e.id, e.before, out) \/ ObjectRestore(e.id, e.before, out)
        BY <2>3 DEF UndoEffect
    <3> QED BY <2>1, <3>1, <3>2, ObjectCallsType
  <2> QED BY <1>1, <2>2, <2>3 DEF ObjectEntries
<1>2. CASE e \in RelEntries
  <2>1. e.id \in RelIds
      BY <1>2 DEF RelEntries
  <2>2. CASE e.kind = "RelationshipCreated"
    <3>1. rels' = [rels EXCEPT ![e.id] = Absent] /\ objects' = objects
        BY <1>2, <2>2 DEF RelEntries, UndoEffect, RelRemove
    <3>2. Owe(e.id, "Deleted")
        BY <1>2, <2>2 DEF RelEntries, UndoEffect, RelRemove
    <3> QED BY <2>1, <3>1, <3>2, EventType DEF StoresTypeOK, RelFiles, Owe, Entities
  <2>3. CASE e.kind \in {"RelationshipUpdated", "RelationshipDeleted"}
    <3>1. e.before \in Relationships /\ e.before.note \in Contents
        BY <1>2, <2>3 DEF RelEntries, Relationships
    <3>2. RelUpdate(e.id, e.before.note, out) \/ RelRestore(e.id, e.before, out)
        BY <2>3 DEF UndoEffect
    <3> QED BY <2>1, <3>1, <3>2, RelCallsType
  <2> QED BY <1>2, <2>2, <2>3 DEF RelEntries
<1> QED BY <1>1, <1>2 DEF LogEntries

\* The steps of a running call.
LEMMA ContinueType == TypeOK /\ Continue => TypeOK'
<1> SUFFICES ASSUME TypeOK, Continue PROVE TypeOK'
    OBVIOUS
<1>1. ASSUME NEW out \in JournalOutcomes, CommitImplicit(out) PROVE TypeOK'
  <2>1. journal' \in [Transactions -> Verdicts]
      BY <1>1, JournalWriteType DEF CommitImplicit, Verdicts
  <2>2. log' \in Seq(LogEntries)
      BY <1>1, EmptyLogType DEF CommitImplicit
  <2> QED BY <1>1, <2>1, <2>2 DEF CommitImplicit, TypeOK, StoresTypeOK, storeVars
<1>2. ASSUME NEW out \in JournalOutcomes, FinishRollback(out) PROVE TypeOK'
  <2>1. journal' \in [Transactions -> Verdicts]
      BY <1>2, JournalWriteType DEF FinishRollback, Verdicts
  <2>2. batch' \in Batches
      BY <1>2 DEF FinishRollback, NoBatch, Batches, TypeOK
  <2>3. state' \in RuntimeStates
      BY <1>2 DEF FinishRollback, StateAfterRollback, RuntimeStates, TypeOK
  <2> QED BY <1>2, <2>1, <2>2, <2>3 DEF FinishRollback, TypeOK, StoresTypeOK, storeVars
<1>3. ASSUME NEW out \in JournalOutcomes, FinishBatch(out) PROVE TypeOK'
  <2>1. journal' \in [Transactions -> Verdicts]
      BY <1>3, JournalWriteType DEF FinishBatch, Verdicts, TypeOK
  <2>2. batch' \in Batches
      BY <1>3 DEF FinishBatch, NoBatch, Batches, TypeOK
  <2>3. active' \in BOOLEAN /\ log' \in Seq(LogEntries) /\ reply' \in {"ok", "error"}
      BY <1>3, EmptyLogType DEF FinishBatch, TypeOK
  <2> QED BY <1>3, <2>1, <2>2, <2>3 DEF FinishBatch, TypeOK, StoresTypeOK, storeVars
<1>4. ASSUME NEW out \in WriteOutcomes, UndoLast(out) PROVE TypeOK'
  <2>1. StoresTypeOK'
    <3>1. LastEntry \in LogEntries
        BY <1>4, LastEntryType DEF UndoLast
    <3>2. UndoEffect(LastEntry, out) \/ UNCHANGED storeVars
        BY <1>4 DEF UndoLast
    <3>3. StoresTypeOK
        BY DEF TypeOK
    <3> QED BY <3>1, <3>2, <3>3, UndoEffectType DEF StoresTypeOK, storeVars
  <2>2. log' \in Seq(LogEntries)
    <3>1. Len(log) \in Nat /\ Len(log) # 0
        BY <1>4 DEF UndoLast, TypeOK
    <3> QED BY <1>4, <3>1 DEF UndoLast, TypeOK
  <2>3. undoComplete' \in BOOLEAN
      BY <1>4 DEF UndoLast, TypeOK
  <2> QED BY <1>4, <2>1, <2>2, <2>3 DEF UndoLast, TypeOK
<1> QED BY <1>1, <1>2, <1>3, <1>4 DEF Continue

LEMMA CrashType == TypeOK /\ Crash => TypeOK'
<1> SUFFICES ASSUME TypeOK, Crash PROVE TypeOK'
    OBVIOUS
<1>1. batch' \in Batches
    BY DEF Crash, LoseEvent, NoBatch, Batches, TypeOK
<1>2. log' \in Seq(LogEntries)
    BY EmptyLogType DEF Crash, LoseEvent
<1>3. StoresTypeOK'
    BY RecordEventType DEF Crash, LoseEvent, TypeOK
<1> QED BY <1>1, <1>2, <1>3 DEF Crash, LoseEvent, TypeOK, RuntimeStates

LEMMA RecordType == TypeOK /\ Record => TypeOK'
<1> SUFFICES ASSUME TypeOK, Record PROVE TypeOK'
    OBVIOUS
<1>1. StoresTypeOK'
    BY RecordEventType DEF Record, TypeOK
<1> QED BY <1>1 DEF Record, TypeOK, txVars, callVars

LEMMA TypeStep == TypeOK /\ [Next]_vars => TypeOK'
<1>1. TypeOK /\ UNCHANGED vars => TypeOK'
    BY DEF TypeOK, StoresTypeOK, vars, storeVars, txVars, callVars
<1> QED BY <1>1, LifecycleType, MutateType, TransactType, ContinueType, CrashType, RecordType
       DEF Next

\* Type correctness: every reachable state of the runtime is a state of the
\* program, whatever is written, fails, tears or crashes.
THEOREM TypeCorrect == Spec => []TypeOK
BY InitType, TypeStep, PTL DEF Spec
-----------------------------------------------------------------------------
(* Transactions are never stranded. *)

LEMMA NoStrandedStep ==
    ASSUME TypeOK, NoStrandedTransaction, [Next]_vars
    PROVE  NoStrandedTransaction'
<1> USE DEF NoStrandedTransaction
<1>1. CASE Lifecycle
    BY <1>1 DEF Lifecycle, Initialize, OpenRepository, CloseRepository, Shutdown, NewHandle,
                Callable, Leave, StartRollback, txVars
<1>2. CASE Mutate
  <2>1. ASSUME NEW kind, NEW id, NEW before, LogMutation(kind, id, before),
               Callable \/ BatchItem("objects") \/ BatchItem("relationships")
        PROVE  NoStrandedTransaction'
    <3>1. active' = TRUE /\ state' = "RepositoryOpen" /\ reply' # "error"
        BY <2>1 DEF LogMutation, JoinOrOpen, OpenTransaction, Callable, BatchItem
    <3> QED BY <3>1
  <2>2. CASE RefuseMutation
      BY <2>2 DEF RefuseMutation, JoinOrOpen, OpenTransaction, StartRollback, Callable, BatchItem
  <2> QED BY <1>2, <2>1, <2>2
          DEF Mutate, CreateObject, UpdateObject, DeleteObject, CreateRelationship,
              UpdateRelationship, DeleteRelationship
<1>3. CASE Transact
    BY <1>3 DEF Transact, BeginTransaction, CommitTransaction, RollbackTransaction, StartBatch,
                OpenTransaction, JoinOrOpen, StartRollback, Callable
<1>4. CASE Continue
  <2>1. ASSUME NEW out, CommitImplicit(out) PROVE NoStrandedTransaction'
      BY <2>1 DEF CommitImplicit
  <2>2. ASSUME NEW out, FinishRollback(out) PROVE NoStrandedTransaction'
      BY <2>2 DEF FinishRollback, StateAfterRollback
  <2>3. ASSUME NEW out, FinishBatch(out) PROVE NoStrandedTransaction'
      BY <2>3 DEF FinishBatch
  <2>4. ASSUME NEW out, UndoLast(out) PROVE NoStrandedTransaction'
      BY <2>4 DEF UndoLast
  <2> QED BY <1>4, <2>1, <2>2, <2>3, <2>4 DEF Continue
<1>5. CASE Crash
    BY <1>5 DEF Crash, LoseEvent
<1>6. CASE Record \/ UNCHANGED vars
    BY <1>6 DEF Record, RecordEvent, vars, txVars, callVars
<1> QED BY <1>1, <1>2, <1>3, <1>4, <1>5, <1>6 DEF Next

\* No transaction outlives its repository, no undo entry its transaction, and no
\* error is returned with a transaction still open, in every behaviour.
THEOREM NeverStranded == Spec => []NoStrandedTransaction
<1>1. Init => NoStrandedTransaction
    BY DEF Init, NoStrandedTransaction
<1>2. TypeOK /\ NoStrandedTransaction /\ [Next]_vars => NoStrandedTransaction'
    BY NoStrandedStep
<1> QED BY <1>1, <1>2, TypeCorrect, PTL DEF Spec
-----------------------------------------------------------------------------
(* Rollback restores: RollbackInv is inductive when no file is written     *)
(* short.  Its last four conjuncts are preserved for one of four reasons,  *)
(* whatever becomes meanwhile of a set O of files somebody else changes.   *)

UntouchedSameBut(O) ==
    active /\ undoComplete =>
        \A id \in Entities \ O :
            (\A i \in 1..Len(log) : log[i].id # id) => File(id) = BaseFile(id)

FirstHoldsBaseBut(O) ==
    \A i \in 1..Len(log) :
        FirstFor(i) /\ log[i].id \notin O => log[i].before = BaseFile(log[i].id)

LogAndStoresBut(O) == FilesIssued /\ EndsFixed /\ UntouchedSameBut(O) /\ FirstHoldsBaseBut(O)

InvBut(O) ==
    /\ TypeOK
    /\ log # <<>> => active
    /\ pc # "undo" => undoComplete
    /\ FilesIssued
    /\ EndsFixed
    /\ UntouchedSameBut(O)
    /\ FirstHoldsBaseBut(O)

LogAndStores == FilesIssued /\ EndsFixed /\ UntouchedSame /\ FirstHoldsBase

LEMMA InvButNothing ==
    /\ RollbackInv => InvBut({})
    /\ LogAndStoresBut({}) => LogAndStores
    /\ LogAndStoresBut({})' => LogAndStores'
<1>1. UntouchedSame <=> UntouchedSameBut({})
    BY DEF UntouchedSame, UntouchedSameBut
<1>2. UntouchedSame' <=> UntouchedSameBut({})'
    BY DEF UntouchedSame, UntouchedSameBut
<1>3. (FirstHoldsBase <=> FirstHoldsBaseBut({})) /\ (FirstHoldsBase' <=> FirstHoldsBaseBut({})')
    BY DEF FirstHoldsBase, FirstHoldsBaseBut
<1>4. RollbackInv => InvBut({})
    BY <1>1, <1>3 DEF RollbackInv, InvBut, NoStrandedTransaction
<1> QED BY <1>1, <1>2, <1>3, <1>4 DEF LogAndStoresBut, LogAndStores

\* 1. The stores and base stay; the log stays with them or is dropped.
LEMMA QuietStepBut ==
    ASSUME NEW O, InvBut(O),
           UNCHANGED <<objects, rels, base, issued>>,
           log' \in {log, <<>>},
           active' /\ undoComplete' => active /\ undoComplete /\ log' = log
    PROVE  LogAndStoresBut(O)'
<1> USE DEF InvBut
<1>1. \A id : File(id)' = File(id) /\ BaseFile(id)' = BaseFile(id)
    BY DEF File, BaseFile
<1>2. \A i \in 1..Len(log') : i \in 1..Len(log) /\ log'[i] = log[i]
    BY DEF TypeOK
<1>3. FilesIssued'
    BY <1>1, <1>2 DEF FilesIssued
<1>4. EndsFixed'
    BY <1>2 DEF EndsFixed, SameEnds
<1>5. UntouchedSameBut(O)'
    BY <1>1, <1>2 DEF UntouchedSameBut
<1>6. FirstHoldsBaseBut(O)'
  <2>1. CASE log' = log
      BY <1>1, <2>1 DEF FirstHoldsBaseBut, FirstFor
  <2>2. CASE log' = <<>>
      BY <2>2 DEF FirstHoldsBaseBut
  <2> QED BY <2>1, <2>2
<1> QED BY <1>3, <1>4, <1>5, <1>6 DEF LogAndStoresBut

\* 2. A transaction is opened and nothing written yet.
LEMMA OpenedStepBut ==
    ASSUME NEW O, InvBut(O),
           UNCHANGED <<objects, rels, issued>>,
           base' = Snapshot,
           log' = <<>>
    PROVE  LogAndStoresBut(O)'
<1> USE DEF InvBut
<1>1. \A id : File(id)' = File(id) /\ BaseFile(id)' = File(id)
    BY DEF File, BaseFile, Snapshot
<1>2. \A i \in 1..Len(log') : FALSE
    OBVIOUS
<1>3. FilesIssued'
    BY <1>1, <1>2 DEF FilesIssued
<1>4. EndsFixed'
    BY <1>2 DEF EndsFixed, SameEnds, Snapshot
<1>5. UntouchedSameBut(O)'
    BY <1>1 DEF UntouchedSameBut
<1>6. FirstHoldsBaseBut(O)'
    BY <1>2 DEF FirstHoldsBaseBut
<1> QED BY <1>3, <1>4, <1>5, <1>6 DEF LogAndStoresBut
\* 3. A mutation writes one file and appends the entry that holds what was there.
LEMMA MutatedStepBut ==
    ASSUME NEW O, InvBut(O),
           NEW kind, NEW id \in Entities, NEW before,
           pc # "undo",
           LogMutation(kind, id, before),
           before = File(id),
           \A x \in Entities \ {id} : File(x)' = File(x),
           issued' = issued \cup {id},
           \A r \in RelIds : rels'[r] \in Relationships =>
                \/ rels[r] = Absent
                \/ rels[r] \in Relationships /\ SameEnds(rels'[r], rels[r]),
           \/ File(id) # Absent
           \/ id \notin issued
           \/ active /\ BaseFile(id) = Absent
    PROVE  LogAndStoresBut(O)'
<1> USE DEF InvBut
<1> DEFINE n == Len(log)
           e == [kind |-> kind, id |-> id, before |-> before]
           NewBase(x) == IF x \in ObjectIds THEN base'.objects[x] ELSE base'.rels[x]
<1>1. /\ n \in Nat
      /\ log' = Append(log, e)
      /\ Len(log') = n + 1
      /\ log'[n + 1] = e
      /\ \A i \in 1..n : log'[i] = log[i]
    BY DEF TypeOK, LogMutation
<1>2. undoComplete
    OBVIOUS
(* With respect to the transaction's base, old or just taken, everything   *)
(* held before the write.                                                  *)
<1>3. /\ \A x \in Entities : NewBase(x) # Absent => x \in issued
      /\ \A r \in RelIds : rels[r] \in Relationships /\ base'.rels[r] \in Relationships
                              => SameEnds(rels[r], base'.rels[r])
      /\ \A i \in 1..n : /\ log[i].before \in Relationships
                         /\ base'.rels[log[i].id] \in Relationships
                         => SameEnds(log[i].before, base'.rels[log[i].id])
      /\ \A x \in Entities \ O : (\A i \in 1..n : log[i].id # x) => File(x) = NewBase(x)
      /\ \A i \in 1..n : FirstFor(i) /\ log[i].id \notin O => log[i].before = NewBase(log[i].id)
  <2>1. CASE active
    <3>1. base' = base
        BY <2>1 DEF LogMutation, JoinOrOpen
    <3>2. \A x : NewBase(x) = BaseFile(x)
        BY <3>1 DEF BaseFile
    <3>3. \A x \in Entities : NewBase(x) # Absent => x \in issued
        BY <3>2 DEF FilesIssued
    <3>4. /\ \A r \in RelIds : rels[r] \in Relationships /\ base'.rels[r] \in Relationships
                                  => SameEnds(rels[r], base'.rels[r])
          /\ \A i \in 1..n : /\ log[i].before \in Relationships
                             /\ base'.rels[log[i].id] \in Relationships
                             => SameEnds(log[i].before, base'.rels[log[i].id])
        BY <3>1 DEF EndsFixed
    <3>5. \A x \in Entities \ O : (\A i \in 1..n : log[i].id # x) => File(x) = NewBase(x)
        BY <1>2, <2>1, <3>2 DEF UntouchedSameBut
    <3>6. \A i \in 1..n : FirstFor(i) /\ log[i].id \notin O => log[i].before = NewBase(log[i].id)
        BY <3>2 DEF FirstHoldsBaseBut
    <3> QED BY <3>3, <3>4, <3>5, <3>6
  <2>2. CASE ~active
    <3>1. base' = Snapshot
        BY <2>2 DEF LogMutation, JoinOrOpen, OpenTransaction
    <3>2. \A x : NewBase(x) = File(x)
        BY <3>1 DEF BaseFile, File, Snapshot
    <3>3. n = 0
        BY <2>2 DEF InvBut
    <3>4. \A i \in 1..n : FALSE
        BY <3>3
    <3>5. base'.rels = rels
        BY <3>1 DEF Snapshot
    <3> HIDE DEF n
    <3> QED BY <3>2, <3>4, <3>5 DEF FilesIssued, SameEnds
  <2> QED BY <2>1, <2>2 DEF TypeOK
<1>4. FilesIssued'
  <2>1. \A x \in Entities : File(x)' # Absent \/ NewBase(x) # Absent => x \in issued'
      BY <1>3 DEF FilesIssued
  <2>3. \A x \in Entities : BaseFile(x)' = NewBase(x)
      BY DEF BaseFile
  <2>2. \A i \in 1..Len(log') : log'[i].id \in issued'
    <3>1. \A i \in 1..n : log'[i].id \in issued'
        BY <1>1 DEF FilesIssued
    <3> QED BY <1>1, <3>1
  <2> QED BY <2>1, <2>2, <2>3 DEF FilesIssued
<1>5. EndsFixed'
  <2>1. \A r \in RelIds :
           rels'[r] \in Relationships /\ base'.rels[r] \in Relationships
               => SameEnds(rels'[r], base'.rels[r])
    <3> SUFFICES ASSUME NEW r \in RelIds,
                        rels'[r] \in Relationships, base'.rels[r] \in Relationships
                 PROVE  SameEnds(rels'[r], base'.rels[r])
        OBVIOUS
    <3>1. r \notin ObjectIds /\ r \in Entities
        BY DEF Entities
    <3>2. NewBase(r) # Absent
        BY <3>1 DEF BaseFile
    <3>3. r \in issued
        BY <1>3, <3>1, <3>2
    <3>4. File(r) = rels[r] /\ File(r)' = rels'[r]
        BY <3>1 DEF File
    <3>5. rels[r] # Absent
      <4>1. CASE r = id
        <5>1. CASE active
          <6>1. base' = base
              BY <5>1 DEF LogMutation, JoinOrOpen
          <6> QED BY <3>1, <3>2, <3>3, <3>4, <4>1, <6>1 DEF BaseFile
        <5>2. CASE ~active
            BY <3>3, <3>4, <4>1, <5>2
        <5> QED BY <5>1, <5>2
      <4>2. CASE r # id
          BY <3>1, <3>4, <4>2
      <4> QED BY <4>1, <4>2
    <3> QED BY <1>3, <3>5 DEF SameEnds
  <2>2. \A i \in 1..n :
           /\ log'[i].before \in Relationships
           /\ base'.rels[log'[i].id] \in Relationships
           => SameEnds(log'[i].before, base'.rels[log'[i].id])
      BY <1>1, <1>3
  <2>3. ASSUME before \in Relationships, base'.rels[id] \in Relationships
        PROVE  SameEnds(before, base'.rels[id])
    <3>1. id \in RelIds /\ id \notin ObjectIds
      <4>1. id \notin ObjectIds
        <5> SUFFICES ASSUME id \in ObjectIds PROVE FALSE
            OBVIOUS
        <5>1. before = objects[id] /\ objects[id] \in ObjectFiles
            BY DEF File, TypeOK, StoresTypeOK
        <5> QED BY <5>1, <2>3 DEF ObjectFiles
      <4> QED BY <4>1 DEF Entities
    <3>2. before = rels[id]
        BY <3>1 DEF File
    <3> QED BY <3>1, <3>2, <2>3, <1>3
  <2>4. \A i \in 1..Len(log') :
           /\ log'[i].before \in Relationships
           /\ base'.rels[log'[i].id] \in Relationships
           => SameEnds(log'[i].before, base'.rels[log'[i].id])
    <3>1. log'[n + 1].before = before /\ log'[n + 1].id = id
        BY <1>1
    <3>2. \A i \in 1..Len(log') : i \in 1..n \/ i = n + 1
        BY <1>1
    <3> QED BY <3>1, <3>2, <2>2, <2>3
  <2> QED BY <2>1, <2>4 DEF EndsFixed, SameEnds
<1>6. UntouchedSameBut(O)'
  <2> SUFFICES ASSUME NEW x \in Entities \ O, \A i \in 1..Len(log') : log'[i].id # x
               PROVE  File(x)' = NewBase(x)
      BY DEF UntouchedSameBut, BaseFile
  <2>1. x # id
      BY <1>1
  <2>2. \A i \in 1..n : log[i].id # x
      BY <1>1
  <2> QED BY <2>1, <2>2, <1>3
<1>7. FirstHoldsBaseBut(O)'
  <2> SUFFICES ASSUME NEW i \in 1..Len(log'), \A j \in 1..(i - 1) : log'[j].id # log'[i].id,
                      log'[i].id \notin O
               PROVE  log'[i].before = NewBase(log'[i].id)
      BY DEF FirstHoldsBaseBut, FirstFor, BaseFile
  <2>1. CASE i \in 1..n
    <3>1. FirstFor(i)
        BY <1>1, <2>1 DEF FirstFor
    <3> QED BY <1>1, <1>3, <2>1, <3>1
  <2>2. CASE i = n + 1
    <3>1. \A j \in 1..n : log[j].id # id
        BY <1>1, <2>2
    <3> QED BY <1>1, <1>3, <2>2, <3>1
  <2> QED BY <1>1, <2>1, <2>2
<1> QED BY <1>4, <1>5, <1>6, <1>7 DEF LogAndStoresBut
\* What undoing entry e does to the files, when nothing is written short.
LEMMA UndoEffectFiles ==
    ASSUME StoresTypeOK, NEW e \in LogEntries, NEW out, out # "torn", UndoEffect(e, out)
    PROVE  /\ e.id \in Entities
           /\ \A x \in Entities \ {e.id} : File(x)' = File(x)
           /\ e.kind # "RelationshipUpdated" => File(e.id)' = e.before
           /\ e.kind = "RelationshipUpdated" =>
                 /\ rels[e.id] \in Relationships
                 /\ File(e.id)' = [rels[e.id] EXCEPT !.note = e.before.note]
<1>1. CASE e \in ObjectEntries
  <2>1. e.id \in ObjectIds /\ e.kind \in {"ObjectCreated", "ObjectUpdated", "ObjectDeleted"}
      BY <1>1 DEF ObjectEntries
  <2>2. rels' = rels /\ objects' = [objects EXCEPT ![e.id] = e.before]
    <3>1. CASE e.kind = "ObjectCreated"
        BY <1>1, <3>1 DEF ObjectEntries, UndoEffect, ObjectRemove
    <3>2. CASE e.kind = "ObjectUpdated"
        BY <3>2 DEF UndoEffect, ObjectUpdate, Written
    <3>3. CASE e.kind = "ObjectDeleted"
        BY <3>3 DEF UndoEffect, ObjectRestore, Written
    <3> QED BY <2>1, <3>1, <3>2, <3>3
  <2> QED BY <2>1, <2>2 DEF File, StoresTypeOK, Entities
<1>2. CASE e \in RelEntries
  <2>1. /\ e.id \in RelIds /\ e.id \notin ObjectIds
        /\ e.kind \in {"RelationshipCreated", "RelationshipUpdated", "RelationshipDeleted"}
      BY <1>2 DEF RelEntries
  <2>2. objects' = objects
      BY <2>1 DEF UndoEffect, RelRemove, RelUpdate, RelRestore
  <2>3. CASE e.kind = "RelationshipUpdated"
    <3>1. /\ rels[e.id] \in Relationships
          /\ rels' = [rels EXCEPT ![e.id] = [rels[e.id] EXCEPT !.note = e.before.note]]
        BY <2>3 DEF UndoEffect, RelUpdate, RelLoads, Written
    <3> QED BY <2>1, <2>2, <2>3, <3>1 DEF File, StoresTypeOK, Entities
  <2>4. CASE e.kind # "RelationshipUpdated"
    <3>1. rels' = [rels EXCEPT ![e.id] = e.before]
      <4>1. CASE e.kind = "RelationshipCreated"
          BY <1>2, <4>1 DEF RelEntries, UndoEffect, RelRemove
      <4>2. CASE e.kind = "RelationshipDeleted"
          BY <4>2 DEF UndoEffect, RelRestore, Written
      <4> QED BY <2>1, <2>4, <4>1, <4>2
    <3> QED BY <2>1, <2>2, <2>4, <3>1 DEF File, StoresTypeOK, Entities
  <2> QED BY <2>3, <2>4
<1> QED BY <1>1, <1>2 DEF LogEntries

\* A log without its last entry.
LEMMA FrontOfLog ==
    ASSUME NEW s \in Seq(LogEntries), s # <<>>
    PROVE  /\ Len(s) \in Nat \ {0}
           /\ Len(SubSeq(s, 1, Len(s) - 1)) = Len(s) - 1
           /\ \A i \in 1..(Len(s) - 1) : SubSeq(s, 1, Len(s) - 1)[i] = s[i]
<1>1. Len(s) \in Nat \ {0}
    OBVIOUS
<1>2. PICK k \in Nat : k = Len(s) - 1
    BY <1>1
<1>3. \A i \in 1..k : s[i] \in LogEntries
    BY <1>1, <1>2
<1>4. /\ Len(SubSeq(s, 1, k)) = k
      /\ \A i \in 1..k : SubSeq(s, 1, k)[i] = s[i]
    BY <1>3, SubSeqProperties
<1> QED BY <1>1, <1>2, <1>4

\* 4. The last entry is undone, or its undo fails, and it leaves the log.
LEMMA UndoneStepBut ==
    ASSUME NEW O, InvBut(O), NEW out, out # "torn", UndoLast(out)
    PROVE  LogAndStoresBut(O)'
<1> USE DEF InvBut
<1> DEFINE n == Len(log)
<1>1. /\ n \in Nat \ {0}
      /\ Len(log') = n - 1
      /\ \A i \in 1..(n - 1) : log'[i] = log[i]
      /\ LastEntry = log[n]
      /\ LastEntry \in LogEntries
  <2>1. log \in Seq(LogEntries) /\ log # <<>>
      BY DEF UndoLast, TypeOK
  <2>2. n \in Nat \ {0}
      BY <2>1
  <2>3. log' = SubSeq(log, 1, n - 1)
      BY DEF UndoLast
  <2>4. Len(log') = n - 1 /\ \A i \in 1..(n - 1) : log'[i] = log[i]
      BY <2>1, <2>3, FrontOfLog
  <2> QED BY <2>1, <2>2, <2>4, LastEntryType DEF LastEntry
<1>2. UNCHANGED <<base, issued, active>>
    BY DEF UndoLast
<1>3. \A x : BaseFile(x)' = BaseFile(x)
    BY <1>2 DEF BaseFile
<1>4. StoresTypeOK
    BY DEF TypeOK
<1>5. FirstHoldsBaseBut(O)'
  <2> SUFFICES ASSUME NEW i \in 1..Len(log'), \A j \in 1..(i - 1) : log'[j].id # log'[i].id,
                      log'[i].id \notin O
               PROVE  log'[i].before = BaseFile(log'[i].id)
      BY <1>2 DEF FirstHoldsBaseBut, FirstFor, BaseFile
  <2>1. i \in 1..n /\ FirstFor(i) /\ log'[i] = log[i]
      BY <1>1 DEF FirstFor
  <2> QED BY <2>1 DEF FirstHoldsBaseBut
<1>6. CASE UNCHANGED storeVars /\ undoComplete' = FALSE
  <2>1. \A x : File(x)' = File(x)
      BY <1>6 DEF File, storeVars
  <2>2. FilesIssued'
      BY <1>1, <1>2, <1>3, <2>1 DEF FilesIssued
  <2>3. EndsFixed'
      BY <1>1, <1>2, <1>6 DEF EndsFixed, SameEnds, storeVars
  <2>4. UntouchedSameBut(O)'
      BY <1>6 DEF UntouchedSameBut
  <2> QED BY <1>5, <2>2, <2>3, <2>4 DEF LogAndStoresBut
<1>7. CASE UndoEffect(LastEntry, out) /\ UNCHANGED undoComplete
  <2>0. PICK e \in LogEntries : e = LastEntry
      BY <1>1
  <2>1. /\ e.id \in Entities
        /\ \A x \in Entities \ {e.id} : File(x)' = File(x)
        /\ e.kind # "RelationshipUpdated" => File(e.id)' = e.before
        /\ e.kind = "RelationshipUpdated" =>
              /\ rels[e.id] \in Relationships
              /\ File(e.id)' = [rels[e.id] EXCEPT !.note = e.before.note]
    <3>1. UndoEffect(e, out)
        BY <2>0, <1>7
    <3> QED BY <1>4, <3>1, UndoEffectFiles
  <2>2. e.id \in issued
      BY <1>1, <2>0 DEF FilesIssued
  <2>3. FilesIssued'
    <3>1. \A x \in Entities : File(x)' # Absent \/ BaseFile(x)' # Absent => x \in issued'
        BY <1>2, <1>3, <2>1, <2>2 DEF FilesIssued
    <3>2. \A i \in 1..Len(log') : log'[i].id \in issued'
        BY <1>1, <1>2 DEF FilesIssued
    <3> QED BY <3>1, <3>2 DEF FilesIssued
  <2>4. EndsFixed'
    <3>1. \A i \in 1..Len(log') :
             /\ log'[i].before \in Relationships
             /\ base'.rels[log'[i].id] \in Relationships
             => SameEnds(log'[i].before, base'.rels[log'[i].id])
        BY <1>1, <1>2 DEF EndsFixed
    <3>2. ASSUME NEW r \in RelIds, rels'[r] \in Relationships, base.rels[r] \in Relationships
          PROVE  SameEnds(rels'[r], base.rels[r])
      <4>1. r \in Entities /\ File(r)' = rels'[r] /\ File(r) = rels[r]
          BY DEF File, Entities
      <4>2. CASE r # e.id
          BY <2>1, <3>2, <4>1, <4>2 DEF EndsFixed
      <4>3. CASE r = e.id /\ e.kind = "RelationshipUpdated"
        <5>1. rels[r] \in Relationships /\ rels'[r] = [rels[r] EXCEPT !.note = e.before.note]
            BY <2>1, <4>1, <4>3
        <5>2. SameEnds(rels[r], base.rels[r])
            BY <3>2, <5>1 DEF EndsFixed
        <5> QED BY <5>1, <5>2 DEF SameEnds, Relationships
      <4>4. CASE r = e.id /\ e.kind # "RelationshipUpdated"
        <5>1. rels'[r] = log[n].before /\ log[n].id = r
            BY <1>1, <2>0, <2>1, <4>1, <4>4
        <5> QED BY <1>1, <3>2, <5>1 DEF EndsFixed
      <4> QED BY <4>2, <4>3, <4>4
    <3> QED BY <1>2, <3>1, <3>2 DEF EndsFixed, SameEnds
  <2>5. UntouchedSameBut(O)'
    <3> SUFFICES ASSUME active, undoComplete, NEW x \in Entities \ O,
                        \A i \in 1..Len(log') : log'[i].id # x
                 PROVE  File(x)' = BaseFile(x)
        BY <1>2, <1>3, <1>7 DEF UntouchedSameBut
    <3>1. \A i \in 1..(n - 1) : log[i].id # x
        BY <1>1
    <3>2. CASE x # e.id
      <4>1. \A i \in 1..n : log[i].id # x
          BY <1>1, <2>0, <3>1, <3>2
      <4> QED BY <2>1, <3>2, <4>1 DEF UntouchedSameBut
    <3>3. CASE x = e.id
      <4>1. e.before = BaseFile(x)
        <5>1. FirstFor(n)
            BY <1>1, <2>0, <3>1, <3>3 DEF FirstFor
        <5> QED BY <1>1, <2>0, <3>3, <5>1 DEF FirstHoldsBaseBut
      <4>2. CASE e.kind # "RelationshipUpdated"
          BY <2>1, <3>3, <4>1, <4>2
      <4>3. CASE e.kind = "RelationshipUpdated"
        <5>1. x \in RelIds /\ x \notin ObjectIds /\ e.before \in Relationships
            BY <2>0, <3>3, <4>3 DEF LogEntries, ObjectEntries, RelEntries
        <5>2. base.rels[x] = e.before
            BY <4>1, <5>1 DEF BaseFile
        <5>3. rels[x] \in Relationships /\ SameEnds(rels[x], e.before)
            BY <2>1, <3>3, <4>3, <5>1, <5>2 DEF EndsFixed, SameEnds
        <5>4. [rels[x] EXCEPT !.note = e.before.note] = e.before
            BY <5>1, <5>3 DEF SameEnds, Relationships
        <5> QED BY <2>1, <3>3, <4>1, <4>3, <5>4
      <4> QED BY <4>2, <4>3
    <3> QED BY <3>2, <3>3
  <2> QED BY <1>5, <2>3, <2>4, <2>5 DEF LogAndStoresBut
<1> QED BY <1>6, <1>7 DEF UndoLast
\* The mutations, one by one, are steps of the third kind.
LEMMA ObjectMutationStepBut ==
    ASSUME NEW O, InvBut(O), NEW o \in ObjectIds, NEW kind, NEW before, NEW new,
           Callable \/ BatchItem("objects"),
           LogMutation(kind, o, before),
           before = objects[o],
           objects' = [objects EXCEPT ![o] = new],
           rels' = rels,
           \/ o \notin issued /\ issued' = issued \cup {o}
           \/ objects[o] # Absent /\ issued' = issued
    PROVE  LogAndStoresBut(O)'
<1> USE DEF InvBut
<1>1. o \in Entities
    BY DEF Entities
<1>2. \A x \in Entities \ {o} : File(x)' = File(x)
    BY DEF File, TypeOK, StoresTypeOK
<1>3. File(o) = before
    BY DEF File
<1>4. issued' = issued \cup {o}
    BY <1>1, <1>3 DEF FilesIssued
<1>5. pc # "undo"
    BY DEF Callable, BatchItem
<1>6. \A r \in RelIds : rels'[r] \in Relationships =>
          \/ rels[r] = Absent
          \/ rels[r] \in Relationships /\ SameEnds(rels'[r], rels[r])
    BY DEF SameEnds
<1>7. File(o) # Absent \/ o \notin issued
    BY <1>3
<1> QED BY <1>1, <1>2, <1>3, <1>4, <1>5, <1>6, <1>7, MutatedStepBut

LEMMA RelMutationStepBut ==
    ASSUME NEW O, InvBut(O), NEW r \in RelIds, NEW kind, NEW before, NEW new,
           Callable \/ BatchItem("relationships"),
           LogMutation(kind, r, before),
           before = rels[r],
           rels' = [rels EXCEPT ![r] = new],
           objects' = objects,
           \/ rels[r] = Absent
           \/ new \in {Absent, Torn}
           \/ rels[r] \in Relationships /\ SameEnds(new, rels[r]),
           \/ r \notin issued /\ issued' = issued \cup {r}
           \/ rels[r] # Absent /\ issued' = issued
    PROVE  LogAndStoresBut(O)'
<1> USE DEF InvBut
<1>1. r \in Entities /\ r \notin ObjectIds
    BY DEF Entities
<1>2. \A x \in Entities \ {r} : File(x)' = File(x)
    BY DEF File, TypeOK, StoresTypeOK, Entities
<1>3. File(r) = before
    BY <1>1 DEF File
<1>4. issued' = issued \cup {r}
    BY <1>1, <1>3 DEF FilesIssued
<1>5. pc # "undo"
    BY DEF Callable, BatchItem
<1>6. \A q \in RelIds : rels'[q] \in Relationships =>
          \/ rels[q] = Absent
          \/ rels[q] \in Relationships /\ SameEnds(rels'[q], rels[q])
    BY DEF SameEnds, TypeOK, StoresTypeOK
<1>7. File(r) # Absent \/ r \notin issued
    BY <1>3
<1> QED BY <1>1, <1>2, <1>3, <1>4, <1>5, <1>6, <1>7, MutatedStepBut

LEMMA MutateStepBut ==
    ASSUME NEW O, InvBut(O), Mutate
    PROVE  LogAndStoresBut(O)'
<1>1. ASSUME NEW o \in ObjectIds, NEW c \in Contents, NEW out, CreateObject(o, c, out)
      PROVE  LogAndStoresBut(O)'
    BY <1>1, ObjectMutationStepBut DEF CreateObject, ObjectCreate
<1>2. ASSUME NEW o \in ObjectIds, NEW c \in Contents, NEW out, UpdateObject(o, c, out)
      PROVE  LogAndStoresBut(O)'
  <2>1. objects[o] # Absent
      BY <1>2 DEF UpdateObject, ObjectUpdate, ObjectLoads
  <2> QED BY <1>2, <2>1, ObjectMutationStepBut DEF UpdateObject, ObjectUpdate
<1>3. ASSUME NEW o \in ObjectIds, DeleteObject(o) PROVE LogAndStoresBut(O)'
  <2>1. objects[o] # Absent
      BY <1>3 DEF DeleteObject, ObjectRemove
  <2> QED BY <1>3, <2>1, ObjectMutationStepBut DEF DeleteObject, ObjectRemove
<1>4. ASSUME NEW r \in RelIds, NEW v \in Relationships, NEW out, CreateRelationship(r, v, out)
      PROVE  LogAndStoresBut(O)'
    BY <1>4, RelMutationStepBut DEF CreateRelationship, RelCreate, RelFits
<1>5. ASSUME NEW r \in RelIds, NEW note \in Contents, NEW out, UpdateRelationship(r, note, out)
      PROVE  LogAndStoresBut(O)'
  <2>1. rels[r] \in Relationships /\ rels[r] # Absent
      BY <1>5 DEF UpdateRelationship, RelUpdate, RelLoads
  <2> DEFINE new == Written([rels[r] EXCEPT !.note = note], out)
  <2>2. new = Torn \/ SameEnds(new, rels[r])
      BY <2>1 DEF Written, SameEnds, Relationships
  <2>3. rels' = [rels EXCEPT ![r] = new] /\ objects' = objects
      BY <1>5 DEF UpdateRelationship, RelUpdate
  <2>4. Callable /\ LogMutation("RelationshipUpdated", r, rels[r]) /\ issued' = issued
      BY <1>5 DEF UpdateRelationship
  <2> HIDE DEF new
  <2> QED BY <2>1, <2>2, <2>3, <2>4, RelMutationStepBut
<1>6. ASSUME NEW r \in RelIds, DeleteRelationship(r) PROVE LogAndStoresBut(O)'
  <2>1. rels[r] # Absent
      BY <1>6 DEF DeleteRelationship, RelRemove
  <2> QED BY <1>6, <2>1, RelMutationStepBut DEF DeleteRelationship, RelRemove
<1>7. CASE RefuseMutation
  <2>1. UNCHANGED <<objects, rels, issued, log>> /\ undoComplete /\ JoinOrOpen
      BY <1>7 DEF RefuseMutation, StartRollback, storeVars, InvBut, Callable, BatchItem
  <2>2. CASE active
      BY <2>1, <2>2, QuietStepBut DEF JoinOrOpen
  <2>3. CASE ~active
    <3>1. log = <<>>
        BY <2>3 DEF InvBut
    <3> QED BY <2>1, <2>3, <3>1, OpenedStepBut DEF JoinOrOpen, OpenTransaction
  <2> QED BY <2>2, <2>3
<1> QED BY <1>1, <1>2, <1>3, <1>4, <1>5, <1>6, <1>7 DEF Mutate

LEMMA OtherStepsBut ==
    ASSUME NEW O, InvBut(O), Lifecycle \/ Transact \/ Continue \/ Crash \/ Record \/ UNCHANGED vars,
           "torn" \notin WriteOutcomes
    PROVE  LogAndStoresBut(O)'
<1> USE DEF InvBut
<1>1. CASE Lifecycle
  <2>1. UNCHANGED <<objects, rels, base, issued, log, active>>
      BY <1>1 DEF Lifecycle, Initialize, OpenRepository, CloseRepository, Shutdown, NewHandle,
                  Leave, StartRollback, storeVars, txVars
  <2>2. undoComplete' => undoComplete
      BY <1>1 DEF Lifecycle, Initialize, OpenRepository, CloseRepository, Shutdown, NewHandle,
                  Callable, Leave, StartRollback
  <2> QED BY <2>1, <2>2, QuietStepBut
<1>2. CASE BeginTransaction
    BY <1>2, OpenedStepBut DEF BeginTransaction, OpenTransaction, storeVars
<1>3. ASSUME NEW out, CommitTransaction(out) PROVE LogAndStoresBut(O)'
    BY <1>3, QuietStepBut DEF CommitTransaction, storeVars
<1>4. CASE RollbackTransaction
    BY <1>4, QuietStepBut DEF RollbackTransaction, StartRollback, Callable, storeVars
<1>5. ASSUME NEW kind, NEW k, StartBatch(kind, k) PROVE LogAndStoresBut(O)'
  <2>1. CASE active
      BY <1>5, <2>1, QuietStepBut DEF StartBatch, JoinOrOpen, storeVars
  <2>2. CASE ~active
      BY <1>5, <2>2, OpenedStepBut DEF StartBatch, JoinOrOpen, OpenTransaction, storeVars
  <2> QED BY <2>1, <2>2
<1>6. ASSUME NEW out, CommitImplicit(out) PROVE LogAndStoresBut(O)'
    BY <1>6, QuietStepBut DEF CommitImplicit, storeVars
<1>7. ASSUME NEW out, FinishRollback(out) PROVE LogAndStoresBut(O)'
    BY <1>7, QuietStepBut DEF FinishRollback, storeVars
<1>8. ASSUME NEW out, FinishBatch(out) PROVE LogAndStoresBut(O)'
    BY <1>8, QuietStepBut DEF FinishBatch, storeVars
<1>9. ASSUME NEW out \in WriteOutcomes, UndoLast(out) PROVE LogAndStoresBut(O)'
    BY <1>9, UndoneStepBut
<1>10. CASE Crash
    BY <1>10, QuietStepBut DEF Crash, LoseEvent, storeVars
<1>11. CASE Record \/ UNCHANGED vars
    BY <1>11, QuietStepBut DEF Record, RecordEvent, vars, storeVars, txVars, callVars
<1>12. CASE Transact
    BY <1>2, <1>3, <1>4, <1>5, <1>12 DEF Transact
<1>13. CASE Continue
    BY <1>6, <1>7, <1>8, <1>9, <1>13 DEF Continue
<1> QED BY <1>1, <1>10, <1>11, <1>12, <1>13

\* When nobody else changes files.
LEMMA QuietStep ==
    ASSUME RollbackInv,
           UNCHANGED <<objects, rels, base, issued>>,
           log' \in {log, <<>>},
           active' /\ undoComplete' => active /\ undoComplete /\ log' = log
    PROVE  LogAndStores'
BY QuietStepBut, InvButNothing

LEMMA OpenedStep ==
    ASSUME RollbackInv,
           UNCHANGED <<objects, rels, issued>>,
           base' = Snapshot,
           log' = <<>>
    PROVE  LogAndStores'
BY OpenedStepBut, InvButNothing

LEMMA MutatedStep ==
    ASSUME RollbackInv,
           NEW kind, NEW id \in Entities, NEW before,
           pc # "undo",
           LogMutation(kind, id, before),
           before = File(id),
           \A x \in Entities \ {id} : File(x)' = File(x),
           issued' = issued \cup {id},
           \A r \in RelIds : rels'[r] \in Relationships =>
                \/ rels[r] = Absent
                \/ rels[r] \in Relationships /\ SameEnds(rels'[r], rels[r]),
           \/ File(id) # Absent
           \/ id \notin issued
           \/ active /\ BaseFile(id) = Absent
    PROVE  LogAndStores'
BY MutatedStepBut, InvButNothing

LEMMA UndoCompleteStep ==
    ASSUME pc # "undo" => undoComplete, [Next]_vars
    PROVE  (pc # "undo" => undoComplete)'
BY DEF Next, Lifecycle, Initialize, OpenRepository, CloseRepository, Shutdown, NewHandle, Leave,
       Mutate, CreateObject, UpdateObject, DeleteObject, CreateRelationship, UpdateRelationship,
       DeleteRelationship, RefuseMutation, LogMutation, Transact, BeginTransaction,
       CommitTransaction, RollbackTransaction, StartBatch, StartRollback, Continue,
       CommitImplicit, FinishRollback, FinishBatch, UndoLast, Crash, Record, Callable,
       BatchItem, vars, callVars

LEMMA RollbackInvStep ==
    ASSUME "torn" \notin WriteOutcomes, RollbackInv, [Next]_vars
    PROVE  RollbackInv'
<1>1. TypeOK'
    BY TypeStep DEF RollbackInv
<1>2. NoStrandedTransaction'
    BY NoStrandedStep DEF RollbackInv
<1>3. (pc # "undo" => undoComplete)'
    BY UndoCompleteStep DEF RollbackInv
<1>4. LogAndStores'
  <2>1. LogAndStoresBut({})'
      BY InvButNothing, MutateStepBut, OtherStepsBut DEF Next
  <2> QED BY <2>1, InvButNothing
<1> QED BY <1>1, <1>2, <1>3, <1>4 DEF RollbackInv, LogAndStores

LEMMA RollbackInvInit == Init => RollbackInv
<1> SUFFICES ASSUME Init PROVE RollbackInv
    OBVIOUS
<1>1. TypeOK /\ NoStrandedTransaction /\ log = <<>> /\ undoComplete
    BY InitType DEF Init, NoStrandedTransaction
<1>2. \A id : File(id) = BaseFile(id)
    BY DEF Init, Snapshot, File, BaseFile
<1>3. FilesIssued
  <2>1. \A id \in Entities : File(id) # Absent => audit[id] = "Written"
      BY DEF Init, StoresInit, File, Entities
  <2> QED BY <1>1, <1>2, <2>1 DEF Init, FilesIssued
<1>4. EndsFixed
    BY <1>1 DEF Init, Snapshot, EndsFixed, SameEnds
<1>5. UntouchedSame /\ FirstHoldsBase
    BY <1>1, <1>2 DEF UntouchedSame, FirstHoldsBase
<1> QED BY <1>1, <1>3, <1>4, <1>5 DEF RollbackInv

LEMMA RollbackInvGivesRestored ==
    ASSUME RollbackInv
    PROVE  RolledBackMeansRestored
<1> SUFFICES ASSUME pc = "undo", log = <<>>, undoComplete PROVE Snapshot = base
    BY DEF RolledBackMeansRestored
<1>1. active
    BY DEF RollbackInv, NoStrandedTransaction
<1>2. \A id \in Entities : File(id) = BaseFile(id)
    BY <1>1 DEF RollbackInv, UntouchedSame
<1>3. \A o \in ObjectIds : objects[o] = base.objects[o]
    BY <1>2 DEF File, BaseFile, Entities
<1>4. \A r \in RelIds : rels[r] = base.rels[r]
    BY <1>2 DEF File, BaseFile, Entities
<1>5. objects = base.objects /\ rels = base.rels
    BY <1>3, <1>4 DEF RollbackInv, TypeOK, StoresTypeOK, Snapshots
<1> QED BY <1>5 DEF RollbackInv, TypeOK, Snapshots, Snapshot

\* The relation between undo log, stores and the transaction's beginning that the
\* replay of the log relies on (rollback_transaction_internal).
THEOREM RollbackInvariant ==
    ASSUME "torn" \notin WriteOutcomes
    PROVE  Spec => []RollbackInv
<1>1. RollbackInv /\ [Next]_vars => RollbackInv'
    BY RollbackInvStep
<1> QED BY <1>1, RollbackInvInit, PTL DEF Spec

\* A rollback whose undos all reported success has restored both stores exactly,
\* whatever calls, refusals, write failures and crashes came before - provided no
\* file is ever written short without the code noticing.
THEOREM RollbackRestores ==
    ASSUME "torn" \notin WriteOutcomes
    PROVE  Spec => []RolledBackMeansRestored
<1>1. RollbackInv /\ [Next]_vars => RollbackInv'
    BY RollbackInvStep
<1> QED BY <1>1, RollbackInvInit, RollbackInvGivesRestored, PTL DEF Spec
-----------------------------------------------------------------------------
(* The runtime implements AtomicTransactions.                              *)

LEMMA RefinementInit == Init => Atomic!AInit
<1> SUFFICES ASSUME Init PROVE Atomic!AInit
    OBVIOUS
<1>1. Snapshot \in Snapshots
    BY InitType, SnapshotType DEF TypeOK
<1> QED BY <1>1 DEF Init, Atomic!AInit, Transactions

\* A step that writes or opens inside a transaction.
LEMMA RefinesWork ==
    ASSUME TypeOK', active, UNCHANGED <<active, base, tx, journal>>
    PROVE  Atomic!Work
<1>1. Snapshot' \in Snapshots
    BY DEF TypeOK, StoresTypeOK, Snapshot, Snapshots
<1> QED BY <1>1 DEF Atomic!Work

LEMMA RefinesBegin ==
    ASSUME TypeOK', ~active, OpenTransaction, UNCHANGED journal
    PROVE  Atomic!Begin
<1>1. Snapshot' \in Snapshots
    BY DEF TypeOK, StoresTypeOK, Snapshot, Snapshots
<1> QED BY <1>1 DEF Atomic!Begin, OpenTransaction

LEMMA RefinesJoinOrOpen ==
    ASSUME TypeOK, TypeOK', JoinOrOpen, UNCHANGED journal
    PROVE  Atomic!ANext
<1>1. CASE active
    BY <1>1, RefinesWork DEF JoinOrOpen, Atomic!ANext
<1>2. CASE ~active
    BY <1>2, RefinesBegin DEF JoinOrOpen, Atomic!ANext
<1> QED BY <1>1, <1>2

\* A step that closes the transaction, with or without its journal record.
LEMMA RefinesClose ==
    ASSUME active, active' = FALSE, UNCHANGED <<objects, rels, base, tx>>,
           NEW verdict \in {"Committed", "RolledBack", "Failed"}, NEW out,
           verdict = "RolledBack" => Snapshot = base,
           JournalWrite(verdict, out) \/ UNCHANGED journal
    PROVE  Atomic!ANext
<1>1. Snapshot' = Snapshot
    BY DEF Snapshot
<1>2. journal' \in {journal, [journal EXCEPT ![tx] = verdict]}
    BY DEF JournalWrite
<1>3. Atomic!Close(verdict)
    BY <1>1, <1>2 DEF Atomic!Close
<1> QED BY <1>3 DEF Atomic!ANext, Atomic!Verdicts

LEMMA RefinesStutter ==
    ASSUME UNCHANGED <<objects, rels, active, base, tx, journal>>
    PROVE  UNCHANGED Atomic!absVars
BY DEF Atomic!absVars, Snapshot

LEMMA RefinementStep ==
    ASSUME RollbackInv, TypeOK', [Next]_vars
    PROVE  [Atomic!ANext]_(Atomic!absVars)
<1> USE DEF RollbackInv, NoStrandedTransaction
<1>1. CASE Lifecycle
  <2>1. UNCHANGED <<objects, rels, active, base, tx, journal>>
      BY <1>1 DEF Lifecycle, Initialize, OpenRepository, CloseRepository, Shutdown, NewHandle,
                  Leave, StartRollback, storeVars, txVars
  <2> QED BY <2>1, RefinesStutter
<1>2. CASE Mutate
  <2>1. JoinOrOpen /\ UNCHANGED journal
      BY <1>2 DEF Mutate, CreateObject, UpdateObject, DeleteObject, CreateRelationship,
                  UpdateRelationship, DeleteRelationship, RefuseMutation, LogMutation,
                  StartRollback
  <2> QED BY <2>1, RefinesJoinOrOpen
<1>3. CASE Transact
  <2>1. CASE BeginTransaction
      BY <2>1, RefinesBegin DEF BeginTransaction, Atomic!ANext
  <2>2. ASSUME NEW out, CommitTransaction(out) PROVE Atomic!ANext
      BY <2>2, RefinesClose DEF CommitTransaction, storeVars
  <2>3. CASE RollbackTransaction
      BY <2>3, RefinesStutter DEF RollbackTransaction, StartRollback, storeVars
  <2>4. ASSUME NEW kind, NEW n, StartBatch(kind, n) PROVE Atomic!ANext
      BY <2>4, RefinesJoinOrOpen DEF StartBatch
  <2> QED BY <1>3, <2>1, <2>2, <2>3, <2>4 DEF Transact
<1>4. CASE Continue
  <2>1. ASSUME NEW out, CommitImplicit(out) PROVE Atomic!ANext
      BY <2>1, RefinesClose DEF CommitImplicit, storeVars
  <2>2. ASSUME NEW out, FinishRollback(out) PROVE Atomic!ANext
    <3>1. undoComplete => Snapshot = base
        BY <2>2, RollbackInvGivesRestored DEF FinishRollback, RolledBackMeansRestored
    <3>2. PICK verdict \in {"RolledBack", "Failed"} :
             verdict = IF undoComplete THEN "RolledBack" ELSE "Failed"
        OBVIOUS
    <3>3. JournalWrite(verdict, out)
        BY <2>2, <3>2 DEF FinishRollback
    <3> QED BY <2>2, <3>1, <3>2, <3>3, RefinesClose DEF FinishRollback, storeVars
  <2>3. ASSUME NEW out, FinishBatch(out) PROVE [Atomic!ANext]_(Atomic!absVars)
    <3>1. CASE batch.own
        BY <2>3, <3>1, RefinesClose DEF FinishBatch, storeVars
    <3>2. CASE ~batch.own
        BY <2>3, <3>2, RefinesStutter DEF FinishBatch, storeVars
    <3> QED BY <3>1, <3>2
  <2>4. ASSUME NEW out, UndoLast(out) PROVE Atomic!ANext
      BY <2>4, RefinesWork DEF UndoLast, Atomic!ANext
  <2> QED BY <1>4, <2>1, <2>2, <2>3, <2>4 DEF Continue
<1>5. CASE Crash
  <2>1. CASE active
    <3>1. active' = FALSE /\ UNCHANGED <<objects, rels, base, tx, journal>>
        BY <1>5 DEF Crash, LoseEvent, storeVars
    <3>2. PICK verdict \in {"Committed", "RolledBack", "Failed"} : verdict = "Failed"
        OBVIOUS
    <3>3. Atomic!ANext
        BY <2>1, <3>1, <3>2, RefinesClose
    <3> QED BY <3>3
  <2>2. CASE ~active
    <3>1. active = FALSE
        BY <2>2 DEF RollbackInv, TypeOK
    <3>2. UNCHANGED <<objects, rels, active, base, tx, journal>>
        BY <1>5, <3>1 DEF Crash, LoseEvent, storeVars
    <3> QED BY <3>2, RefinesStutter
  <2> QED BY <2>1, <2>2
<1>6. CASE Record \/ UNCHANGED vars
    BY <1>6, RefinesStutter DEF Record, RecordEvent, vars, storeVars, txVars
<1> QED BY <1>1, <1>2, <1>3, <1>4, <1>5, <1>6 DEF Next

\* The transaction engine implements atomic transactions: the stores change only
\* inside a transaction, a transaction closes once, its record is written then or
\* never, and it says RolledBack only over restored stores.
THEOREM ImplementsAtomicTransactions ==
    ASSUME "torn" \notin WriteOutcomes
    PROVE  Spec => AtomicSpec
<1>1. RollbackInv /\ [Next]_vars => RollbackInv'
    BY RollbackInvStep
<1>2. RollbackInv => TypeOK
    BY DEF RollbackInv
<1>3. RollbackInv /\ TypeOK' /\ [Next]_vars => [Atomic!ANext]_(Atomic!absVars)
    BY RefinementStep
<1> QED BY <1>1, <1>2, <1>3, RollbackInvInit, RefinementInit, PTL
        DEF Spec, AtomicSpec, Atomic!ASpec
-----------------------------------------------------------------------------
(* On a disk that writes all or nothing, no file is ever short.            *)

NothingTorn == (\A o \in ObjectIds : objects[o] # Torn) /\ (\A r \in RelIds : rels[r] # Torn)

LEMMA WholeValues ==
    /\ Torn # Absent /\ (\A c \in Contents : c # Torn) /\ (\A v \in Relationships : v # Torn)
    /\ \A v, out : out # "torn" => Written(v, out) = v
BY DEF Written

LEMMA UndoTearsNothing ==
    ASSUME "torn" \notin WriteOutcomes, TypeOK, NothingTorn, NEW out \in WriteOutcomes, UndoLast(out)
    PROVE  NothingTorn'
<1>1. CASE UNCHANGED storeVars
    BY <1>1 DEF storeVars, NothingTorn
<1>2. CASE UndoEffect(LastEntry, out)
  <2>1. PICK e \in LogEntries : e = LastEntry
      BY LastEntryType DEF UndoLast
  <2>2. /\ objects \in [ObjectIds -> ObjectFiles] /\ rels \in [RelIds -> RelFiles]
        /\ out # "torn"
      BY DEF TypeOK, StoresTypeOK
  <2>3. UndoEffect(e, out)
      BY <1>2, <2>1
  <2>4. CASE e \in ObjectEntries
    <3>1. e.before \in Contents \/ e.kind = "ObjectCreated"
        BY <2>4 DEF ObjectEntries
    <3>2. e.kind \in {"ObjectCreated", "ObjectUpdated", "ObjectDeleted"}
        BY <2>4 DEF ObjectEntries
    <3>3. \E new : new # Torn /\ objects' = [objects EXCEPT ![e.id] = new] /\ rels' = rels
        BY <2>2, <2>3, <3>1, <3>2, WholeValues
           DEF UndoEffect, ObjectRemove, ObjectUpdate, ObjectRestore
    <3> QED BY <2>2, <3>3 DEF NothingTorn
  <2>5. CASE e \in RelEntries
    <3>1. e.before \in Relationships \/ e.kind = "RelationshipCreated"
        BY <2>5 DEF RelEntries
    <3>2. e.kind \in {"RelationshipCreated", "RelationshipUpdated", "RelationshipDeleted"}
        BY <2>5 DEF RelEntries
    <3>3. e.before.note \in Contents \/ e.kind = "RelationshipCreated"
        BY <3>1 DEF Relationships
    <3>4. CASE RelUpdate(e.id, e.before.note, out) /\ e.kind = "RelationshipUpdated"
      <4>1. [rels[e.id] EXCEPT !.note = e.before.note] \in Relationships
          BY <3>3, <3>4 DEF RelUpdate, RelLoads, Relationships
      <4>2. rels' = [rels EXCEPT ![e.id] = [rels[e.id] EXCEPT !.note = e.before.note]] /\ objects' = objects
          BY <2>2, <3>4, WholeValues DEF RelUpdate
      <4> HIDE DEF Relationships
      <4> QED BY <2>2, <4>1, <4>2, WholeValues DEF NothingTorn
    <3>5. CASE RelRemove(e.id) \/ (RelRestore(e.id, e.before, out) /\ e.kind = "RelationshipDeleted")
      <4>1. \E new : new # Torn /\ rels' = [rels EXCEPT ![e.id] = new] /\ objects' = objects
          BY <2>2, <3>1, <3>5, WholeValues DEF RelRemove, RelRestore
      <4> QED BY <2>2, <4>1 DEF NothingTorn
    <3> QED BY <2>3, <3>2, <3>4, <3>5 DEF UndoEffect
  <2> QED BY <2>4, <2>5 DEF LogEntries
<1> QED BY <1>1, <1>2 DEF UndoLast

LEMMA MutationTearsNothing ==
    ASSUME "torn" \notin WriteOutcomes, TypeOK, NothingTorn, Mutate
    PROVE  NothingTorn'
<1>1. /\ objects \in [ObjectIds -> ObjectFiles] /\ rels \in [RelIds -> RelFiles]
      /\ \A out \in SuccessfulWrites : out # "torn"
    BY DEF TypeOK, StoresTypeOK, SuccessfulWrites
<1>2. ASSUME NEW o \in ObjectIds, NEW c \in Contents, NEW out \in SuccessfulWrites,
             CreateObject(o, c, out) \/ UpdateObject(o, c, out)
      PROVE  NothingTorn'
    BY <1>1, <1>2, WholeValues DEF CreateObject, UpdateObject, ObjectCreate, ObjectUpdate, NothingTorn
<1>3. ASSUME NEW o \in ObjectIds, DeleteObject(o) PROVE NothingTorn'
    BY <1>1, <1>3, WholeValues DEF DeleteObject, ObjectRemove, NothingTorn
<1>4. ASSUME NEW r \in RelIds, NEW v \in Relationships, NEW out \in SuccessfulWrites,
             CreateRelationship(r, v, out)
      PROVE  NothingTorn'
    BY <1>1, <1>4, WholeValues DEF CreateRelationship, RelCreate, NothingTorn
<1>5. ASSUME NEW r \in RelIds, NEW note \in Contents, NEW out \in SuccessfulWrites,
             UpdateRelationship(r, note, out)
      PROVE  NothingTorn'
  <2>1. PICK v \in Relationships : v = rels[r]
      BY <1>5 DEF UpdateRelationship, RelUpdate, RelLoads
  <2>2. [v EXCEPT !.note = note] \in Relationships
      BY DEF Relationships
  <2>3. rels' = [rels EXCEPT ![r] = [v EXCEPT !.note = note]] /\ objects' = objects
      BY <1>1, <1>5, <2>1, WholeValues DEF UpdateRelationship, RelUpdate
  <2> HIDE DEF Relationships
  <2> QED BY <1>1, <2>2, <2>3, WholeValues DEF NothingTorn
<1>6. ASSUME NEW r \in RelIds, DeleteRelationship(r) PROVE NothingTorn'
    BY <1>1, <1>6, WholeValues DEF DeleteRelationship, RelRemove, NothingTorn
<1>7. CASE RefuseMutation
    BY <1>7 DEF RefuseMutation, StartRollback, storeVars, NothingTorn
<1> QED BY <1>2, <1>3, <1>4, <1>5, <1>6, <1>7 DEF Mutate

LEMMA RuntimeTearsNothing ==
    ASSUME "torn" \notin WriteOutcomes, TypeOK, NothingTorn, Lifecycle \/ Mutate \/ Transact \/ Continue
    PROVE  NothingTorn'
<1>1. UNCHANGED <<objects, rels>> => NothingTorn'
    BY DEF NothingTorn
<1>2. CASE Lifecycle \/ Transact
  <2>1. UNCHANGED <<objects, rels>>
      BY <1>2 DEF Lifecycle, Initialize, OpenRepository, CloseRepository, Shutdown, NewHandle, Leave,
                  StartRollback, Transact, BeginTransaction, CommitTransaction, RollbackTransaction,
                  StartBatch, storeVars
  <2> QED BY <1>1, <2>1
<1>3. CASE Continue
  <2>1. (\E out \in WriteOutcomes : UndoLast(out)) \/ UNCHANGED <<objects, rels>>
      BY <1>3 DEF Continue, CommitImplicit, FinishRollback, FinishBatch, storeVars
  <2> QED BY <1>1, <2>1, UndoTearsNothing
<1> QED BY <1>2, <1>3, MutationTearsNothing

-----------------------------------------------------------------------------
(* The journal. *)

LEMMA JournalRecords ==
    ASSUME TypeOK, JournalComplete, ~Crashes, JournalOutcomes = {"ok"},
           NEW verdict \in Verdicts \ {"None"}, NEW out \in JournalOutcomes,
           JournalWrite(verdict, out), tx' = tx
    PROVE  JournalComplete'
BY DEF JournalComplete, JournalWrite, TypeOK, Transactions

LEMMA JournalKept ==
    ASSUME TypeOK, JournalComplete, UNCHANGED <<journal, tx, active>>
    PROVE  JournalComplete'
BY DEF JournalComplete

LEMMA JournalOpened ==
    ASSUME TypeOK, JournalComplete, journal' = journal, JoinOrOpen
    PROVE  JournalComplete'
BY DEF JournalComplete, JoinOrOpen, OpenTransaction, TypeOK

LEMMA JournalStep ==
    ASSUME TypeOK, JournalComplete, [Next]_vars
    PROVE  JournalComplete'
<1> SUFFICES ASSUME ~Crashes, JournalOutcomes = {"ok"} PROVE JournalComplete'
    BY DEF JournalComplete
<1>1. CASE Lifecycle \/ RollbackTransaction
    BY <1>1, JournalKept DEF Lifecycle, Initialize, OpenRepository, CloseRepository, Shutdown,
                NewHandle, Leave, StartRollback, txVars, RollbackTransaction
<1>2. CASE Mutate
  <2>1. JoinOrOpen /\ UNCHANGED journal
      BY <1>2 DEF Mutate, CreateObject, UpdateObject, DeleteObject, CreateRelationship,
                  UpdateRelationship, DeleteRelationship, RefuseMutation, LogMutation,
                  StartRollback
  <2> QED BY <2>1, JournalOpened
<1>3. CASE BeginTransaction
    BY <1>3, JournalOpened DEF BeginTransaction, JoinOrOpen
<1>4. ASSUME NEW kind, NEW n, StartBatch(kind, n) PROVE JournalComplete'
    BY <1>4, JournalOpened DEF StartBatch
<1>5. ASSUME NEW out \in JournalOutcomes,
             CommitTransaction(out) \/ CommitImplicit(out) \/ FinishRollback(out)
      PROVE  JournalComplete'
  <2>1. PICK verdict \in Verdicts \ {"None"} : JournalWrite(verdict, out)
      BY <1>5 DEF CommitTransaction, CommitImplicit, FinishRollback, Verdicts
  <2>2. tx' = tx
      BY <1>5 DEF CommitTransaction, CommitImplicit, FinishRollback
  <2> QED BY <2>1, <2>2, JournalRecords
<1>6. ASSUME NEW out \in JournalOutcomes, FinishBatch(out) PROVE JournalComplete'
  <2>1. CASE batch.own
      BY <1>6, <2>1, JournalRecords DEF FinishBatch, Verdicts
  <2>2. CASE ~batch.own
      BY <1>6, <2>2, JournalKept DEF FinishBatch
  <2> QED BY <2>1, <2>2
<1>7. ASSUME NEW out, UndoLast(out) PROVE JournalComplete'
    BY <1>7, JournalKept DEF UndoLast
<1>8. CASE Crash
    BY <1>8 DEF Crash, LoseEvent
<1>9. CASE Record \/ UNCHANGED vars
    BY <1>9, JournalKept DEF Record, RecordEvent, vars, txVars
<1> QED BY <1>1, <1>2, <1>3, <1>4, <1>5, <1>6, <1>7, <1>8, <1>9 DEF Next, Transact, Continue

\* If the process never dies and the journal can be written, every transaction
\* that has been closed has its record, however it was closed
\* (commit_transaction_internal, rollback_transaction_internal).
THEOREM EveryTransactionIsJournaled == Spec => []JournalComplete
<1>1. Init => JournalComplete
    BY DEF Init, JournalComplete
<1> QED BY <1>1, JournalStep, TypeCorrect, PTL DEF Spec

-----------------------------------------------------------------------------
(* The audit log. *)

\* An event to be recorded that is not of a removal is of a file that is there.
PendingSeen == \A e \in pending : e.event # "Deleted" => File(e.id) # Absent
AuditInv == AbsentIsAudited /\ PendingSeen

LEMMA AuditKept ==
    ASSUME AuditInv, UNCHANGED <<storeVars, issued>>
    PROVE  AuditInv'
BY DEF AuditInv, AbsentIsAudited, DeletionTold, PendingSeen, File, storeVars

\* A call that leaves a file: its audit event does not matter.
LEMMA AuditedWrite ==
    ASSUME TypeOK, AuditInv, Settled, NEW id \in Entities,
           issued' \subseteq issued \cup {id},
           Owe(id, "Written") \/ NoEvent,
           \/ id \in ObjectIds /\ rels' = rels
              /\ \E f \in ObjectFiles \ {Absent} : objects' = [objects EXCEPT ![id] = f]
           \/ id \in RelIds /\ objects' = objects
              /\ \E f \in RelFiles \ {Absent} : rels' = [rels EXCEPT ![id] = f]
    PROVE  AuditInv'
<1>1. audit' = audit /\ unaudited' = unaudited
    BY DEF Owe, NoEvent
<1>2. \A e \in pending' : e.id = id
    BY DEF Owe, NoEvent, Settled, Event
<1>3. ~(id \in ObjectIds /\ id \in RelIds)
    BY StoresAssumption
<1>4. File(id)' # Absent
    BY <1>3 DEF File, TypeOK, StoresTypeOK
<1>5. PendingSeen'
    BY <1>2, <1>4 DEF PendingSeen, File
<1>6. ASSUME AuditOutcomes = {"ok"}, NEW x \in issued'
      PROVE  \/ x \in ObjectIds /\ objects'[x] # Absent
             \/ x \in RelIds /\ rels'[x] # Absent
             \/ DeletionTold(x)'
  <2>1. CASE x = id
      BY <1>3, <2>1 DEF TypeOK, StoresTypeOK
  <2>2. CASE x # id
    <3>1. x \in issued /\ x \in Entities
        BY <2>2 DEF TypeOK
    <3>2. DeletionTold(x) => DeletionTold(x)'
        BY <1>1 DEF DeletionTold, Settled
    <3>3. /\ x \in ObjectIds => objects'[x] = objects[x]
          /\ x \in RelIds => rels'[x] = rels[x]
        BY <2>2 DEF TypeOK, StoresTypeOK
    <3> QED BY <1>6, <3>1, <3>2, <3>3 DEF AuditInv, AbsentIsAudited
  <2> QED BY <2>1, <2>2
<1> QED BY <1>5, <1>6 DEF AuditInv, AbsentIsAudited

\* A call that removes a file has the event of it recorded next.
LEMMA AuditedRemove ==
    ASSUME TypeOK, AuditInv, Settled, NEW id \in Entities, issued' = issued,
           Owe(id, "Deleted"),
           \/ id \in ObjectIds /\ rels' = rels /\ objects' = [objects EXCEPT ![id] = Absent]
           \/ id \in RelIds /\ objects' = objects /\ rels' = [rels EXCEPT ![id] = Absent]
    PROVE  AuditInv'
<1>1. PendingSeen'
    BY DEF PendingSeen, Owe, Event
<1>2. ASSUME AuditOutcomes = {"ok"}, NEW x \in issued
      PROVE  \/ x \in ObjectIds /\ objects'[x] # Absent
             \/ x \in RelIds /\ rels'[x] # Absent
             \/ DeletionTold(x)'
  <2>1. CASE x = id
      BY <2>1 DEF Owe, DeletionTold
  <2>2. CASE x # id
    <3>1. DeletionTold(x) => DeletionTold(x)'
        BY DEF DeletionTold, Settled, Owe
    <3>2. /\ x \in ObjectIds => objects'[x] = objects[x]
          /\ x \in RelIds => rels'[x] = rels[x]
        BY <2>2 DEF TypeOK, StoresTypeOK
    <3> QED BY <1>2, <3>1, <3>2 DEF AuditInv, AbsentIsAudited
  <2> QED BY <2>1, <2>2
<1> QED BY <1>1, <1>2 DEF AuditInv, AbsentIsAudited

\* The store calls that a mutation or an undo may make.
LEMMA AuditedObjectCall ==
    ASSUME TypeOK, AuditInv, Settled, NEW o \in ObjectIds, NEW c \in Contents, NEW out,
           \/ issued' = issued \cup {o} /\ ObjectCreate(o, c, out)
           \/ /\ issued' = issued
              /\ ObjectUpdate(o, c, out) \/ ObjectRestore(o, c, out)
    PROVE  AuditInv'
<1>1. o \in Entities
    BY DEF Entities
<1>2. Written(c, out) \in ObjectFiles \ {Absent}
    BY StoresAssumption DEF Written, ObjectFiles
<1>3. rels' = rels /\ objects' = [objects EXCEPT ![o] = Written(c, out)]
    BY DEF ObjectCreate, ObjectUpdate, ObjectRestore
<1>4. Owe(o, "Written") \/ NoEvent
    BY DEF ObjectCreate, ObjectUpdate, ObjectRestore
<1> QED BY <1>1, <1>2, <1>3, <1>4, AuditedWrite

LEMMA AuditedRelCall ==
    ASSUME TypeOK, AuditInv, Settled, NEW r \in RelIds, NEW v \in Relationships,
           NEW note \in Contents, NEW out,
           \/ issued' = issued \cup {r} /\ RelCreate(r, v, out)
           \/ /\ issued' = issued
              /\ RelUpdate(r, note, out) \/ RelRestore(r, v, out)
    PROVE  AuditInv'
<1>1. r \in Entities
    BY DEF Entities
<1>2. PICK w \in Relationships :
         objects' = objects /\ rels' = [rels EXCEPT ![r] = Written(w, out)]
  <2>1. CASE RelUpdate(r, note, out)
    <3>1. [rels[r] EXCEPT !.note = note] \in Relationships
        BY <2>1 DEF RelUpdate, RelLoads, Relationships
    <3> QED BY <2>1, <3>1 DEF RelUpdate
  <2>2. CASE RelCreate(r, v, out) \/ RelRestore(r, v, out)
      BY <2>2 DEF RelCreate, RelRestore
  <2> QED BY <2>1, <2>2
<1>3. Written(w, out) \in RelFiles \ {Absent}
    BY StoresAssumption DEF Written, RelFiles
<1>4. Owe(r, "Written") \/ NoEvent
    BY DEF RelCreate, RelUpdate, RelRestore
<1> QED BY <1>1, <1>2, <1>3, <1>4, AuditedWrite

\* And those that remove a file.
LEMMA AuditedRemoval ==
    ASSUME TypeOK, AuditInv, Settled, NEW id, issued' = issued,
           \/ id \in ObjectIds /\ ObjectRemove(id)
           \/ id \in RelIds /\ RelRemove(id)
    PROVE  AuditInv'
<1>1. id \in Entities
    BY DEF Entities
<1> QED BY <1>1, AuditedRemove DEF ObjectRemove, RelRemove

\* The second half of a store call: what the event says is so.
LEMMA AuditedRecord ==
    ASSUME TypeOK, AuditInv, RecordEvent, issued' = issued
    PROVE  AuditInv'
<1>1. PICK e \in pending, out \in AuditOutcomes :
         /\ audit' = IF out = "ok" THEN [audit EXCEPT ![e.id] = e.event] ELSE audit
         /\ pending' = pending \ {e}
    BY DEF RecordEvent
<1>2. UNCHANGED <<objects, rels, unaudited>>
    BY DEF RecordEvent
<1>3. PendingSeen'
    BY <1>1, <1>2 DEF AuditInv, PendingSeen, File
<1>4. ASSUME AuditOutcomes = {"ok"}, NEW x \in issued, DeletionTold(x)
      PROVE  \/ x \in ObjectIds /\ objects[x] # Absent
             \/ x \in RelIds /\ rels[x] # Absent
             \/ DeletionTold(x)'
  <2>1. audit' = [audit EXCEPT ![e.id] = e.event] /\ x \in Entities
      BY <1>1, <1>4 DEF TypeOK
  <2>2. e.event = "Deleted" \/ File(e.id) # Absent
      BY DEF AuditInv, PendingSeen
  <2>3. CASE e.id = x
      BY <2>1, <2>2, <2>3 DEF DeletionTold, TypeOK, StoresTypeOK, File, Entities
  <2>4. CASE e.id # x
    <3>1. audit'[x] = audit[x]
        BY <2>1, <2>4 DEF TypeOK, StoresTypeOK
    <3>2. Event(x, "Deleted") # e
        BY <2>4 DEF Event
    <3> QED BY <1>1, <1>2, <1>4, <3>1, <3>2 DEF DeletionTold
  <2> QED BY <2>3, <2>4
<1>5. AbsentIsAudited'
    BY <1>2, <1>4 DEF AuditInv, AbsentIsAudited
<1> QED BY <1>3, <1>5 DEF AuditInv

LEMMA AuditedCrash ==
    ASSUME AuditInv, LoseEvent, issued' = issued
    PROVE  AuditInv'
<1>1. PendingSeen'
    BY DEF PendingSeen, LoseEvent
<1>2. \A x : DeletionTold(x) => DeletionTold(x)'
  <2> SUFFICES ASSUME NEW x, DeletionTold(x) PROVE DeletionTold(x)'
      OBVIOUS
  <2>1. CASE Event(x, "Deleted") \in pending
    <3> DEFINE lost == {e \in pending : e.event = "Deleted"}
    <3>1. Event(x, "Deleted") \in lost /\ Event(x, "Deleted").id = x
        BY <2>1 DEF Event
    <3>2. x \in {e.id : e \in lost}
        BY <3>1
    <3> QED BY <3>2 DEF DeletionTold, LoseEvent
  <2> QED BY <2>1 DEF DeletionTold, LoseEvent
<1> QED BY <1>1, <1>2 DEF AuditInv, AbsentIsAudited, LoseEvent

LEMMA AuditStep ==
    ASSUME TypeOK, AuditInv, [Next]_vars
    PROVE  AuditInv'
<1>1. CASE Lifecycle \/ Transact \/ UNCHANGED vars
    BY <1>1, AuditKept
       DEF Lifecycle, Initialize, OpenRepository, CloseRepository, Shutdown, NewHandle, Leave,
           Transact, BeginTransaction, CommitTransaction, RollbackTransaction, StartBatch,
           StartRollback, vars
<1>2. CASE Settled /\ Mutate
  <2>1. ASSUME NEW o \in ObjectIds, NEW c \in Contents, NEW out,
               CreateObject(o, c, out) \/ UpdateObject(o, c, out)
        PROVE  AuditInv'
      BY <1>2, <2>1, AuditedObjectCall DEF CreateObject, UpdateObject
  <2>2. ASSUME NEW r \in RelIds, NEW v \in Relationships, NEW out, CreateRelationship(r, v, out)
        PROVE  AuditInv'
    <3>1. v.note \in Contents
        BY DEF Relationships
    <3> QED BY <1>2, <2>2, <3>1, AuditedRelCall DEF CreateRelationship
  <2>3. ASSUME NEW r \in RelIds, NEW note \in Contents, NEW out, UpdateRelationship(r, note, out)
        PROVE  AuditInv'
    <3>1. rels[r] \in Relationships
        BY <2>3 DEF UpdateRelationship, RelUpdate, RelLoads
    <3> QED BY <1>2, <2>3, <3>1, AuditedRelCall DEF UpdateRelationship
  <2>4. ASSUME NEW o \in ObjectIds, DeleteObject(o) PROVE AuditInv'
      BY <1>2, <2>4, AuditedRemoval DEF DeleteObject
  <2>5. ASSUME NEW r \in RelIds, DeleteRelationship(r) PROVE AuditInv'
      BY <1>2, <2>5, AuditedRemoval DEF DeleteRelationship
  <2>6. CASE RefuseMutation
      BY <2>6, AuditKept DEF RefuseMutation, StartRollback
  <2> QED BY <1>2, <2>1, <2>2, <2>3, <2>4, <2>5, <2>6 DEF Mutate
<1>3. CASE Settled /\ Continue
  <2>1. ASSUME NEW out, CommitImplicit(out) \/ FinishRollback(out) \/ FinishBatch(out)
        PROVE  AuditInv'
      BY <2>1, AuditKept DEF CommitImplicit, FinishRollback, FinishBatch
  <2>2. ASSUME NEW out, UndoLast(out) PROVE AuditInv'
    <3>1. PICK e \in LogEntries : e = LastEntry
        BY <2>2, LastEntryType DEF UndoLast
    <3>2. issued' = issued /\ (UndoEffect(e, out) \/ UNCHANGED storeVars)
        BY <2>2, <3>1 DEF UndoLast
    <3>3. CASE UNCHANGED storeVars
        BY <3>2, <3>3, AuditKept
    <3>4. CASE UndoEffect(e, out) /\ e.kind \in {"ObjectCreated", "RelationshipCreated"}
      <4>1. \/ e.id \in ObjectIds /\ ObjectRemove(e.id)
            \/ e.id \in RelIds /\ RelRemove(e.id)
          BY <3>4 DEF UndoEffect, LogEntries, ObjectEntries, RelEntries
      <4> QED BY <1>3, <3>2, <4>1, AuditedRemoval
    <3>5. CASE UndoEffect(e, out) /\ e.kind \in {"ObjectUpdated", "ObjectDeleted"}
      <4>1. e.id \in ObjectIds /\ e.before \in Contents
          BY <3>5 DEF LogEntries, ObjectEntries, RelEntries
      <4>2. ObjectUpdate(e.id, e.before, out) \/ ObjectRestore(e.id, e.before, out)
          BY <3>5 DEF UndoEffect
      <4> QED BY <1>3, <3>2, <4>1, <4>2, AuditedObjectCall
    <3>6. CASE UndoEffect(e, out) /\ e.kind \in {"RelationshipUpdated", "RelationshipDeleted"}
      <4>1. e.id \in RelIds /\ e.before \in Relationships /\ e.before.note \in Contents
          BY <3>6 DEF LogEntries, ObjectEntries, RelEntries, Relationships
      <4>2. RelUpdate(e.id, e.before.note, out) \/ RelRestore(e.id, e.before, out)
          BY <3>6 DEF UndoEffect
      <4> QED BY <1>3, <3>2, <4>1, <4>2, AuditedRelCall
    <3> QED BY <3>2, <3>3, <3>4, <3>5, <3>6 DEF UndoEffect
  <2> QED BY <1>3, <2>1, <2>2 DEF Continue
<1>4. CASE Record
    BY <1>4, AuditedRecord DEF Record
<1>5. CASE Crash
    BY <1>5, AuditedCrash DEF Crash
<1> QED BY <1>1, <1>2, <1>3, <1>4, <1>5 DEF Next

\* If audit events can be written, no entity disappears without the audit log
\* saying so or being about to, rollbacks and failed calls included, but for those
\* whose event a crash swallowed between the removal and record_audit.
THEOREM AbsencesAreAudited == Spec => []AbsentIsAudited
<1>1. Init => AuditInv
    BY DEF Init, StoresInit, AuditInv, AbsentIsAudited, PendingSeen, Entities
<1>2. AuditInv => AbsentIsAudited
    BY DEF AuditInv
<1> QED BY <1>1, <1>2, AuditStep, TypeCorrect, PTL DEF Spec

-----------------------------------------------------------------------------
(* Undoing on a disk that works.  UndoInv says what each entry of the log  *)
(* will find when its turn comes: an entry is followed by the next one for *)
(* its file, whose snapshot says whether the file was there, and the last  *)
(* one by the file itself.                                                 *)

Deletions == {"ObjectDeleted", "RelationshipDeleted"}

LastFor(i) == \A j \in (i + 1)..Len(log) : log[j].id # log[i].id
FollowedBy(i, j) ==
    /\ log[i].id = log[j].id
    /\ \A k \in (i + 1)..(j - 1) : log[k].id # log[i].id

NoTornFile == \A id \in Entities : File(id) # Torn

\* A deletion, and only a deletion, left no file for the entry that follows.
ChainOK ==
    \A j \in 1..Len(log) : \A i \in 1..(j - 1) :
        FollowedBy(i, j) => (log[i].kind \in Deletions <=> log[j].before = Absent)

\* A relationship whose restore failed has no file either.
TipOK ==
    \A i \in 1..Len(log) : LastFor(i) =>
        /\ log[i].kind \in Deletions => File(log[i].id) = Absent
        /\ File(log[i].id) = Absent /\ (undoComplete \/ log[i].id \in ObjectIds)
              => log[i].kind \in Deletions

UntouchedOrLost ==
    active => \A id \in Entities :
        (\A i \in 1..Len(log) : log[i].id # id) =>
            \/ File(id) = BaseFile(id)
            \/ id \in RelIds /\ File(id) = Absent

UndoInv == NoTornFile /\ ChainOK /\ TipOK /\ UntouchedOrLost

\* The undo log of a batch call that began its transaction names only creations.
BatchInv ==
    batch.own => /\ pc \in {"batch", "undo"}
                 /\ undoComplete
                 /\ \A i \in 1..Len(log) : log[i].kind \in {"ObjectCreated", "RelationshipCreated"}

\* The stores and base stay; the log stays with them or is dropped.
LEMMA UndoQuiet ==
    ASSUME UndoInv, UNCHANGED <<objects, rels, base>>,
           \/ log' = <<>> /\ active' = FALSE
           \/ log' = log /\ (undoComplete' => undoComplete) /\ (active' => active)
           \/ log' = <<>> /\ base = Snapshot
    PROVE  UndoInv'
<1>1. \A id : File(id)' = File(id) /\ BaseFile(id)' = BaseFile(id)
    BY DEF File, BaseFile
<1>2. NoTornFile'
    BY <1>1 DEF UndoInv, NoTornFile
<1>3. CASE log' = log /\ (undoComplete' => undoComplete) /\ (active' => active)
  <2>1. \A i, j : LastFor(i)' = LastFor(i) /\ FollowedBy(i, j)' = FollowedBy(i, j)
      BY <1>3 DEF LastFor, FollowedBy
  <2> QED BY <1>1, <1>2, <1>3, <2>1 DEF UndoInv, ChainOK, TipOK, UntouchedOrLost
<1>4. CASE log' = <<>> /\ (active' = FALSE \/ base = Snapshot)
  <2>1. \A i \in 1..Len(log') : FALSE
      BY <1>4
  <2>2. base = Snapshot => \A id \in Entities : File(id) = BaseFile(id)
      BY DEF Snapshot, File, BaseFile
  <2> QED BY <1>1, <1>2, <1>4, <2>1, <2>2 DEF UndoInv, ChainOK, TipOK, UntouchedOrLost
<1> QED BY <1>3, <1>4

\* A transaction is opened and nothing written yet.
LEMMA UndoOpened ==
    ASSUME UndoInv, UNCHANGED <<objects, rels>>, base' = Snapshot, log' = <<>>
    PROVE  UndoInv'
<1>1. \A id : File(id)' = File(id) /\ BaseFile(id)' = File(id)
    BY DEF File, BaseFile, Snapshot
<1>2. \A i \in 1..Len(log') : FALSE
    OBVIOUS
<1> QED BY <1>1, <1>2 DEF UndoInv, NoTornFile, ChainOK, TipOK, UntouchedOrLost

\* A mutation writes one file and appends the entry that holds what was there.
LEMMA UndoAppended ==
    ASSUME RollbackInv, UndoInv, NEW kind, NEW id \in Entities,
           pc # "undo",
           LogMutation(kind, id, File(id)),
           \A x \in Entities \ {id} : File(x)' = File(x),
           File(id)' # Torn,
           kind \in Deletions <=> File(id)' = Absent
    PROVE  UndoInv'
<1> DEFINE n == Len(log)
           e == [kind |-> kind, id |-> id, before |-> File(id)]
<1>1. /\ n \in Nat
      /\ Len(log') = n + 1
      /\ log'[n + 1] = e
      /\ \A i \in 1..n : log'[i] = log[i]
    BY DEF RollbackInv, TypeOK, LogMutation
<1>2. undoComplete /\ undoComplete' = undoComplete
    BY DEF RollbackInv, LogMutation
<1>3. NoTornFile'
    BY DEF UndoInv, NoTornFile
<1>4. ChainOK'
  <2> SUFFICES ASSUME NEW j \in 1..(n + 1), NEW i \in 1..(j - 1),
                      log'[i].id = log'[j].id,
                      \A k \in (i + 1)..(j - 1) : log'[k].id # log'[i].id
               PROVE  log'[i].kind \in Deletions <=> log'[j].before = Absent
      BY <1>1 DEF ChainOK, FollowedBy
  <2>1. i \in 1..n /\ log'[i] = log[i]
      BY <1>1
  <2>2. \A k \in (i + 1)..(j - 1) : log'[k] = log[k]
      BY <1>1
  <2>3. CASE j \in 1..n
    <3>1. FollowedBy(i, j) /\ log'[j] = log[j]
        BY <1>1, <2>1, <2>2, <2>3 DEF FollowedBy
    <3> QED BY <2>1, <2>3, <3>1 DEF UndoInv, ChainOK
  <2>4. CASE j = n + 1
    <3>1. LastFor(i)
        BY <1>1, <2>1, <2>2, <2>4 DEF LastFor
    <3>2. log[i].id = id /\ log'[j].before = File(id)
        BY <1>1, <2>1, <2>4
    <3> QED BY <1>2, <2>1, <3>1, <3>2 DEF UndoInv, TipOK
  <2> QED BY <1>1, <2>3, <2>4
<1>5. TipOK'
  <2> SUFFICES ASSUME NEW i \in 1..(n + 1), NEW x, x = log'[i].id,
                      \A j \in (i + 1)..(n + 1) : log'[j].id # x
               PROVE  log'[i].kind \in Deletions <=> File(x)' = Absent
    <3>1. Len(log') = n + 1 /\ undoComplete'
        BY <1>1, <1>2
    <3> QED BY <3>1 DEF TipOK, LastFor, File
  <2>1. CASE i = n + 1
      BY <1>1, <2>1
  <2>2. CASE i \in 1..n
    <3>1. log'[i] = log[i] /\ x # id
        BY <1>1, <2>2
    <3>2. LastFor(i)
        BY <1>1, <2>2 DEF LastFor
    <3>3. x \in Entities
        BY <2>2, <3>1 DEF RollbackInv, TypeOK, LogEntries, ObjectEntries, RelEntries, Entities
    <3>4. File(x)' = File(x)
        BY <3>1, <3>3
    <3> QED BY <1>2, <2>2, <3>1, <3>2, <3>4 DEF UndoInv, TipOK
  <2> QED BY <2>1, <2>2
<1>6. UntouchedOrLost'
  <2> SUFFICES ASSUME NEW x \in Entities, \A i \in 1..(n + 1) : log'[i].id # x
               PROVE  File(x)' = BaseFile(x)' \/ (x \in RelIds /\ File(x)' = Absent)
      BY <1>1 DEF UntouchedOrLost
  <2>1. File(x)' = File(x)
      BY <1>1
  <2>2. CASE active
    <3>1. BaseFile(x)' = BaseFile(x)
        BY <2>2 DEF LogMutation, JoinOrOpen, BaseFile
    <3> QED BY <1>1, <2>1, <2>2, <3>1 DEF UndoInv, UntouchedOrLost
  <2>3. CASE ~active
    <3>1. BaseFile(x)' = File(x)
        BY <2>3 DEF LogMutation, JoinOrOpen, OpenTransaction, Snapshot, BaseFile, File
    <3> QED BY <2>1, <3>1
  <2> QED BY <2>2, <2>3
<1> QED BY <1>3, <1>4, <1>5, <1>6 DEF UndoInv

\* What is left of the log when its last entry is taken away.
LEMMA UndoFront ==
    ASSUME TypeOK, NEW out, UndoLast(out), NEW n, n = Len(log)
    PROVE  /\ n \in Nat \ {0}
           /\ Len(log') = n - 1
           /\ \A i \in 1..(n - 1) : log'[i] = log[i]
           /\ LastEntry = log[n]
           /\ LastEntry \in LogEntries
<1>1. log \in Seq(LogEntries) /\ log # <<>>
    BY DEF UndoLast, TypeOK
<1>2. log' = SubSeq(log, 1, n - 1)
    BY DEF UndoLast
<1> QED BY <1>1, <1>2, FrontOfLog, LastEntryType DEF LastEntry

\* The last entry of the log finds what it needs, or is a relationship's.
LEMMA LastFindsItsFile ==
    ASSUME TypeOK, UndoInv, log # <<>>, ~Undoable(LastEntry)
    PROVE  /\ LastEntry \in RelEntries
           /\ File(LastEntry.id) = Absent
           /\ undoComplete => /\ LastEntry.kind = "RelationshipDeleted"
                              /\ ~EndpointsLoad(LastEntry.before)
<1> DEFINE n == Len(log)
<1>1. n \in Nat \ {0} /\ LastEntry = log[n] /\ LastEntry \in LogEntries
    BY LastEntryType DEF LastEntry, TypeOK
<1>2. LastFor(n)
    BY <1>1 DEF LastFor
<1>3. PICK e \in LogEntries : e = LastEntry
    BY <1>1
<1>4. /\ e.kind \in Deletions => File(e.id) = Absent
      /\ File(e.id) = Absent /\ (undoComplete \/ e.id \in ObjectIds) => e.kind \in Deletions
    BY <1>1, <1>2, <1>3 DEF UndoInv, TipOK
<1>5. e.id \in Entities => File(e.id) # Torn
    BY DEF UndoInv, NoTornFile
<1>6. CASE e \in ObjectEntries
  <2>1. /\ e.id \in ObjectIds /\ e.id \in Entities
        /\ e.kind \in {"ObjectCreated", "ObjectUpdated", "ObjectDeleted"}
      BY <1>6 DEF ObjectEntries, Entities
  <2>2. File(e.id) = objects[e.id] /\ objects[e.id] \in Contents \cup {Absent}
      BY <1>5, <2>1 DEF File, TypeOK, StoresTypeOK, ObjectFiles
  <2>3. Undoable(e)
      BY <1>4, <2>1, <2>2 DEF Undoable, ObjectLoads, Deletions
  <2> QED BY <1>3, <2>3
<1>7. CASE e \in RelEntries
  <2>1. /\ e.id \in RelIds /\ e.id \in Entities /\ e.id \notin ObjectIds
        /\ e.kind \in {"RelationshipCreated", "RelationshipUpdated", "RelationshipDeleted"}
      BY <1>7 DEF RelEntries, Entities
  <2>2. File(e.id) = rels[e.id] /\ rels[e.id] \in Relationships \cup {Absent}
      BY <1>5, <2>1 DEF File, TypeOK, StoresTypeOK, RelFiles
  <2>3. ~Undoable(e)
      BY <1>3
  <2>4. rels[e.id] = Absent
      BY <1>4, <2>1, <2>2, <2>3 DEF Undoable, RelLoads, Deletions
  <2>5. undoComplete => e.kind = "RelationshipDeleted" /\ ~EndpointsLoad(e.before)
      BY <1>4, <2>1, <2>2, <2>3, <2>4 DEF Undoable, RelFits, Deletions
  <2> QED BY <1>3, <1>7, <2>2, <2>4, <2>5
<1> QED BY <1>6, <1>7 DEF LogEntries

\* The last entry is undone, or its undo fails, and it leaves the log.
LEMMA UndoUndone ==
    ASSUME RollbackInv, UndoInv, UndoLast("ok")
    PROVE  UndoInv'
<1> DEFINE n == Len(log)
<1>s. TypeOK /\ StoresTypeOK
    BY DEF RollbackInv, TypeOK
<1>1. /\ n \in Nat \ {0}
      /\ Len(log') = n - 1
      /\ \A i \in 1..(n - 1) : log'[i] = log[i]
      /\ LastEntry = log[n]
      /\ LastEntry \in LogEntries
    BY <1>s, UndoFront
<1>2. PICK e \in LogEntries : e = LastEntry /\ e = log[n]
    BY <1>1
<1>3. e.id \in Entities
    BY DEF LogEntries, ObjectEntries, RelEntries, Entities
<1>4. UNCHANGED <<base, active>> /\ \A x : BaseFile(x)' = BaseFile(x)
    BY DEF UndoLast, BaseFile
<1>5. /\ \A x \in Entities \ {e.id} : File(x)' = File(x)
      /\ File(e.id)' # Torn
      /\ undoComplete' => undoComplete
      /\ \/ File(e.id)' = Absent <=> e.before = Absent
         \/ e.id \in RelIds /\ File(e.id)' = Absent /\ undoComplete' = FALSE
      /\ FirstFor(n) => \/ File(e.id)' = BaseFile(e.id)
                        \/ e.id \in RelIds /\ File(e.id)' = Absent
  <2>1. CASE Undoable(e)
    <3>1. UndoEffect(e, "ok") /\ undoComplete' = undoComplete
        BY <1>2, <2>1 DEF UndoLast
    <3>2. /\ \A x \in Entities \ {e.id} : File(x)' = File(x)
          /\ e.kind # "RelationshipUpdated" => File(e.id)' = e.before
          /\ e.kind = "RelationshipUpdated" =>
                /\ rels[e.id] \in Relationships
                /\ File(e.id)' = [rels[e.id] EXCEPT !.note = e.before.note]
        BY <1>s, <3>1, UndoEffectFiles
    <3>3. FirstFor(n) => e.before = BaseFile(e.id)
        BY <1>1, <1>2 DEF RollbackInv, FirstHoldsBase
    <3>4. CASE e.kind # "RelationshipUpdated"
      <4>1. e.before # Torn
          BY DEF LogEntries, ObjectEntries, RelEntries
      <4> QED BY <3>1, <3>2, <3>3, <3>4, <4>1
    <3>5. CASE e.kind = "RelationshipUpdated"
      <4>1. /\ e.id \in RelIds /\ e.id \notin ObjectIds /\ e.before \in Relationships
            /\ e.before.note \in Contents
          BY <3>5 DEF LogEntries, ObjectEntries, RelEntries, Relationships
      <4>2. [rels[e.id] EXCEPT !.note = e.before.note] \in Relationships
          BY <3>2, <3>5, <4>1 DEF Relationships
      <4>3. File(e.id)' \in Relationships /\ e.before # Absent
          BY <3>2, <3>5, <4>1, <4>2
      <4>4. ASSUME FirstFor(n) PROVE File(e.id)' = BaseFile(e.id)
        <5>1. base.rels[e.id] = e.before
            BY <3>3, <4>1, <4>4 DEF BaseFile
        <5>2. SameEnds(rels[e.id], e.before)
            BY <3>2, <3>5, <4>1, <5>1 DEF RollbackInv, EndsFixed, SameEnds
        <5>3. [rels[e.id] EXCEPT !.note = e.before.note] = e.before
            BY <3>2, <3>5, <4>1, <5>2 DEF SameEnds, Relationships
        <5> QED BY <3>2, <3>3, <3>5, <4>4, <5>3
      <4>5. File(e.id)' # Absent /\ File(e.id)' # Torn
          BY <4>3
      <4> QED BY <3>1, <3>2, <4>3, <4>4, <4>5
    <3> QED BY <3>4, <3>5
  <2>2. CASE ~Undoable(e)
    <3>1. UNCHANGED storeVars /\ undoComplete' = FALSE
        BY <1>2, <2>2 DEF UndoLast
    <3>2. \A x : File(x)' = File(x)
        BY <3>1 DEF File, storeVars
    <3>3. e \in RelEntries /\ File(e.id) = Absent
        BY <1>s, <1>2, <2>2, LastFindsItsFile DEF UndoLast
    <3>4. e.id \in RelIds
        BY <3>3 DEF RelEntries
    <3> QED BY <3>1, <3>2, <3>3, <3>4
  <2> QED BY <2>1, <2>2
<1>6. NoTornFile'
    BY <1>5 DEF UndoInv, NoTornFile
<1>7. ChainOK'
  <2> SUFFICES ASSUME NEW j \in 1..(n - 1), NEW i \in 1..(j - 1),
                      log'[i].id = log'[j].id,
                      \A k \in (i + 1)..(j - 1) : log'[k].id # log'[i].id
               PROVE  log'[i].kind \in Deletions <=> log'[j].before = Absent
      BY <1>1 DEF ChainOK, FollowedBy
  <2>1. j \in 1..n /\ log'[i] = log[i] /\ log'[j] = log[j]
      BY <1>1
  <2>2. FollowedBy(i, j)
      BY <1>1, <2>1 DEF FollowedBy
  <2> QED BY <2>1, <2>2 DEF UndoInv, ChainOK
<1>8. TipOK'
  <2> SUFFICES ASSUME NEW i \in 1..(n - 1), NEW x, x = log'[i].id,
                      \A j \in (i + 1)..(n - 1) : log'[j].id # x
               PROVE  /\ log'[i].kind \in Deletions => File(x)' = Absent
                      /\ File(x)' = Absent /\ (undoComplete' \/ x \in ObjectIds)
                            => log'[i].kind \in Deletions
    <3>1. Len(log') = n - 1
        BY <1>1
    <3> QED BY <3>1 DEF TipOK, LastFor, File
  <2>1. i \in 1..n /\ log'[i] = log[i]
      BY <1>1
  <2>2. x \in Entities
      BY <1>s, <2>1 DEF TypeOK, LogEntries, ObjectEntries, RelEntries, Entities
  <2>3. CASE x # e.id
    <3>1. LastFor(i)
        BY <1>1, <1>2, <2>1, <2>3 DEF LastFor
    <3> QED BY <1>5, <2>1, <2>2, <2>3, <3>1 DEF UndoInv, TipOK
  <2>4. CASE x = e.id
    <3>1. FollowedBy(i, n)
        BY <1>1, <1>2, <2>1, <2>4 DEF FollowedBy
    <3>2. log[i].kind \in Deletions <=> e.before = Absent
        BY <1>1, <1>2, <3>1 DEF UndoInv, ChainOK
    <3>3. x \in RelIds => x \notin ObjectIds
        OBVIOUS
    <3> QED BY <1>5, <2>1, <2>4, <3>2, <3>3
  <2> QED BY <2>3, <2>4
<1>9. UntouchedOrLost'
  <2> SUFFICES ASSUME active, NEW x \in Entities, \A i \in 1..(n - 1) : log'[i].id # x
               PROVE  File(x)' = BaseFile(x) \/ (x \in RelIds /\ File(x)' = Absent)
      BY <1>1, <1>4 DEF UntouchedOrLost
  <2>1. \A i \in 1..(n - 1) : log[i].id # x
      BY <1>1
  <2>2. CASE x # e.id
    <3>1. \A i \in 1..n : log[i].id # x
        BY <1>1, <1>2, <2>1, <2>2
    <3> QED BY <1>5, <2>2, <3>1 DEF UndoInv, UntouchedOrLost
  <2>3. CASE x = e.id
    <3>1. FirstFor(n)
        BY <1>2, <2>1, <2>3 DEF FirstFor
    <3> QED BY <1>5, <2>3, <3>1
  <2> QED BY <2>2, <2>3
<1> QED BY <1>6, <1>7, <1>8, <1>9 DEF UndoInv

LEMMA UndoMutateStep ==
    ASSUME WriteOutcomes = {"ok"}, RollbackInv, UndoInv, Mutate
    PROVE  UndoInv'
<1>t. StoresTypeOK
    BY DEF RollbackInv, TypeOK
<1>1. ASSUME NEW o \in ObjectIds, NEW kind, NEW new \in Contents \cup {Absent},
             Callable \/ BatchItem("objects"),
             LogMutation(kind, o, objects[o]),
             objects' = [objects EXCEPT ![o] = new], rels' = rels,
             kind \in Deletions <=> new = Absent
      PROVE  UndoInv'
  <2>1. o \in Entities /\ File(o) = objects[o] /\ File(o)' = new /\ new # Torn
      BY <1>t, <1>1 DEF Entities, File, StoresTypeOK
  <2>2. \A x \in Entities \ {o} : File(x)' = File(x)
      BY <1>t, <1>1 DEF File, StoresTypeOK
  <2>3. pc # "undo"
      BY <1>1 DEF Callable, BatchItem
  <2> QED BY <1>1, <2>1, <2>2, <2>3, UndoAppended
<1>2. ASSUME NEW r \in RelIds, NEW kind, NEW new \in Relationships \cup {Absent},
             Callable \/ BatchItem("relationships"),
             LogMutation(kind, r, rels[r]),
             rels' = [rels EXCEPT ![r] = new], objects' = objects,
             kind \in Deletions <=> new = Absent
      PROVE  UndoInv'
  <2>1. r \in Entities /\ File(r) = rels[r] /\ File(r)' = new /\ new # Torn
      BY <1>t, <1>2 DEF Entities, File, StoresTypeOK
  <2>2. \A x \in Entities \ {r} : File(x)' = File(x)
      BY <1>t, <1>2 DEF File, StoresTypeOK, Entities
  <2>3. pc # "undo"
      BY <1>2 DEF Callable, BatchItem
  <2> QED BY <1>2, <2>1, <2>2, <2>3, UndoAppended
<1>3. \A out \in SuccessfulWrites : out = "ok"
    BY DEF SuccessfulWrites
<1>4. ASSUME NEW o \in ObjectIds, NEW c \in Contents, CreateObject(o, c, "ok") PROVE UndoInv'
    BY <1>1, <1>4 DEF CreateObject, ObjectCreate, Written, Deletions
<1>5. ASSUME NEW o \in ObjectIds, NEW c \in Contents, UpdateObject(o, c, "ok") PROVE UndoInv'
    BY <1>1, <1>5 DEF UpdateObject, ObjectUpdate, Written, Deletions
<1>6. ASSUME NEW o \in ObjectIds, DeleteObject(o) PROVE UndoInv'
    BY <1>1, <1>6 DEF DeleteObject, ObjectRemove, Deletions
<1>7. ASSUME NEW r \in RelIds, NEW v \in Relationships, CreateRelationship(r, v, "ok")
      PROVE  UndoInv'
    BY <1>2, <1>7 DEF CreateRelationship, RelCreate, RelFits, Written, Deletions
<1>8. ASSUME NEW r \in RelIds, NEW note \in Contents, UpdateRelationship(r, note, "ok")
      PROVE  UndoInv'
  <2>1. PICK w \in Relationships : w = [rels[r] EXCEPT !.note = note]
      BY <1>8 DEF UpdateRelationship, RelUpdate, RelLoads, Relationships
  <2>2. rels' = [rels EXCEPT ![r] = w] /\ objects' = objects
      BY <1>8, <2>1 DEF UpdateRelationship, RelUpdate, Written
  <2>3. Callable /\ LogMutation("RelationshipUpdated", r, rels[r])
      BY <1>8 DEF UpdateRelationship
  <2> QED BY <1>2, <2>2, <2>3 DEF Deletions
<1>9. ASSUME NEW r \in RelIds, DeleteRelationship(r) PROVE UndoInv'
    BY <1>2, <1>9 DEF DeleteRelationship, RelRemove, Deletions
<1>10. CASE RefuseMutation
  <2>1. UNCHANGED <<objects, rels, log>> /\ undoComplete /\ JoinOrOpen
      BY <1>10 DEF RefuseMutation, StartRollback, storeVars, RollbackInv, Callable, BatchItem
  <2>2. CASE active
      BY <2>1, <2>2, UndoQuiet DEF JoinOrOpen
  <2>3. CASE ~active
    <3>1. log = <<>>
        BY <2>3 DEF RollbackInv, NoStrandedTransaction
    <3> QED BY <2>1, <2>3, <3>1, UndoOpened DEF JoinOrOpen, OpenTransaction
  <2> QED BY <2>2, <2>3
<1> QED BY <1>3, <1>4, <1>5, <1>6, <1>7, <1>8, <1>9, <1>10 DEF Mutate

LEMMA UndoStep ==
    ASSUME WriteOutcomes = {"ok"}, RollbackInv, UndoInv, [Next]_vars
    PROVE  UndoInv'
<1> USE DEF RollbackInv
<1>1. CASE Lifecycle \/ RollbackTransaction
  <2>1. UNCHANGED <<objects, rels, base, log, active>>
      BY <1>1 DEF Lifecycle, Initialize, OpenRepository, CloseRepository, Shutdown, NewHandle,
                  Leave, StartRollback, storeVars, txVars, RollbackTransaction
  <2>2. undoComplete' => undoComplete
      BY <1>1 DEF Lifecycle, Initialize, OpenRepository, CloseRepository, Shutdown, NewHandle,
                  Callable, Leave, StartRollback, RollbackTransaction
  <2> QED BY <2>1, <2>2, UndoQuiet
<1>2. CASE BeginTransaction
    BY <1>2, UndoOpened DEF BeginTransaction, OpenTransaction, storeVars
<1>3. ASSUME NEW kind, NEW k, StartBatch(kind, k) PROVE UndoInv'
  <2>1. CASE active
      BY <1>3, <2>1, UndoQuiet DEF StartBatch, JoinOrOpen, storeVars
  <2>2. CASE ~active
      BY <1>3, <2>2, UndoOpened DEF StartBatch, JoinOrOpen, OpenTransaction, storeVars
  <2> QED BY <2>1, <2>2
<1>4. ASSUME NEW out, CommitTransaction(out) \/ CommitImplicit(out) PROVE UndoInv'
    BY <1>4, UndoQuiet DEF CommitTransaction, CommitImplicit, storeVars
<1>5. ASSUME NEW out, FinishRollback(out) PROVE UndoInv'
    BY <1>5, UndoQuiet DEF FinishRollback, storeVars
<1>6. ASSUME NEW out, FinishBatch(out) PROVE UndoInv'
  <2>1. CASE batch.own
      BY <1>6, <2>1, UndoQuiet DEF FinishBatch, storeVars
  <2>2. CASE ~batch.own
      BY <1>6, <2>2, UndoQuiet DEF FinishBatch, storeVars
  <2> QED BY <2>1, <2>2
<1>7. ASSUME NEW out \in WriteOutcomes, UndoLast(out) PROVE UndoInv'
    BY <1>7, UndoUndone
<1>8. CASE Crash
    BY <1>8, UndoQuiet DEF Crash, LoseEvent, storeVars
<1>9. CASE Record \/ UNCHANGED vars
  <2>1. UNCHANGED <<objects, rels, base, log, active, undoComplete>>
      BY <1>9 DEF Record, RecordEvent, vars, storeVars, txVars, callVars
  <2> QED BY <2>1, UndoQuiet
<1> QED BY <1>1, <1>2, <1>3, <1>4, <1>5, <1>6, <1>7, <1>8, <1>9, UndoMutateStep
        DEF Next, Transact, Continue

LEMMA UndoInit == Init => UndoInv
<1> SUFFICES ASSUME Init PROVE UndoInv
    OBVIOUS
<1>1. NoTornFile
  <2>1. Torn \notin Contents \cup Relationships \cup {Absent}
      OBVIOUS
  <2>2. /\ \A o \in ObjectIds : objects[o] \in Contents \cup {Absent}
        /\ \A r \in RelIds : rels[r] \in Relationships \cup {Absent}
      BY DEF Init, StoresInit
  <2> QED BY <2>1, <2>2 DEF NoTornFile, File, Entities
<1>2. \A i \in 1..Len(log) : FALSE
    BY DEF Init
<1> QED BY <1>1, <1>2 DEF Init, UndoInv, ChainOK, TipOK, UntouchedOrLost

\* Without faults of the disk, only the restore of a deleted relationship whose end
\* point is still missing can be the first undo of a rollback to fail, and no undo of
\* an object's entry fails at all (rollback_transaction_internal, restore).
THEOREM OnlyMissingEndpointsFail == Spec => []UndoFailsOnlyOnMissingEndpoint
<1>1. CASE WriteOutcomes = {"ok"}
  <2>1. RollbackInv /\ UndoInv /\ [Next]_vars => RollbackInv' /\ UndoInv'
      BY <1>1, RollbackInvStep, UndoStep
  <2>2. RollbackInv /\ UndoInv => UndoFailsOnlyOnMissingEndpoint
      BY LastFindsItsFile DEF UndoFailsOnlyOnMissingEndpoint, RollbackInv
  <2> QED BY <2>1, <2>2, RollbackInvInit, UndoInit, PTL DEF Spec
<1>2. CASE WriteOutcomes # {"ok"}
  <2>1. UndoFailsOnlyOnMissingEndpoint
      BY <1>2 DEF UndoFailsOnlyOnMissingEndpoint
  <2> QED BY <2>1, PTL
<1> QED BY <1>1, <1>2

LEMMA UndoInvGivesObjects ==
    ASSUME RollbackInv, UndoInv
    PROVE  ObjectsAlwaysRestored
<1> SUFFICES ASSUME pc = "undo", log = <<>>
             PROVE  objects = base.objects /\ \A r \in RelIds : rels[r] \in {base.rels[r], Absent}
    BY DEF ObjectsAlwaysRestored
<1>1. active
    BY DEF RollbackInv, NoStrandedTransaction
<1>2. \A id \in Entities : File(id) = BaseFile(id) \/ (id \in RelIds /\ File(id) = Absent)
    BY <1>1 DEF UndoInv, UntouchedOrLost
<1>3. \A o \in ObjectIds : objects[o] = base.objects[o]
    BY <1>2 DEF File, BaseFile, Entities
<1>4. \A r \in RelIds : rels[r] \in {base.rels[r], Absent}
    BY <1>2 DEF File, BaseFile, Entities
<1>5. objects = base.objects
    BY <1>3 DEF RollbackInv, TypeOK, StoresTypeOK, Snapshots
<1> QED BY <1>4, <1>5

\* Without faults of the disk, a rollback brings every object back and adds no
\* relationship, even one that ends as Failed (rollback_transaction_internal).
THEOREM ObjectsComeBack == Spec => []ObjectsAlwaysRestored
<1>1. CASE WriteOutcomes = {"ok"}
  <2>1. RollbackInv /\ UndoInv /\ [Next]_vars => RollbackInv' /\ UndoInv'
      BY <1>1, RollbackInvStep, UndoStep
  <2> QED BY <2>1, RollbackInvInit, UndoInit, UndoInvGivesObjects, PTL DEF Spec
<1>2. CASE WriteOutcomes # {"ok"}
  <2>1. ObjectsAlwaysRestored
      BY <1>2 DEF ObjectsAlwaysRestored
  <2> QED BY <2>1, PTL
<1> QED BY <1>1, <1>2

-----------------------------------------------------------------------------
(* Batch calls on a disk that works. *)

LEMMA BatchStep ==
    ASSUME RollbackInv, UndoInv, BatchInv, WriteOutcomes = {"ok"}, [Next]_vars
    PROVE  BatchInv'
<1> USE DEF BatchInv
<1>s. TypeOK
    BY DEF RollbackInv
<1>1. CASE UNCHANGED <<batch, pc, undoComplete, log>>
    BY <1>1
<1>2. ASSUME NEW kind, NEW id, NEW before, LogMutation(kind, id, before),
             \/ Callable
             \/ kind \in {"ObjectCreated", "RelationshipCreated"}
                /\ (BatchItem("objects") \/ BatchItem("relationships"))
      PROVE  BatchInv'
  <2> SUFFICES ASSUME batch.own PROVE BatchInv'
      BY <1>s, <1>2 DEF LogMutation, TypeOK, Batches
  <2>1. ~Callable /\ pc = "batch" /\ active
      BY <1>2 DEF Callable, BatchItem, RollbackInv, NoStrandedTransaction
  <2>2. pc' = "batch" /\ undoComplete'
      BY <1>2, <2>1 DEF LogMutation
  <2>3. \A i \in 1..Len(log') : log'[i].kind \in {"ObjectCreated", "RelationshipCreated"}
      BY <1>s, <1>2, <2>1 DEF LogMutation, TypeOK
  <2> QED BY <2>2, <2>3
<1>3. CASE Lifecycle
    BY <1>1, <1>3 DEF Lifecycle, Initialize, OpenRepository, CloseRepository, Shutdown, NewHandle,
                Callable, Leave, StartRollback, txVars
<1>4. CASE Mutate
  <2>1. CASE RefuseMutation
      BY <1>s, <2>1 DEF RefuseMutation, StartRollback, Callable, BatchItem
  <2> QED BY <1>2, <1>4, <2>1
          DEF Mutate, CreateObject, UpdateObject, DeleteObject, CreateRelationship,
              UpdateRelationship, DeleteRelationship
<1>5. CASE Transact
  <2>1. ASSUME NEW kind, NEW n, StartBatch(kind, n) PROVE BatchInv'
    <3>1. active' /\ pc' = "batch" /\ undoComplete'
        BY <1>s, <2>1 DEF StartBatch, JoinOrOpen, OpenTransaction, RollbackInv, Callable
    <3>2. batch'.own => log' = <<>>
        BY <2>1 DEF StartBatch
    <3> QED BY <3>1, <3>2
  <2> QED BY <1>5, <2>1 DEF Transact, BeginTransaction, CommitTransaction, RollbackTransaction,
                            StartRollback, Callable
<1>6. CASE Continue
  <2>1. ASSUME NEW out, CommitImplicit(out) PROVE BatchInv'
      BY <2>1 DEF CommitImplicit
  <2>2. ASSUME NEW out, FinishRollback(out) \/ FinishBatch(out) PROVE BatchInv'
      BY <2>2 DEF FinishRollback, FinishBatch, NoBatch
  <2>3. ASSUME NEW out \in WriteOutcomes, UndoLast(out) PROVE BatchInv'
    <3> SUFFICES ASSUME batch.own PROVE BatchInv'
        BY <2>3 DEF UndoLast
    <3> DEFINE n == Len(log)
    <3>1. /\ n \in Nat \ {0} /\ Len(log') = n - 1 /\ LastEntry = log[n]
          /\ \A i \in 1..(n - 1) : log'[i] = log[i]
        BY <1>s, <2>3, UndoFront
    <3>2. LastEntry.kind \in {"ObjectCreated", "RelationshipCreated"}
        BY <3>1
    <3>3. Undoable(LastEntry)
        BY <1>s, <2>3, <3>2, LastFindsItsFile DEF UndoLast
    <3>4. undoComplete' = undoComplete /\ UNCHANGED <<batch, pc>>
        BY <2>3, <3>3 DEF UndoLast
    <3> QED BY <3>1, <3>4
  <2> QED BY <1>6, <2>1, <2>2, <2>3 DEF Continue
<1>7. CASE Crash
    BY <1>7 DEF Crash, LoseEvent, NoBatch
<1>8. CASE Record \/ UNCHANGED vars
    BY <1>1, <1>8 DEF Record, RecordEvent, vars, txVars, callVars
<1> QED BY <1>3, <1>4, <1>5, <1>6, <1>7, <1>8 DEF Next

LEMMA FailedBatchStep ==
    ASSUME RollbackInv, BatchInv, JournalOutcomes = {"ok"}, Next,
           batch.own, batch' = NoBatch, reply' = "error"
    PROVE  Snapshot = base
<1>1. batch # NoBatch /\ pc \in {"batch", "undo"} /\ undoComplete
    BY DEF NoBatch, BatchInv
<1>2. ~Callable /\ pc # "commit"
    BY <1>1 DEF Callable
<1>3. ~Lifecycle
    BY <1>1, <1>2 DEF Lifecycle, Initialize, OpenRepository, CloseRepository, Shutdown, NewHandle
<1>4. CASE Mutate
  <2>1. reply' # "error"
      BY <1>2, <1>4 DEF Mutate, CreateObject, UpdateObject, DeleteObject, CreateRelationship,
                UpdateRelationship, DeleteRelationship, RefuseMutation, LogMutation, StartRollback
  <2> QED BY <2>1
<1>5. ~Transact
    BY <1>2 DEF Transact, BeginTransaction, CommitTransaction, RollbackTransaction, StartBatch
<1>6. CASE Continue
  <2>1. ASSUME NEW out \in JournalOutcomes, FinishBatch(out) PROVE FALSE
      BY <2>1 DEF FinishBatch
  <2>2. ASSUME NEW out, UndoLast(out) PROVE FALSE
      BY <1>1, <2>2 DEF UndoLast
  <2>3. ASSUME NEW out, FinishRollback(out) PROVE Snapshot = base
      BY <1>1, <2>3, RollbackInvGivesRestored DEF FinishRollback, RolledBackMeansRestored
  <2> QED BY <1>2, <1>6, <2>1, <2>2, <2>3 DEF Continue, CommitImplicit
<1>7. ~Crash
    BY DEF Crash
<1>8. ~Record
    BY <1>1 DEF Record, callVars
<1> QED BY <1>3, <1>4, <1>5, <1>6, <1>7, <1>8 DEF Next

\* A batch call that opened its transaction and reports an error has left the stores
\* as it found them, if file and journal writes work (batch_create_objects,
\* batch_create_relationships).
THEOREM FailedBatchesLeaveNothing ==
    ASSUME WriteOutcomes = {"ok"}, JournalOutcomes = {"ok"}
    PROVE  Spec => FailedBatchLeavesNothing
<1>1. Init => BatchInv
    BY DEF Init, BatchInv, NoBatch
<1>2. RollbackInv /\ UndoInv /\ BatchInv /\ [Next]_vars => RollbackInv' /\ UndoInv' /\ BatchInv'
    BY RollbackInvStep, UndoStep, BatchStep
<1>3. RollbackInv /\ BatchInv /\ [Next]_vars =>
         [batch.own /\ batch' = NoBatch /\ reply' = "error" => Snapshot = base]_vars
    BY FailedBatchStep
<1> QED BY <1>1, <1>2, <1>3, RollbackInvInit, UndoInit, PTL DEF Spec, FailedBatchLeavesNothing

=============================================================================
