-------------------------- MODULE FoundationRuntime --------------------------
(***************************************************************************)
(* FoundationRuntime: the lifecycle of one runtime handle and the          *)
(* repository transactions it runs over the stores (platform/runtime).     *)
(*                                                                         *)
(* A handle is driven by one thread, so calls do not interleave with each  *)
(* other; they do interleave with crashes.  A call that touches the disk   *)
(* more than once is therefore a sequence of steps, driven by pc and each  *)
(* mandatory: between two of them only Crash may happen.  So is the second *)
(* half of a store call: while an audit event is pending nothing else is   *)
(* done, and a call whose reply is already set has not returned yet.       *)
(*                                                                         *)
(*   idle    no call is running                                            *)
(*   commit  a mutation outside a transaction has been written, its        *)
(*           implicit transaction is about to be committed                 *)
(*   undo    rollback_transaction_internal is running                      *)
(*   batch   batch_create_objects / batch_create_relationships is running  *)
(*   install install_package is running; its steps are in PackageInstall   *)
(*   file    a batch file is being executed; its steps are in BatchFiles     *)
(*                                                                         *)
(* Calls refused before they do anything (wrong state, nested begin, ...)  *)
(* change nothing and are stuttering steps.                                *)
(***************************************************************************)
EXTENDS Stores, Naturals, Sequences

CONSTANTS
    JournalOutcomes,    \* what writing a journal record may do: "ok", "failed"
    Crashes,            \* may the process die?
    MaxTransactions,    \* bound: transactions opened in a behaviour
    MaxLog,             \* bound: mutations in one transaction
    MaxBatch            \* bound: items of one batch call

ASSUME RuntimeAssumption ==
    /\ JournalOutcomes \subseteq {"ok", "failed"}
    /\ "ok" \in JournalOutcomes
    /\ Crashes \in BOOLEAN
    /\ MaxTransactions \in Nat
    /\ MaxLog \in Nat
    /\ MaxBatch \in Nat

VARIABLES
    state,          \* state_ : RuntimeState
    active,         \* transaction_active_
    log,            \* transaction_log_, the undo log
    tx,             \* current_transaction_: how many have been opened so far
    journal,        \* transaction -> the state in its journal record, if any
    issued,         \* ids generate_uuid_v4 has given out or the disk holds
    pc,             \* where the running call is
    purpose,        \* what started the running rollback
    undoComplete,   \* undo_complete of the running rollback
    batch,          \* the running batch call
    reply,          \* what the last call that returned reported
    base            \* history: the stores when the transaction was opened

txVars == <<active, log, tx, base>>
callVars == <<pc, purpose, undoComplete, batch, reply>>
vars == <<storeVars, txVars, callVars, state, journal, issued>>

RuntimeStates ==
    {"Uninitialized", "Initialized", "RepositoryOpen", "RepositoryClosed", "Shutdown"}
Verdicts == {"None", "Committed", "RolledBack", "Failed"}
Transactions == 1..MaxTransactions

ObjectEntries ==
    [kind : {"ObjectCreated"}, id : ObjectIds, before : {Absent}]
        \cup [kind : {"ObjectUpdated", "ObjectDeleted"}, id : ObjectIds, before : Contents]
RelEntries ==
    [kind : {"RelationshipCreated"}, id : RelIds, before : {Absent}]
        \cup [kind : {"RelationshipUpdated", "RelationshipDeleted"},
              id : RelIds, before : Relationships]

\* TransactionLogEntry: `before` is the snapshot; of a creation the undo uses
\* only the id, and what was there before is Absent.
LogEntries == ObjectEntries \cup RelEntries

NoBatch == [kind |-> "none", left |-> 0, own |-> FALSE]
Batches == [kind : {"none", "objects", "relationships"}, left : 0..MaxBatch, own : BOOLEAN]

Snapshots == [objects : [ObjectIds -> ObjectFiles], rels : [RelIds -> RelFiles]]
Snapshot == [objects |-> objects, rels |-> rels]

TypeOK ==
    /\ StoresTypeOK
    /\ state \in RuntimeStates
    /\ active \in BOOLEAN
    /\ log \in Seq(LogEntries)
    /\ tx \in 0..MaxTransactions
    /\ journal \in [Transactions -> Verdicts]
    /\ issued \subseteq Entities
    /\ pc \in {"idle", "commit", "undo", "batch", "install", "file"}
    /\ purpose \in {"none", "refused", "install", "requested", "close", "shutdown"}
    /\ undoComplete \in BOOLEAN
    /\ batch \in Batches
    /\ reply \in {"none", "ok", "error"}
    /\ base \in Snapshots

Init ==
    /\ StoresInit
    /\ state = "Uninitialized"
    /\ active = FALSE
    /\ log = <<>>
    /\ tx = 0
    /\ journal = [t \in Transactions |-> "None"]
    /\ issued = {id \in Entities : audit[id] = "Written"}
    /\ pc = "idle"
    /\ purpose = "none"
    /\ undoComplete = TRUE
    /\ batch = NoBatch
    /\ reply = "none"
    /\ base = Snapshot

-----------------------------------------------------------------------------
(* Helpers of the calls. *)

Callable == state = "RepositoryOpen" /\ pc = "idle"
BatchItem(kind) == pc = "batch" /\ batch.kind = kind /\ batch.left > 0

(* open_transaction_internal *)
OpenTransaction ==
    /\ tx < MaxTransactions
    /\ active' = TRUE
    /\ tx' = tx + 1
    /\ base' = Snapshot

(* A mutation joins the open transaction or opens an implicit one. *)
JoinOrOpen == IF active THEN UNCHANGED <<active, tx, base>> ELSE OpenTransaction

\* Faulty variant: rollbacks are not journaled.
JournalCommitsOnly(verdict, out) ==
    journal' = IF out = "ok" /\ verdict = "Committed"
               THEN [journal EXCEPT ![tx] = verdict] ELSE journal

(* TransactionJournal::write of the current transaction's record. *)
JournalWrite(verdict, out) ==
    journal' = IF out = "ok" THEN [journal EXCEPT ![tx] = verdict] ELSE journal

\* Faulty variant: the undo entry is put in front of the older ones.
LogMutationInFront(kind, id, before) ==
    /\ JoinOrOpen
    /\ Len(log) < MaxLog
    /\ log' = <<[kind |-> kind, id |-> id, before |-> before]>> \o log
    /\ pc' = IF active THEN pc ELSE "commit"
    /\ reply' = IF active /\ pc = "idle" THEN "ok" ELSE "none"
    /\ batch' = IF pc = "batch" THEN [batch EXCEPT !.left = @ - 1] ELSE batch
    /\ UNCHANGED <<state, journal, purpose, undoComplete>>

(* The tail of a mutation that succeeded: its undo entry is pushed; the    *)
(* implicit transaction, if it opened one, is committed next.              *)
LogMutation(kind, id, before) ==
    /\ JoinOrOpen
    /\ Len(log) < MaxLog
    /\ log' = Append(log, [kind |-> kind, id |-> id, before |-> before])
    /\ pc' = IF active THEN pc ELSE "commit"
    /\ reply' = IF active /\ pc = "idle" THEN "ok" ELSE "none"
    /\ batch' = IF pc = "batch" THEN [batch EXCEPT !.left = @ - 1] ELSE batch
    /\ UNCHANGED <<state, journal, purpose, undoComplete>>

(* rollback_transaction_internal is entered. *)
StartRollback(why) ==
    /\ pc' = "undo"
    /\ purpose' = why
    /\ undoComplete' = TRUE
    /\ reply' = "none"
    /\ UNCHANGED <<storeVars, log, journal, issued, batch, state>>

-----------------------------------------------------------------------------
(* Lifecycle. *)

Initialize ==
    /\ state = "Uninitialized"
    /\ pc = "idle"
    /\ state' = "Initialized"
    /\ reply' = "ok"
    /\ UNCHANGED <<storeVars, txVars, pc, purpose, undoComplete, batch, journal, issued>>

OpenRepository ==
    /\ state \in {"Initialized", "RepositoryClosed"}
    /\ pc = "idle"
    /\ state' = "RepositoryOpen"
    /\ reply' = "ok"
    /\ UNCHANGED <<storeVars, txVars, pc, purpose, undoComplete, batch, journal, issued>>

\* Faulty variant: the stores are reset under an open transaction.
LeaveStranded(next, why) ==
    /\ state' = next
    /\ reply' = "ok"
    /\ UNCHANGED <<storeVars, txVars, pc, purpose, undoComplete, batch, journal, issued>>

(* close_repository and shutdown: reset_repository_context first rolls an  *)
(* open transaction back.                                                  *)
Leave(next, why) ==
    IF active
    THEN StartRollback(why) /\ UNCHANGED <<active, tx, base>>
    ELSE /\ state' = next
         /\ reply' = "ok"
         /\ UNCHANGED <<storeVars, txVars, pc, purpose, undoComplete, batch, journal, issued>>

CloseRepository == Callable /\ Leave("RepositoryClosed", "close")

Shutdown ==
    /\ state # "Shutdown"
    /\ pc = "idle"
    /\ Leave("Shutdown", "shutdown")

(* The handle was destroyed after shutdown and the program made another. *)
NewHandle ==
    /\ state = "Shutdown"
    /\ state' = "Uninitialized"
    /\ reply' = "none"
    /\ UNCHANGED <<storeVars, txVars, pc, purpose, undoComplete, batch, journal, issued>>

(* The process dies: the disk stays, everything in memory is gone. *)
Crash ==
    /\ Crashes
    /\ state # "Uninitialized"
    /\ state' = "Uninitialized"
    /\ active' = FALSE
    /\ log' = <<>>
    /\ pc' = "idle"
    /\ purpose' = "none"
    /\ undoComplete' = TRUE
    /\ batch' = NoBatch
    /\ reply' = "none"
    /\ LoseEvent
    /\ UNCHANGED <<journal, issued, tx, base>>

-----------------------------------------------------------------------------
(* Mutations. *)

CreateObject(o, c, out) ==
    /\ Callable \/ BatchItem("objects")
    /\ o \notin issued
    /\ ObjectCreate(o, c, out)
    /\ LogMutation("ObjectCreated", o, Absent)
    /\ issued' = issued \cup {o}

\* Faulty variant: the undo entry holds the object as it is after the update.
UpdateObjectLogsNew(o, c, out) ==
    /\ Callable
    /\ ObjectUpdate(o, c, out)
    /\ LogMutation("ObjectUpdated", o, c)
    /\ UNCHANGED issued

UpdateObject(o, c, out) ==
    /\ Callable
    /\ ObjectUpdate(o, c, out)
    /\ LogMutation("ObjectUpdated", o, objects[o])
    /\ UNCHANGED issued

\* The object must load before it is removed.
DeleteObject(o) ==
    /\ Callable
    /\ ObjectLoads(o)
    /\ ObjectRemove(o)
    /\ LogMutation("ObjectDeleted", o, objects[o])
    /\ UNCHANGED issued

CreateRelationship(r, v, out) ==
    /\ Callable \/ BatchItem("relationships")
    /\ r \notin issued
    /\ RelCreate(r, v, out)
    /\ LogMutation("RelationshipCreated", r, Absent)
    /\ issued' = issued \cup {r}

UpdateRelationship(r, note, out) ==
    /\ Callable
    /\ RelUpdate(r, note, out)
    /\ LogMutation("RelationshipUpdated", r, rels[r])
    /\ UNCHANGED issued

DeleteRelationship(r) ==
    /\ Callable
    /\ RelLoads(r)
    /\ RelRemove(r)
    /\ LogMutation("RelationshipDeleted", r, rels[r])
    /\ UNCHANGED issued

\* Faulty variant: a batch that fails keeps the items created so far.
RefuseMutationKeepsItems ==
    /\ BatchItem("objects") \/ BatchItem("relationships")
    /\ active' = FALSE
    /\ log' = <<>>
    /\ JournalWrite("Failed", "ok")
    /\ pc' = "idle"
    /\ batch' = NoBatch
    /\ reply' = "error"
    /\ UNCHANGED <<storeVars, state, tx, base, issued, purpose, undoComplete>>

(* A mutation that fails (an entity that does not load, arguments that do  *)
(* not validate, a missing end point, a file error) wrote nothing; it      *)
(* rolls the whole transaction back before it returns its error.           *)
RefuseMutation ==
    /\ \/ Callable
       \/ BatchItem("objects")
       \/ BatchItem("relationships")
    /\ JoinOrOpen
    /\ StartRollback("refused")

(* The commit of an implicit transaction; its result is dropped. *)
CommitImplicit(out) ==
    /\ pc = "commit"
    /\ active' = FALSE
    /\ log' = <<>>
    /\ JournalWrite("Committed", out)
    /\ pc' = "idle"
    /\ reply' = "ok"
    /\ UNCHANGED <<storeVars, state, tx, base, issued, purpose, undoComplete, batch>>

-----------------------------------------------------------------------------
(* Explicit transactions. *)

\* Faulty variant: a transaction may be begun inside another.
BeginNested ==
    /\ Callable
    /\ OpenTransaction
    /\ log' = <<>>
    /\ reply' = "ok"
    /\ UNCHANGED <<storeVars, state, journal, issued, pc, purpose, undoComplete, batch>>

BeginTransaction ==
    /\ Callable
    /\ ~active
    /\ OpenTransaction
    /\ log' = <<>>
    /\ reply' = "ok"
    /\ UNCHANGED <<storeVars, state, journal, issued, pc, purpose, undoComplete, batch>>

CommitTransaction(out) ==
    /\ Callable
    /\ active
    /\ active' = FALSE
    /\ log' = <<>>
    /\ JournalWrite("Committed", out)
    /\ reply' = IF out = "ok" THEN "ok" ELSE "error"
    /\ UNCHANGED <<storeVars, state, tx, base, issued, pc, purpose, undoComplete, batch>>

RollbackTransaction ==
    /\ Callable
    /\ active
    /\ StartRollback("requested")
    /\ UNCHANGED <<active, tx, base>>

-----------------------------------------------------------------------------
(* Rollback: the undo log is replayed from its last entry to its first.    *)

(* Would the store call that undoes entry e succeed, the disk permitting?  *)
Undoable(e) ==
    CASE e.kind = "ObjectCreated"       -> objects[e.id] # Absent
      [] e.kind = "ObjectUpdated"       -> ObjectLoads(e.id)
      [] e.kind = "ObjectDeleted"       -> objects[e.id] = Absent
      [] e.kind = "RelationshipCreated" -> rels[e.id] # Absent
      [] e.kind = "RelationshipUpdated" -> RelLoads(e.id)
      [] e.kind = "RelationshipDeleted" -> RelFits(e.id, e.before)

UndoEffect(e, out) ==
    \/ e.kind = "ObjectCreated"       /\ ObjectRemove(e.id)
    \/ e.kind = "ObjectUpdated"       /\ ObjectUpdate(e.id, e.before, out)
    \/ e.kind = "ObjectDeleted"       /\ ObjectRestore(e.id, e.before, out)
    \/ e.kind = "RelationshipCreated" /\ RelRemove(e.id)
    \/ e.kind = "RelationshipUpdated" /\ RelUpdate(e.id, e.before.note, out)
    \/ e.kind = "RelationshipDeleted" /\ RelRestore(e.id, e.before, out)

LastEntry == log[Len(log)]

\* Faulty variant: the last undo alone decides whether the rollback is complete.
UndoLastForgets(out) ==
    /\ pc = "undo"
    /\ log # <<>>
    /\ IF out # "failed" /\ Undoable(LastEntry)
       THEN UndoEffect(LastEntry, out) /\ undoComplete' = TRUE
       ELSE undoComplete' = FALSE /\ UNCHANGED storeVars
    /\ log' = SubSeq(log, 1, Len(log) - 1)
    /\ UNCHANGED <<state, active, tx, base, journal, issued, pc, purpose, batch, reply>>

\* Faulty variant: an undo is tried until it succeeds.
UndoLastRetries(out) ==
    /\ pc = "undo"
    /\ log # <<>>
    /\ IF out # "failed" /\ Undoable(LastEntry)
       THEN /\ UndoEffect(LastEntry, out)
            /\ UNCHANGED undoComplete
            /\ log' = SubSeq(log, 1, Len(log) - 1)
       ELSE undoComplete' = FALSE /\ UNCHANGED <<storeVars, log>>
    /\ UNCHANGED <<state, active, tx, base, journal, issued, pc, purpose, batch, reply>>

\* A failed undo is remembered and the replay goes on.
UndoLast(out) ==
    /\ pc = "undo"
    /\ log # <<>>
    /\ IF out # "failed" /\ Undoable(LastEntry)
       THEN UndoEffect(LastEntry, out) /\ UNCHANGED undoComplete
       ELSE undoComplete' = FALSE /\ UNCHANGED storeVars
    /\ log' = SubSeq(log, 1, Len(log) - 1)
    /\ UNCHANGED <<state, active, tx, base, journal, issued, pc, purpose, batch, reply>>

\* close_repository and shutdown go on after the rollback they asked for.
StateAfterRollback ==
    CASE purpose = "close"    -> "RepositoryClosed"
      [] purpose = "shutdown" -> "Shutdown"
      [] OTHER                -> state

(* The log is empty: journal the rollback best effort and return to the    *)
(* call that asked for it.                                                 *)
FinishRollback(out) ==
    /\ pc = "undo"
    /\ log = <<>>
    /\ active' = FALSE
    /\ JournalWrite(IF undoComplete THEN "RolledBack" ELSE "Failed", out)
    /\ pc' = "idle"
    /\ purpose' = "none"
    /\ undoComplete' = TRUE
    /\ batch' = NoBatch
    /\ reply' = IF purpose \in {"refused", "install"} THEN "error" ELSE "ok"
    /\ state' = StateAfterRollback
    /\ UNCHANGED <<storeVars, log, tx, base, issued>>

-----------------------------------------------------------------------------
(* Batches: batch_create_objects and batch_create_relationships.  Their    *)
(* items are CreateObject / CreateRelationship steps or a RefuseMutation.  *)

StartBatch(kind, n) ==
    /\ Callable
    /\ JoinOrOpen
    /\ log' = IF active THEN log ELSE <<>>
    /\ pc' = "batch"
    /\ batch' = [kind |-> kind, left |-> n, own |-> ~active]
    /\ reply' = "none"
    /\ UNCHANGED <<storeVars, state, journal, issued, purpose, undoComplete>>

FinishBatch(out) ==
    /\ pc = "batch"
    /\ batch.left = 0
    /\ IF batch.own
       THEN /\ active' = FALSE
            /\ log' = <<>>
            /\ JournalWrite("Committed", out)
            /\ reply' = IF out = "ok" THEN "ok" ELSE "error"
       ELSE reply' = "ok" /\ UNCHANGED <<active, log, journal>>
    /\ pc' = "idle"
    /\ batch' = NoBatch
    /\ UNCHANGED <<storeVars, state, tx, base, issued, purpose, undoComplete>>

-----------------------------------------------------------------------------
Lifecycle == Initialize \/ OpenRepository \/ CloseRepository \/ Shutdown \/ NewHandle

SuccessfulWrites == WriteOutcomes \ {"failed"}

Mutate ==
    \/ \E o \in ObjectIds, c \in Contents, out \in SuccessfulWrites :
          CreateObject(o, c, out) \/ UpdateObject(o, c, out)
    \/ \E o \in ObjectIds : DeleteObject(o)
    \/ \E r \in RelIds, v \in Relationships, out \in SuccessfulWrites :
          CreateRelationship(r, v, out)
    \/ \E r \in RelIds, note \in Contents, out \in SuccessfulWrites :
          UpdateRelationship(r, note, out)
    \/ \E r \in RelIds : DeleteRelationship(r)
    \/ RefuseMutation

Transact ==
    \/ BeginTransaction
    \/ \E out \in JournalOutcomes : CommitTransaction(out)
    \/ RollbackTransaction
    \/ \E kind \in {"objects", "relationships"}, n \in 0..MaxBatch : StartBatch(kind, n)

(* The steps a running call still has to take. *)
Continue ==
    \/ \E out \in JournalOutcomes :
          CommitImplicit(out) \/ FinishRollback(out) \/ FinishBatch(out)
    \/ \E out \in WriteOutcomes : UndoLast(out)

\* The store call that is running records its event.
Record == RecordEvent /\ UNCHANGED <<txVars, callVars, state, journal, issued>>

Next ==
    \/ Settled /\ (Lifecycle \/ Mutate \/ Transact \/ Continue)
    \/ Record
    \/ Crash

Spec == Init /\ [][Next]_vars
-----------------------------------------------------------------------------
(* Properties. *)

\* A transaction is open only while a repository is open; no undo entry outlives
\* its transaction; a running call always has one; and a refused call has ended
\* it before its error is seen (reset_repository_context, MUTATION_API.md).
NoStrandedTransaction ==
    /\ active => state = "RepositoryOpen"
    /\ log # <<>> => active
    /\ pc # "idle" => active
    /\ reply = "error" => ~active

\* When the replay of the undo log ends with every undo reported successful -
\* the journal will say RolledBack - both stores hold what they held when the
\* transaction was opened (rollback_transaction_internal).
RolledBackMeansRestored ==
    pc = "undo" /\ log = <<>> /\ undoComplete => Snapshot = base

(* RolledBackMeansRestored is not inductive.  What carries it is the       *)
(* relation between the undo log, the stores and base: a file no entry of  *)
(* the log names is as it was, the first entry that names a file holds     *)
(* what was there when the transaction was opened, and a relationship's    *)
(* end points never change, so undoing that entry brings its file back.    *)

File(id) == IF id \in ObjectIds THEN objects[id] ELSE rels[id]
BaseFile(id) == IF id \in ObjectIds THEN base.objects[id] ELSE base.rels[id]

\* Entry i is the first of the log for its file.
FirstFor(i) == \A j \in 1..(i - 1) : log[j].id # log[i].id

\* An id with a file, now or when the transaction was opened, and an id the log
\* names are not given out again.
FilesIssued ==
    /\ \A id \in Entities : File(id) # Absent \/ BaseFile(id) # Absent => id \in issued
    /\ \A i \in 1..Len(log) : log[i].id \in issued

SameEnds(v, w) == v.src = w.src /\ v.dst = w.dst

EndsFixed ==
    /\ \A r \in RelIds :
          rels[r] \in Relationships /\ base.rels[r] \in Relationships
              => SameEnds(rels[r], base.rels[r])
    /\ \A i \in 1..Len(log) :
          /\ log[i].before \in Relationships
          /\ base.rels[log[i].id] \in Relationships
          => SameEnds(log[i].before, base.rels[log[i].id])

UntouchedSame ==
    active /\ undoComplete =>
        \A id \in Entities :
            (\A i \in 1..Len(log) : log[i].id # id) => File(id) = BaseFile(id)

FirstHoldsBase ==
    \A i \in 1..Len(log) : FirstFor(i) => log[i].before = BaseFile(log[i].id)

RollbackInv ==
    /\ TypeOK
    /\ NoStrandedTransaction
    /\ pc # "undo" => undoComplete
    /\ FilesIssued
    /\ EndsFixed
    /\ UntouchedSame
    /\ FirstHoldsBase

\* While the disk works, the first undo of a rollback to fail is the restore of a
\* deleted relationship one of whose end points is still missing.  Undos of object
\* entries never fail, even after that: whatever the transaction did, every entry
\* finds the objects as it needs them.
UndoFailsOnlyOnMissingEndpoint ==
    WriteOutcomes = {"ok"} /\ pc = "undo" /\ log # <<>> /\ ~Undoable(LastEntry) =>
        /\ LastEntry \in RelEntries
        /\ undoComplete => /\ LastEntry.kind = "RelationshipDeleted"
                           /\ ~EndpointsLoad(LastEntry.before)

\* While the disk works, a rollback brings every object back and adds no
\* relationship, even one that ends as Failed.
ObjectsAlwaysRestored ==
    WriteOutcomes = {"ok"} =>
        (pc = "undo" /\ log = <<>> =>
            /\ objects = base.objects
            /\ \A r \in RelIds : rels[r] \in {base.rels[r], Absent})

\* If the process never dies and the journal can be written, every transaction
\* but the open one has its record, implicit, refused and batch ones included.
JournalComplete ==
    ~Crashes /\ JournalOutcomes = {"ok"} =>
        \A t \in 1..tx : journal[t] = "None" => t = tx /\ active

\* If audit events can be written, an id that was in use and has no file is
\* reported as deleted by the audit log, also when a rollback took it away - or is
\* about to be, or the process died between removing the file and saying so, which
\* nothing makes up for later (record_audit).
DeletionTold(id) ==
    \/ audit[id] = "Deleted"
    \/ Event(id, "Deleted") \in pending
    \/ id \in unaudited

AbsentIsAudited ==
    AuditOutcomes = {"ok"} =>
        \A id \in issued :
            \/ id \in ObjectIds /\ objects[id] # Absent
            \/ id \in RelIds /\ rels[id] # Absent
            \/ DeletionTold(id)

\* A batch call that began its own transaction and reports an error leaves the
\* stores as they were before it (foundation_runtime.hpp, RuntimeBatch*Result).
FailedBatchLeavesNothing ==
    [][batch.own /\ batch' = NoBatch /\ reply' = "error" => Snapshot = base]_vars

\* What the header promises of every rollback: the transaction's mutations are
\* one deterministically reversible unit.
RollbackIsExact == pc = "undo" /\ log = <<>> => Snapshot = base

\* The runtime implements atomic transactions.
Atomic == INSTANCE AtomicTransactions
             WITH StoreValues <- Snapshots, store <- Snapshot, open <- active, saved <- base
AtomicSpec == Atomic!ASpec
=============================================================================
