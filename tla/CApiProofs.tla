------------------------------ MODULE CApiProofs ------------------------------
(***************************************************************************)
(* Proofs about CApi: whatever a program calls, in whatever order, the     *)
(* runtime underneath only takes steps of FoundationRuntime, so everything *)
(* proved there holds here; the codes, the failed index and the queries    *)
(* then tell the program the truth about the stores.                       *)
(***************************************************************************)
EXTENDS CApi, FoundationRuntimeProofs, FiniteSetTheorems

USE StoresAssumption, RuntimeAssumption

-----------------------------------------------------------------------------
(* The API implements the runtime. *)

\* While a handle is being destroyed its shutdown is being carried out, or is over.
DestroyInv ==
    call = "destroy" => \/ pc = "undo" /\ purpose = "shutdown"
                        \/ pc = "idle" /\ state = "Shutdown"

\* A step of the runtime that is not a crash.
RuntimeStep == Lifecycle \/ Mutate \/ Transact \/ Continue \/ Record \/ UNCHANGED vars

LEMMA RefusedIsQuiet ==
    ASSUME NEW family, NEW c, Refused(family, c)
    PROVE  UNCHANGED vars /\ UNCHANGED <<ledger, mark>> /\ failedIndex' = -1 /\ call' = family
BY DEF Refused, Answers

LEMMA LifecycleCallIsStep == LifecycleCall => RuntimeStep
<1> SUFFICES ASSUME LifecycleCall PROVE RuntimeStep
    OBVIOUS
<1> USE DEF RuntimeStep, Lifecycle
<1>1. CASE oep_runtime_create
    BY <1>1 DEF oep_runtime_create
<1>2. CASE oep_runtime_initialize
    BY <1>2, RefusedIsQuiet DEF oep_runtime_initialize
<1>3. CASE oep_runtime_destroy
    BY <1>3 DEF oep_runtime_destroy
<1>4. ASSUME NEW good, NEW opens, oep_runtime_open_repository(good, opens) PROVE RuntimeStep
    BY <1>4, RefusedIsQuiet DEF oep_runtime_open_repository
<1>5. CASE oep_runtime_close_repository
    BY <1>5, RefusedIsQuiet DEF oep_runtime_close_repository
<1>6. CASE oep_runtime_shutdown
    BY <1>6, RefusedIsQuiet DEF oep_runtime_shutdown
<1> QED BY <1>1, <1>2, <1>3, <1>4, <1>5, <1>6 DEF LifecycleCall

LEMMA MutationCallIsStep == MutationCall => RuntimeStep
<1> SUFFICES ASSUME MutationCall PROVE RuntimeStep
    OBVIOUS
<1> USE DEF RuntimeStep
<1>1. CASE BadMutation
    BY <1>1, RefusedIsQuiet DEF BadMutation
<1>2. ASSUME NEW causes, MutationFails(causes) PROVE RuntimeStep
    BY <1>2 DEF MutationFails, Mutate
<1>3. ASSUME NEW o \in ObjectIds, NEW c \in Contents, NEW out \in SuccessfulWrites,
             oep_object_create(o, c, out) \/ oep_object_update(o, c, out) \/ oep_object_delete(o)
      PROVE  RuntimeStep
    BY <1>2, <1>3, RefusedIsQuiet
       DEF oep_object_create, oep_object_update, oep_object_delete, Mutate
<1>4. ASSUME NEW r \in RelIds, NEW src \in ObjectIds, NEW dst \in ObjectIds,
             NEW note \in Contents, NEW out \in SuccessfulWrites,
             \/ oep_relationship_create(r, src, dst, note, out)
             \/ oep_relationship_update(r, note, out)
             \/ oep_relationship_delete(r)
      PROVE  RuntimeStep
  <2>1. src # dst => [src |-> src, dst |-> dst, note |-> note] \in Relationships
      BY DEF Relationships
  <2> QED BY <1>2, <1>4, <2>1, RefusedIsQuiet
          DEF oep_relationship_create, oep_relationship_update, oep_relationship_delete, Mutate
<1> QED BY <1>1, <1>3, <1>4 DEF MutationCall

LEMMA OtherCallsAreSteps == TransactionCall \/ BatchCall => RuntimeStep
<1> SUFFICES ASSUME TransactionCall \/ BatchCall PROVE RuntimeStep
    OBVIOUS
<1> USE DEF RuntimeStep, Transact
<1>1. CASE oep_transaction_begin \/ oep_transaction_rollback
    BY <1>1, RefusedIsQuiet DEF oep_transaction_begin, oep_transaction_rollback
<1>2. ASSUME NEW out \in JournalOutcomes, oep_transaction_commit(out) PROVE RuntimeStep
    BY <1>2, RefusedIsQuiet DEF oep_transaction_commit
<1>3. ASSUME NEW kind \in {"objects", "relationships"}, NEW good, NEW goodSpecs,
             NEW n \in 0..MaxBatch, BatchCreate(kind, good, goodSpecs, n)
      PROVE  RuntimeStep
    BY <1>3, RefusedIsQuiet DEF BatchCreate
<1> QED BY <1>1, <1>2, <1>3
        DEF TransactionCall, BatchCall, oep_batch_create_objects, oep_batch_create_relationships

LEMMA WorkingIsStep == DestroyInv /\ Working => RuntimeStep
<1> SUFFICES ASSUME DestroyInv, Working PROVE RuntimeStep
    OBVIOUS
<1> USE DEF RuntimeStep
<1>1. ASSUME NEW kind, NEW causes, ItemFails(kind, causes) PROVE RuntimeStep
    BY <1>1 DEF ItemFails, Mutate
<1>2. ASSUME NEW o \in ObjectIds, NEW c \in Contents, NEW out \in SuccessfulWrites,
             BatchObject(o, c, out)
      PROVE  RuntimeStep
    BY <1>1, <1>2 DEF BatchObject, Mutate
<1>3. ASSUME NEW r \in RelIds, NEW src \in ObjectIds, NEW dst \in ObjectIds,
             NEW note \in Contents, NEW out \in SuccessfulWrites,
             BatchRelationship(r, src, dst, note, out)
      PROVE  RuntimeStep
  <2>1. src # dst => [src |-> src, dst |-> dst, note |-> note] \in Relationships
      BY DEF Relationships
  <2> QED BY <1>1, <1>3, <2>1 DEF BatchRelationship, Mutate
<1>4. ASSUME NEW out \in JournalOutcomes,
             BatchReturns(out) \/ CommitImplicit(out) \/ FinishRollback(out)
      PROVE  RuntimeStep
    BY <1>4 DEF BatchReturns, Continue
<1>5. ASSUME NEW out \in WriteOutcomes, UndoLast(out) PROVE RuntimeStep
    BY <1>5 DEF Continue
<1>6. CASE DeleteHandle
    BY <1>6 DEF DeleteHandle, DestroyInv, Lifecycle, NewHandle
<1> QED BY <1>2, <1>3, <1>4, <1>5, <1>6 DEF Working, GoOn

\* No call begins before the one before it has recorded its event.
LEMMA CallsStartSettled ==
    LifecycleCall \/ MutationCall \/ TransactionCall \/ BatchCall => Settled
<1>1. \A family, c : Refused(family, c) => Settled
    BY DEF Refused, Returned
<1>2. LifecycleCall => Settled
    BY <1>1 DEF LifecycleCall, oep_runtime_create, oep_runtime_initialize,
                oep_runtime_open_repository, oep_runtime_close_repository, oep_runtime_shutdown,
                oep_runtime_destroy, Returned
<1>3. MutationCall => Settled
  <2>1. \A causes : MutationFails(causes) => Settled
      BY DEF MutationFails, Admitted, Returned
  <2>2. Admitted(TRUE) => Settled
      BY DEF Admitted, Returned
  <2>3. ASSUME NEW o, NEW c, NEW out,
               oep_object_create(o, c, out) \/ oep_object_update(o, c, out) \/ oep_object_delete(o)
        PROVE  Settled
      BY <1>1, <2>1, <2>2, <2>3 DEF oep_object_create, oep_object_update, oep_object_delete
  <2>4. ASSUME NEW r, NEW src, NEW dst, NEW note, NEW out,
               \/ oep_relationship_create(r, src, dst, note, out)
               \/ oep_relationship_update(r, note, out)
               \/ oep_relationship_delete(r)
        PROVE  Settled
      BY <1>1, <2>1, <2>2, <2>4
         DEF oep_relationship_create, oep_relationship_update, oep_relationship_delete
  <2> QED BY <1>1, <2>3, <2>4 DEF MutationCall, BadMutation
<1>4. TransactionCall \/ BatchCall => Settled
    BY <1>1 DEF TransactionCall, oep_transaction_begin, oep_transaction_commit,
                oep_transaction_rollback, BatchCall, oep_batch_create_objects,
                oep_batch_create_relationships, BatchCreate, Admitted, Returned
<1> QED BY <1>2, <1>3, <1>4

LEMMA ApiStepIsStep == DestroyInv /\ [ApiNext]_allVars => RuntimeStep /\ [Next]_vars
<1> SUFFICES ASSUME DestroyInv, [ApiNext]_allVars PROVE RuntimeStep /\ [Next]_vars
    OBVIOUS
<1>1. RuntimeStep
    BY LifecycleCallIsStep, MutationCallIsStep, OtherCallsAreSteps, WorkingIsStep
       DEF ApiNext, allVars, RuntimeStep
<1>2. Settled \/ Record \/ UNCHANGED vars
    BY CallsStartSettled DEF ApiNext, Working, allVars
<1> QED BY <1>1, <1>2 DEF RuntimeStep, Next

LEMMA DestroyStep ==
    ASSUME TypeOK, DestroyInv, [ApiNext]_allVars
    PROVE  DestroyInv'
<1> USE DEF DestroyInv
<1>1. CASE UNCHANGED <<call, pc, purpose, state>>
    BY <1>1
<1>2. CASE call' # "destroy"
    BY <1>2
<1>3. CASE oep_runtime_destroy
    BY <1>3 DEF oep_runtime_destroy, Returned, Shutdown, Leave, StartRollback, vars, callVars
<1>4. CASE LifecycleCall /\ ~oep_runtime_destroy
    BY <1>2, <1>4
       DEF LifecycleCall, oep_runtime_create, oep_runtime_initialize, oep_runtime_open_repository,
           oep_runtime_close_repository, oep_runtime_shutdown, Refused, Answers
<1>5. CASE MutationCall
    BY <1>2, <1>5
       DEF MutationCall, BadMutation, MutationFails, oep_object_create, oep_object_update,
           oep_object_delete, oep_relationship_create, oep_relationship_update,
           oep_relationship_delete, Refused, Answers
<1>6. CASE TransactionCall \/ BatchCall
    BY <1>2, <1>6
       DEF TransactionCall, BatchCall, oep_transaction_begin, oep_transaction_commit,
           oep_transaction_rollback, oep_batch_create_objects, oep_batch_create_relationships,
           BatchCreate, Refused, Answers
<1>7. CASE Working
  <2>1. ASSUME pc = "batch", UNCHANGED call PROVE DestroyInv'
      BY <2>1
  <2>2. ASSUME NEW out, FinishRollback(out), UNCHANGED call PROVE DestroyInv'
      BY <2>2 DEF FinishRollback, StateAfterRollback
  <2>3. ASSUME NEW out, CommitImplicit(out), UNCHANGED call PROVE DestroyInv'
      BY <2>3 DEF CommitImplicit
  <2>4. ASSUME NEW out, UndoLast(out), UNCHANGED call PROVE DestroyInv'
      BY <2>4 DEF UndoLast
  <2>5. CASE DeleteHandle
      BY <2>5 DEF DeleteHandle
  <2>6. CASE Record /\ UNCHANGED apiVars
      BY <1>1, <2>6 DEF Record, callVars, apiVars
  <2> QED BY <1>7, <2>1, <2>2, <2>3, <2>4, <2>5, <2>6
          DEF Working, GoOn, BatchObject, BatchRelationship, BatchReturns, ItemFails, ItemCreated,
              BatchItem, FinishBatch, apiVars
<1>8. CASE UNCHANGED allVars
    BY <1>1, <1>8 DEF allVars, vars, apiVars, callVars
<1> QED BY <1>3, <1>4, <1>5, <1>6, <1>7, <1>8 DEF ApiNext

\* What holds of the runtime under the API, whatever the disk does.
RuntimeInv == TypeOK /\ NoStrandedTransaction /\ DestroyInv

LEMMA RuntimeInvInit == ApiInit => RuntimeInv
BY InitType DEF ApiInit, Init, RuntimeInv, NoStrandedTransaction, DestroyInv

LEMMA RuntimeInvStep == RuntimeInv /\ [ApiNext]_allVars => RuntimeInv' /\ [Next]_vars
BY ApiStepIsStep, DestroyStep, TypeStep, NoStrandedStep DEF RuntimeInv

\* A program that drives the runtime through the C API, destroying and making
\* handles as it likes, only makes the runtime do what FoundationRuntime allows, so
\* that every theorem about Spec is one about the API.
THEOREM ApiImplementsRuntime == ApiSpec => Spec
<1>1. ApiInit => Init
    BY DEF ApiInit
<1> QED BY <1>1, RuntimeInvInit, RuntimeInvStep, PTL DEF ApiSpec, Spec

-----------------------------------------------------------------------------
(* What the journal, the ledger and the failed index say.                  *)

\* The open transaction and those to come have no record; once closed, a
\* transaction has one, if it could be written.
JournalInv ==
    /\ active => tx > 0 /\ journal[tx] = "None"
    /\ \A t \in Transactions : t > tx => journal[t] = "None"
    /\ JournalOutcomes = {"ok"} => \A t \in 1..tx : journal[t] = "None" => t = tx /\ active

\* No rollback so far is recorded as failed.
NoFailedRollback == \A t \in 1..tx : journal[t] # "Failed"

\* The ledger runs ahead of a rollback: while one is running it already says what
\* the stores held when the transaction was opened.
LedgerFollows ==
    /\ active /\ pc # "undo" => mark = base
    /\ ledger = IF pc = "undo" THEN base ELSE Snapshot

LedgerInv ==
    "torn" \notin WriteOutcomes /\ JournalOutcomes = {"ok"} /\ NoFailedRollback => LedgerFollows

\* An index is given when an item fails; the rollback follows before the call returns.
IndexInv ==
    /\ count \in Nat
    /\ failedIndex \in Int
    /\ ~handle => pc = "idle" /\ failedIndex = -1
    /\ call = "destroy" => failedIndex = -1
    /\ pc = "batch" => batch.left <= count
    /\ failedIndex >= 0 =>
        /\ failedIndex < count
        /\ code # "NONE"
        /\ pc \in {"undo", "idle"}
        /\ pc = "idle" => /\ ~active
                          /\ "torn" \notin WriteOutcomes /\ journal[tx] = "RolledBack"
                                => Snapshot = base

LEMMA JournalInvInit == ApiInit => JournalInv
BY DEF ApiInit, Init, JournalInv

\* A transaction is opened or joined; no record is written.
LEMMA JournalInvOpen ==
    ASSUME TypeOK, JournalInv, JoinOrOpen, journal' = journal
    PROVE  JournalInv'
BY DEF JournalInv, JoinOrOpen, OpenTransaction, TypeOK, Transactions

LEMMA JournalInvKept ==
    ASSUME JournalInv, UNCHANGED <<journal, tx, active>>
    PROVE  JournalInv'
BY DEF JournalInv

\* The open transaction is closed; its record may be written.
LEMMA JournalInvClosed ==
    ASSUME TypeOK, JournalInv, active' = FALSE, tx' = tx,
           NEW verdict \in {"Committed", "RolledBack", "Failed"}, NEW out \in JournalOutcomes,
           JournalWrite(verdict, out)
    PROVE  JournalInv'
<1>1. tx \in 0..MaxTransactions /\ journal \in [Transactions -> Verdicts]
    BY DEF TypeOK
<1>2. out = "ok" => journal' = [journal EXCEPT ![tx] = verdict]
    BY DEF JournalWrite
<1>3. out # "ok" => journal' = journal /\ JournalOutcomes # {"ok"}
    BY DEF JournalWrite
<1> QED BY <1>1, <1>2, <1>3 DEF JournalInv, Transactions

LEMMA JournalInvStep ==
    ASSUME TypeOK, NoStrandedTransaction, JournalInv, RuntimeStep
    PROVE  JournalInv'
<1>1. CASE Lifecycle \/ RollbackTransaction
    BY <1>1, JournalInvKept
       DEF Lifecycle, Initialize, OpenRepository, CloseRepository, Shutdown, NewHandle, Leave,
           StartRollback, txVars, RollbackTransaction
<1>2. CASE Mutate
  <2>1. JoinOrOpen /\ UNCHANGED journal
      BY <1>2 DEF Mutate, CreateObject, UpdateObject, DeleteObject, CreateRelationship,
                  UpdateRelationship, DeleteRelationship, RefuseMutation, LogMutation,
                  StartRollback
  <2> QED BY <2>1, JournalInvOpen
<1>3. CASE BeginTransaction
    BY <1>3, JournalInvOpen DEF BeginTransaction, JoinOrOpen
<1>4. ASSUME NEW kind, NEW n, StartBatch(kind, n) PROVE JournalInv'
    BY <1>4, JournalInvOpen DEF StartBatch
<1>5. ASSUME NEW out \in JournalOutcomes,
             CommitTransaction(out) \/ CommitImplicit(out) \/ FinishRollback(out)
      PROVE  JournalInv'
  <2>1. PICK verdict \in {"Committed", "RolledBack", "Failed"} : JournalWrite(verdict, out)
      BY <1>5 DEF CommitTransaction, CommitImplicit, FinishRollback
  <2>2. tx' = tx /\ active' = FALSE
      BY <1>5 DEF CommitTransaction, CommitImplicit, FinishRollback
  <2> QED BY <2>1, <2>2, JournalInvClosed
<1>6. ASSUME NEW out \in JournalOutcomes, FinishBatch(out) PROVE JournalInv'
  <2>1. CASE batch.own
      BY <1>6, <2>1, JournalInvClosed DEF FinishBatch
  <2>2. CASE ~batch.own
      BY <1>6, <2>2, JournalInvKept DEF FinishBatch
  <2> QED BY <2>1, <2>2
<1>7. ASSUME NEW out, UndoLast(out) PROVE JournalInv'
    BY <1>7, JournalInvKept DEF UndoLast
<1>8. CASE Record \/ UNCHANGED vars
    BY <1>8, JournalInvKept DEF Record, vars, txVars
<1> QED BY <1>1, <1>2, <1>3, <1>4, <1>5, <1>6, <1>7, <1>8 DEF RuntimeStep, Transact, Continue

\* The queries of a refused call answer nothing, those of another the same stores.
LEMMA StoreQueriesHold == StoreQueriesAgree
<1> SUFFICES ASSUME NEW good \in BOOLEAN
             PROVE LET list == oep_object_store_list(good)
                       relList == oep_relationship_store_list(good)
                       statistics == oep_runtime_get_repository_statistics(good)
                   IN  /\ oep_object_store_get_count(good).value = Cardinality(list.value)
                       /\ oep_relationship_store_get_count(good).value = Cardinality(relList.value)
                       /\ statistics.value.total = Cardinality(list.value)
                       /\ statistics.value.relationships = Cardinality(relList.value)
                       /\ \A c \in Contents : statistics.value.objects[c] =
                            Cardinality({o \in ObjectIds :
                                            oep_object_store_get_by_id(good, o).value = c})
                       /\ list.value = {o \in ObjectIds :
                                            oep_object_store_get_by_id(good, o).code = "NONE"}
                       /\ relList.value =
                            {r \in RelIds :
                                oep_relationship_store_get_by_id(good, r).code = "NONE"}
    BY DEF StoreQueriesAgree
<1> USE DEF oep_object_store_list, oep_relationship_store_list, oep_object_store_get_count,
            oep_relationship_store_get_count, oep_runtime_get_repository_statistics,
            oep_object_store_get_by_id, oep_relationship_store_get_by_id, Query, GetById
<1>1. CASE CheckCode(good) = "NONE"
  <2>1. \A o \in ObjectIds : oep_object_store_get_by_id(good, o) =
            IF ObjectLoads(o) THEN [code |-> "NONE", value |-> objects[o]]
            ELSE [code |-> "NOT_FOUND", value |-> Absent]
      BY <1>1
  <2>2. \A r \in RelIds : oep_relationship_store_get_by_id(good, r).code =
            IF RelLoads(r) THEN "NONE" ELSE "NOT_FOUND"
      BY <1>1
  <2>3. ASSUME NEW c \in Contents
        PROVE  {o \in ListedObjects : objects[o] = c} =
                  {o \in ObjectIds : oep_object_store_get_by_id(good, o).value = c}
      BY <2>1 DEF ListedObjects, ObjectLoads
  <2>4. ListedObjects = {o \in ObjectIds : oep_object_store_get_by_id(good, o).code = "NONE"}
      BY <2>1 DEF ListedObjects
  <2>5. ListedRels = {r \in RelIds : oep_relationship_store_get_by_id(good, r).code = "NONE"}
      BY <2>2 DEF ListedRels
  <2>6. /\ oep_object_store_list(good).value = ListedObjects
        /\ oep_relationship_store_list(good).value = ListedRels
        /\ oep_object_store_get_count(good).value = Cardinality(ListedObjects)
        /\ oep_relationship_store_get_count(good).value = Cardinality(ListedRels)
      BY <1>1
  <2>7. oep_runtime_get_repository_statistics(good).value =
            [objects |-> [c \in Contents |-> Cardinality({o \in ListedObjects : objects[o] = c})],
             total |-> Cardinality(ListedObjects),
             relationships |-> Cardinality(ListedRels)]
      BY <1>1
  <2>8. \A c \in Contents : oep_runtime_get_repository_statistics(good).value.objects[c] =
                              Cardinality({o \in ListedObjects : objects[o] = c})
      BY <2>7
  <2> HIDE DEF oep_object_store_list, oep_relationship_store_list, oep_object_store_get_count,
               oep_relationship_store_get_count, oep_runtime_get_repository_statistics,
               oep_object_store_get_by_id, oep_relationship_store_get_by_id
  <2>9. \A c \in Contents : oep_runtime_get_repository_statistics(good).value.objects[c] =
            Cardinality({o \in ObjectIds : oep_object_store_get_by_id(good, o).value = c})
      BY <2>3, <2>8
  <2>10. /\ oep_runtime_get_repository_statistics(good).value.total = Cardinality(ListedObjects)
         /\ oep_runtime_get_repository_statistics(good).value.relationships
                = Cardinality(ListedRels)
      BY <2>7
  <2> QED BY <2>4, <2>5, <2>6, <2>9, <2>10, Zenon
<1>2. CASE CheckCode(good) # "NONE"
  <2>1. Cardinality({}) = 0
      BY FS_EmptySet
  <2>2. \A o \in ObjectIds : oep_object_store_get_by_id(good, o) =
            [code |-> CheckCode(good), value |-> Absent]
      BY <1>2
  <2>3. \A r \in RelIds : oep_relationship_store_get_by_id(good, r).code = CheckCode(good)
      BY <1>2
  <2>4. ASSUME NEW c \in Contents
        PROVE  {o \in ObjectIds : oep_object_store_get_by_id(good, o).value = c} = {}
      BY <2>2
  <2>5. /\ {o \in ObjectIds : oep_object_store_get_by_id(good, o).code = "NONE"} = {}
        /\ {r \in RelIds : oep_relationship_store_get_by_id(good, r).code = "NONE"} = {}
      BY <1>2, <2>2, <2>3
  <2>6. /\ oep_object_store_list(good).value = {}
        /\ oep_relationship_store_list(good).value = {}
        /\ oep_object_store_get_count(good).value = 0
        /\ oep_relationship_store_get_count(good).value = 0
      BY <1>2
  <2>7. oep_runtime_get_repository_statistics(good).value =
            [objects |-> [c \in Contents |-> 0], total |-> 0, relationships |-> 0]
      BY <1>2
  <2> HIDE DEF oep_object_store_list, oep_relationship_store_list, oep_object_store_get_count,
               oep_relationship_store_get_count, oep_runtime_get_repository_statistics,
               oep_object_store_get_by_id, oep_relationship_store_get_by_id
  <2>8. ASSUME NEW c \in Contents
        PROVE  oep_runtime_get_repository_statistics(good).value.objects[c] =
            Cardinality({o \in ObjectIds : oep_object_store_get_by_id(good, o).value = c})
    <3>1. oep_runtime_get_repository_statistics(good).value.objects[c] = 0
        BY <2>7
    <3> QED BY <2>1, <2>4, <3>1, Zenon
  <2>9. /\ oep_runtime_get_repository_statistics(good).value.total = 0
        /\ oep_runtime_get_repository_statistics(good).value.relationships = 0
      BY <2>7
  <2> QED BY <2>1, <2>5, <2>6, <2>8, <2>9, Zenon
<1> QED BY <1>1, <1>2

LEMMA HistoryHolds ==
    ASSUME TypeOK, JournalInv
    PROVE  HistoryAgrees
<1> SUFFICES ASSUME oep_runtime_get_state = "RepositoryOpen"
             PROVE  LET info == oep_transaction_get_info(TRUE).value
                        history == oep_transaction_history(TRUE).value
                    IN  /\ info.active = oep_transaction_is_active
                        /\ JournalOutcomes = {"ok"} =>
                              history = IF info.active THEN 1..(tx - 1) ELSE 1..tx
    BY DEF HistoryAgrees
<1>1. handle /\ state = "RepositoryOpen"
    BY DEF oep_runtime_get_state
<1>2. CheckCode(TRUE) = "NONE"
    BY <1>1 DEF CheckCode, Ladder
<1>3. oep_transaction_history(TRUE).value = {t \in 1..tx : journal[t] # "None"}
    BY <1>2 DEF oep_transaction_history, Query
<1>4. oep_transaction_get_info(TRUE).value.active = active
    BY <1>2 DEF oep_transaction_get_info, Query
<1>5. oep_transaction_is_active = active
    BY <1>1 DEF oep_transaction_is_active, TypeOK
<1>6. ASSUME JournalOutcomes = {"ok"}
      PROVE  {t \in 1..tx : journal[t] # "None"} = IF active THEN 1..(tx - 1) ELSE 1..tx
  <2>1. tx \in Nat
      BY DEF TypeOK
  <2>2. \A t \in 1..tx : journal[t] = "None" <=> t = tx /\ active
      BY <1>6 DEF JournalInv
  <2> QED BY <2>1, <2>2
<1> QED BY <1>3, <1>4, <1>5, <1>6

\* In every behaviour of a program, whatever the disk does, counts, lists, records
\* and statistics agree, and the history holds exactly the transactions that are
\* over (oep_api.cpp).
THEOREM QueriesAlwaysAgree == ApiSpec => []QueriesAgree
<1>1. RuntimeInv /\ JournalInv /\ [ApiNext]_allVars => RuntimeInv' /\ JournalInv'
    BY RuntimeInvStep, ApiStepIsStep, JournalInvStep DEF RuntimeInv
<1>2. RuntimeInv /\ JournalInv => QueriesAgree
    BY StoreQueriesHold, HistoryHolds DEF QueriesAgree, RuntimeInv
<1> QED BY <1>1, <1>2, RuntimeInvInit, JournalInvInit, PTL DEF ApiSpec

-----------------------------------------------------------------------------
(* The ledger. *)

LEMMA RecordsStay ==
    ASSUME TypeOK, NoStrandedTransaction, JournalInv, RuntimeStep
    PROVE  /\ tx' \in Nat /\ tx <= tx'
           /\ \A t \in 1..tx : journal[t] # "None" => journal'[t] = journal[t]
<1>t. tx \in 0..MaxTransactions /\ journal \in [Transactions -> Verdicts]
    BY DEF TypeOK
<1>1. \/ UNCHANGED <<tx, journal>>
      \/ JoinOrOpen /\ UNCHANGED journal
      \/ /\ active /\ tx' = tx
         /\ \E verdict \in Verdicts, out \in JournalOutcomes : JournalWrite(verdict, out)
  <2>1. CASE Lifecycle \/ RollbackTransaction \/ Record \/ UNCHANGED vars
      BY <2>1
         DEF Lifecycle, Initialize, OpenRepository, CloseRepository, Shutdown, NewHandle, Leave,
             StartRollback, Record, vars, txVars, RollbackTransaction
  <2>2. CASE Mutate
      BY <2>2 DEF Mutate, CreateObject, UpdateObject, DeleteObject, CreateRelationship,
                  UpdateRelationship, DeleteRelationship, RefuseMutation, LogMutation,
                  StartRollback
  <2>3. CASE BeginTransaction
      BY <2>3 DEF BeginTransaction, JoinOrOpen
  <2>4. ASSUME NEW kind, NEW n, StartBatch(kind, n) PROVE JoinOrOpen /\ UNCHANGED journal
      BY <2>4 DEF StartBatch
  <2>5. ASSUME NEW out \in JournalOutcomes,
               CommitTransaction(out) \/ CommitImplicit(out) \/ FinishRollback(out)
        PROVE  active /\ tx' = tx /\ \E verdict \in Verdicts : JournalWrite(verdict, out)
      BY <2>5 DEF CommitTransaction, CommitImplicit, FinishRollback, Verdicts,
                  NoStrandedTransaction
  <2>6. ASSUME NEW out \in JournalOutcomes, FinishBatch(out)
        PROVE  \/ UNCHANGED <<tx, journal>>
               \/ active /\ tx' = tx /\ \E verdict \in Verdicts : JournalWrite(verdict, out)
      BY <2>6 DEF FinishBatch, NoStrandedTransaction, Verdicts
  <2>7. ASSUME NEW out, UndoLast(out) PROVE UNCHANGED <<tx, journal>>
      BY <2>7 DEF UndoLast
  <2> QED BY <2>1, <2>2, <2>3, <2>4, <2>5, <2>6, <2>7 DEF RuntimeStep, Transact, Continue
<1>2. CASE UNCHANGED <<tx, journal>>
    BY <1>t, <1>2
<1>3. CASE JoinOrOpen /\ UNCHANGED journal
    BY <1>t, <1>3 DEF JoinOrOpen, OpenTransaction
<1>4. ASSUME active, tx' = tx, NEW verdict \in Verdicts, NEW out, JournalWrite(verdict, out)
      PROVE  \A t \in 1..tx : journal[t] # "None" => journal'[t] = journal[t]
    BY <1>t, <1>4 DEF JournalInv, JournalWrite, Transactions
<1> QED BY <1>t, <1>1, <1>2, <1>3, <1>4

\* The stores stay and the caller enters nothing.
LEMMA LedgerKept ==
    ASSUME LedgerFollows, UNCHANGED <<objects, rels, base, ledger, mark>>,
           pc' = "undo" <=> pc = "undo", active' => active
    PROVE  LedgerFollows'
BY DEF LedgerFollows, Snapshot

\* What was done is entered; the ledger is marked if it opened the transaction.
LEMMA LedgerEntered ==
    ASSUME LedgerFollows, pc # "undo", pc' # "undo", JoinOrOpen,
           ledger' = Snapshot', mark' = IF active THEN mark ELSE ledger
    PROVE  LedgerFollows'
BY DEF LedgerFollows, JoinOrOpen, OpenTransaction

\* A rollback starts: the ledger goes back to the mark.
LEMMA LedgerStruck ==
    ASSUME LedgerFollows, pc # "undo", pc' = "undo", JoinOrOpen,
           UNCHANGED <<objects, rels>>, StrikeOut
    PROVE  LedgerFollows'
BY DEF LedgerFollows, JoinOrOpen, OpenTransaction, StrikeOut, Snapshot

\* A mutation of one object or one relationship, entered as it was asked for.
LEMMA LedgerObject ==
    ASSUME LedgerFollows, pc # "undo", NEW o, NEW new,
           objects' = [objects EXCEPT ![o] = new], rels' = rels
    PROVE  [ledger EXCEPT !.objects[o] = new] = Snapshot'
<1>1. ledger = [objects |-> objects, rels |-> rels]
    BY DEF LedgerFollows, Snapshot
<1>2. [ledger EXCEPT !.objects[o] = new] = [objects |-> [objects EXCEPT ![o] = new], rels |-> rels]
    BY <1>1
<1> QED BY <1>2 DEF Snapshot

LEMMA LedgerRel ==
    ASSUME LedgerFollows, pc # "undo", NEW r, NEW new,
           rels' = [rels EXCEPT ![r] = new], objects' = objects
    PROVE  [ledger EXCEPT !.rels[r] = new] = Snapshot'
<1>1. ledger = [objects |-> objects, rels |-> rels]
    BY DEF LedgerFollows, Snapshot
<1>2. [ledger EXCEPT !.rels[r] = new] = [objects |-> objects, rels |-> [rels EXCEPT ![r] = new]]
    BY <1>1
<1> QED BY <1>2 DEF Snapshot

LEMMA RefusedKeepsLedger ==
    ASSUME LedgerFollows, NEW family, NEW c, Refused(family, c)
    PROVE  LedgerFollows'
BY LedgerKept DEF Refused, vars, storeVars, txVars, callVars

LEMMA LeaveMovesLedger ==
    ASSUME LedgerFollows, pc = "idle", NEW next, NEW why, Leave(next, why), LedgerOnLeave
    PROVE  LedgerFollows'
<1>1. CASE active
    BY <1>1, LedgerStruck DEF Leave, LedgerOnLeave, StrikeOut, StartRollback, storeVars, JoinOrOpen
<1>2. CASE ~active
    BY <1>2, LedgerKept DEF Leave, LedgerOnLeave, storeVars, txVars
<1> QED BY <1>1, <1>2

LEMMA LedgerLifecycle ==
    ASSUME NoStrandedTransaction, LedgerFollows, LifecycleCall
    PROVE  LedgerFollows'
<1>1. CASE oep_runtime_create
    BY <1>1, LedgerKept DEF oep_runtime_create, vars, storeVars, txVars, callVars
<1>2. CASE oep_runtime_initialize
  <2>1. CASE Refused("lifecycle", Ladder(TRUE, {"Uninitialized"}))
      BY <2>1, RefusedKeepsLedger
  <2>2. CASE Initialize /\ UNCHANGED <<ledger, mark>>
      BY <2>2, LedgerKept DEF Initialize, storeVars, txVars
  <2> QED BY <1>2, <2>1, <2>2 DEF oep_runtime_initialize
<1>3. CASE oep_runtime_destroy
  <2>1. CASE state # "Shutdown"
      BY <1>3, <2>1, LeaveMovesLedger DEF oep_runtime_destroy, Returned, Shutdown
  <2>2. CASE state = "Shutdown"
    <3>1. ~active
        BY <2>2 DEF NoStrandedTransaction
    <3> QED BY <1>3, <2>2, <3>1, LedgerKept
            DEF oep_runtime_destroy, LedgerOnLeave, vars, storeVars, txVars, callVars
  <2> QED BY <2>1, <2>2
<1>4. ASSUME NEW good, NEW opens, oep_runtime_open_repository(good, opens)
      PROVE  LedgerFollows'
    BY <1>4, LedgerKept, RefusedKeepsLedger
       DEF oep_runtime_open_repository, OpenRepository, storeVars, txVars
<1>5. CASE oep_runtime_close_repository
    BY <1>5, LeaveMovesLedger, RefusedKeepsLedger
       DEF oep_runtime_close_repository, CloseRepository, Returned
<1>6. CASE oep_runtime_shutdown
    BY <1>6, LeaveMovesLedger, RefusedKeepsLedger DEF oep_runtime_shutdown, Shutdown, Returned
<1> QED BY <1>1, <1>2, <1>3, <1>4, <1>5, <1>6 DEF LifecycleCall

\* A mutation that succeeded, alone or as an item of a batch.
LEMMA LedgerMutated ==
    ASSUME LedgerFollows, pc \in {"idle", "batch"}, NEW kind, NEW id, NEW before,
           LogMutation(kind, id, before), ledger' = Snapshot',
           mark' = IF active THEN mark ELSE ledger
    PROVE  LedgerFollows'
BY LedgerEntered DEF LogMutation

LEMMA LedgerMutation ==
    ASSUME "torn" \notin WriteOutcomes, LedgerFollows, MutationCall
    PROVE  LedgerFollows'
<1>1. CASE BadMutation
    BY <1>1, RefusedKeepsLedger DEF BadMutation
<1>2. ASSUME NEW causes, MutationFails(causes) PROVE LedgerFollows'
    BY <1>2, LedgerStruck
       DEF MutationFails, Admitted, Returned, RefuseMutation, StartRollback, storeVars
<1>3. ASSUME NEW o \in ObjectIds, NEW new, NEW kind, NEW before,
             Admitted(TRUE), LogMutation(kind, o, before),
             objects' = [objects EXCEPT ![o] = new], rels' = rels,
             Enter([ledger EXCEPT !.objects[o] = new])
      PROVE  LedgerFollows'
  <2>1. pc = "idle"
      BY <1>3 DEF Admitted, Returned
  <2>2. [ledger EXCEPT !.objects[o] = new] = Snapshot'
      BY <1>3, <2>1, LedgerObject
  <2> QED BY <1>3, <2>1, <2>2, LedgerMutated DEF Enter
<1>4. ASSUME NEW r \in RelIds, NEW new, NEW kind, NEW before,
             Admitted(TRUE), LogMutation(kind, r, before),
             rels' = [rels EXCEPT ![r] = new], objects' = objects,
             Enter([ledger EXCEPT !.rels[r] = new])
      PROVE  LedgerFollows'
  <2>1. pc = "idle"
      BY <1>4 DEF Admitted, Returned
  <2>2. [ledger EXCEPT !.rels[r] = new] = Snapshot'
      BY <1>4, <2>1, LedgerRel
  <2> QED BY <1>4, <2>1, <2>2, LedgerMutated DEF Enter
<1>5. ASSUME NEW o \in ObjectIds, NEW c \in Contents, NEW out \in SuccessfulWrites,
             oep_object_create(o, c, out) \/ oep_object_update(o, c, out) \/ oep_object_delete(o)
      PROVE  LedgerFollows'
  <2>1. Written(c, out) = c
      BY DEF Written, SuccessfulWrites
  <2>2. CASE oep_object_create(o, c, out)
      BY <1>2, <1>3, <2>1, <2>2, RefusedKeepsLedger
         DEF oep_object_create, CreateObject, ObjectCreate
  <2>3. CASE oep_object_update(o, c, out)
      BY <1>2, <1>3, <2>1, <2>3, RefusedKeepsLedger
         DEF oep_object_update, UpdateObject, ObjectUpdate
  <2>4. CASE oep_object_delete(o)
      BY <1>2, <1>3, <2>4, RefusedKeepsLedger
         DEF oep_object_delete, DeleteObject, ObjectRemove
  <2> QED BY <1>5, <2>2, <2>3, <2>4
<1>6. ASSUME NEW r \in RelIds, NEW src \in ObjectIds, NEW dst \in ObjectIds,
             NEW note \in Contents, NEW out \in SuccessfulWrites,
             \/ oep_relationship_create(r, src, dst, note, out)
             \/ oep_relationship_update(r, note, out)
             \/ oep_relationship_delete(r)
      PROVE  LedgerFollows'
  <2>1. \A v : Written(v, out) = v
      BY DEF Written, SuccessfulWrites
  <2>2. CASE oep_relationship_create(r, src, dst, note, out)
      BY <1>2, <1>4, <2>1, <2>2, RefusedKeepsLedger
         DEF oep_relationship_create, CreateRelationship, RelCreate
  <2>3. CASE oep_relationship_update(r, note, out)
      BY <1>2, <1>4, <2>1, <2>3, RefusedKeepsLedger
         DEF oep_relationship_update, UpdateRelationship, RelUpdate
  <2>4. CASE oep_relationship_delete(r)
      BY <1>2, <1>4, <2>4, RefusedKeepsLedger
         DEF oep_relationship_delete, DeleteRelationship, RelRemove
  <2> QED BY <1>6, <2>2, <2>3, <2>4
<1> QED BY <1>1, <1>5, <1>6 DEF MutationCall

LEMMA LedgerTransaction ==
    ASSUME LedgerFollows, TransactionCall
    PROVE  LedgerFollows'
<1>1. CASE oep_transaction_begin
  <2>1. CASE BeginTransaction /\ mark' = ledger /\ ledger' = ledger
    <3>1. Snapshot' = Snapshot /\ JoinOrOpen /\ pc = "idle" /\ pc' = "idle"
        BY <2>1 DEF BeginTransaction, JoinOrOpen, Snapshot, storeVars, Callable
    <3>2. ~active /\ ledger = Snapshot
        BY <2>1, <3>1 DEF BeginTransaction, LedgerFollows
    <3> QED BY <2>1, <3>1, <3>2, LedgerEntered
  <2> QED BY <1>1, <2>1, RefusedKeepsLedger DEF oep_transaction_begin
<1>2. ASSUME NEW out, oep_transaction_commit(out) PROVE LedgerFollows'
    BY <1>2, LedgerKept, RefusedKeepsLedger
       DEF oep_transaction_commit, CommitTransaction, storeVars
<1>3. CASE oep_transaction_rollback
    BY <1>3, LedgerStruck, RefusedKeepsLedger
       DEF oep_transaction_rollback, RollbackTransaction, StartRollback, storeVars, JoinOrOpen,
           Callable
<1> QED BY <1>1, <1>2, <1>3 DEF TransactionCall

LEMMA LedgerBatch ==
    ASSUME LedgerFollows, BatchCall
    PROVE  LedgerFollows'
<1>1. ASSUME NEW kind, NEW good, NEW goodSpecs, NEW n, BatchCreate(kind, good, goodSpecs, n)
      PROVE  LedgerFollows'
  <2>1. CASE StartBatch(kind, n) /\ Enter(ledger)
    <3>1. Snapshot' = Snapshot /\ pc = "idle" /\ pc' = "batch" /\ JoinOrOpen
        BY <2>1 DEF StartBatch, Snapshot, storeVars, Callable
    <3>2. ledger = Snapshot
        BY <3>1 DEF LedgerFollows
    <3> QED BY <2>1, <3>1, <3>2, LedgerEntered DEF Enter
  <2> QED BY <1>1, <2>1, RefusedKeepsLedger DEF BatchCreate
<1> QED BY <1>1 DEF BatchCall, oep_batch_create_objects, oep_batch_create_relationships

LEMMA LedgerItem ==
    ASSUME "torn" \notin WriteOutcomes, NoStrandedTransaction, LedgerFollows,
           \/ \E o \in ObjectIds, c \in Contents, out \in SuccessfulWrites : BatchObject(o, c, out)
           \/ \E r \in RelIds, src, dst \in ObjectIds, note \in Contents, out \in SuccessfulWrites :
                BatchRelationship(r, src, dst, note, out)
    PROVE  LedgerFollows'
<1>1. pc = "batch" /\ active
    BY DEF BatchObject, BatchRelationship, ItemFails, BatchItem, NoStrandedTransaction
<1>2. ASSUME NEW kind, NEW causes, ItemFails(kind, causes) PROVE LedgerFollows'
    BY <1>1, <1>2, LedgerStruck DEF ItemFails, RefuseMutation, StartRollback, storeVars
<1>3. ASSUME NEW o \in ObjectIds, NEW c \in Contents, NEW out \in SuccessfulWrites,
             BatchObject(o, c, out)
      PROVE  LedgerFollows'
  <2>1. CASE CreateObject(o, c, out) /\ ItemCreated([ledger EXCEPT !.objects[o] = c])
    <3>1. objects' = [objects EXCEPT ![o] = c] /\ rels' = rels
        BY <2>1 DEF CreateObject, ObjectCreate, Written, SuccessfulWrites
    <3>2. [ledger EXCEPT !.objects[o] = c] = Snapshot'
        BY <1>1, <3>1, LedgerObject
    <3> QED BY <1>1, <2>1, <3>2, LedgerMutated DEF ItemCreated, CreateObject
  <2> QED BY <1>2, <1>3, <2>1 DEF BatchObject
<1>4. ASSUME NEW r \in RelIds, NEW src \in ObjectIds, NEW dst \in ObjectIds,
             NEW note \in Contents, NEW out \in SuccessfulWrites,
             BatchRelationship(r, src, dst, note, out)
      PROVE  LedgerFollows'
  <2> DEFINE v == [src |-> src, dst |-> dst, note |-> note]
  <2>1. CASE CreateRelationship(r, v, out) /\ ItemCreated([ledger EXCEPT !.rels[r] = v])
    <3>1. rels' = [rels EXCEPT ![r] = v] /\ objects' = objects
        BY <2>1 DEF CreateRelationship, RelCreate, Written, SuccessfulWrites
    <3>2. [ledger EXCEPT !.rels[r] = v] = Snapshot'
        BY <1>1, <3>1, LedgerRel
    <3> HIDE DEF v
    <3> QED BY <1>1, <2>1, <3>2, LedgerMutated DEF ItemCreated, CreateRelationship
  <2> QED BY <1>2, <1>4, <2>1 DEF BatchRelationship
<1> QED BY <1>3, <1>4

\* With a journal that can be written the batch's own commit succeeds.
LEMMA LedgerReturn ==
    ASSUME JournalOutcomes = {"ok"}, NoStrandedTransaction, LedgerFollows,
           NEW out \in JournalOutcomes, BatchReturns(out)
    PROVE  LedgerFollows'
<1>1. UNCHANGED <<ledger, mark, objects, rels, base>> /\ pc = "batch" /\ pc' = "idle"
    BY DEF BatchReturns, FinishBatch, storeVars
<1>2. active' => active
    BY DEF BatchReturns, FinishBatch
<1> QED BY <1>1, <1>2, LedgerKept

\* A rollback that is not recorded as failed has restored the stores.
LEMMA LedgerRolledBack ==
    ASSUME JournalOutcomes = {"ok"}, RollbackInv, JournalInv, LedgerFollows, NoFailedRollback',
           NEW out \in JournalOutcomes, FinishRollback(out), UNCHANGED ledger
    PROVE  LedgerFollows'
<1>1. pc = "undo" /\ log = <<>> /\ tx' = tx /\ pc' = "idle" /\ active' = FALSE
    BY DEF FinishRollback
<1>2. active /\ tx \in 1..MaxTransactions /\ journal \in [Transactions -> Verdicts]
    BY <1>1 DEF RollbackInv, NoStrandedTransaction, JournalInv, TypeOK
<1>3. undoComplete
  <2>1. journal'[tx] # "Failed"
      BY <1>1, <1>2 DEF NoFailedRollback
  <2>2. ~undoComplete => journal' = [journal EXCEPT ![tx] = "Failed"]
      BY DEF FinishRollback, JournalWrite
  <2> QED BY <1>2, <2>1, <2>2 DEF Transactions
<1>4. Snapshot = base
    BY <1>1, <1>3, RollbackInvGivesRestored DEF RolledBackMeansRestored
<1>5. Snapshot' = Snapshot /\ base' = base
    BY DEF FinishRollback, Snapshot, storeVars
<1> QED BY <1>1, <1>4, <1>5 DEF LedgerFollows

LEMMA LedgerWorking ==
    ASSUME "torn" \notin WriteOutcomes, JournalOutcomes = {"ok"}, RollbackInv, JournalInv,
           LedgerFollows, NoFailedRollback', Working
    PROVE  LedgerFollows'
<1>n. NoStrandedTransaction
    BY DEF RollbackInv
<1>1. ASSUME NEW out \in JournalOutcomes, CommitImplicit(out), UNCHANGED apiVars
      PROVE  LedgerFollows'
    BY <1>1, LedgerKept DEF CommitImplicit, storeVars, apiVars
<1>2. ASSUME NEW out \in JournalOutcomes, FinishRollback(out), UNCHANGED apiVars
      PROVE  LedgerFollows'
    BY <1>2, LedgerRolledBack DEF apiVars
<1>3. ASSUME NEW out, UndoLast(out), UNCHANGED apiVars PROVE LedgerFollows'
  <2>1. active => mark = mark
      OBVIOUS
  <2>2. pc = "undo" /\ pc' = "undo" /\ UNCHANGED <<base, ledger, active>>
      BY <1>3 DEF UndoLast, apiVars
  <2> QED BY <2>2 DEF LedgerFollows
<1>4. CASE DeleteHandle
    BY <1>4, LedgerKept DEF DeleteHandle, storeVars, txVars
<1>5. ASSUME NEW out \in JournalOutcomes, BatchReturns(out) PROVE LedgerFollows'
    BY <1>n, <1>5, LedgerReturn
<1>6. CASE Record /\ UNCHANGED apiVars
    BY <1>6, LedgerKept DEF Record, RecordEvent, txVars, callVars, apiVars
<1> QED BY <1>n, <1>1, <1>2, <1>3, <1>4, <1>5, <1>6, LedgerItem DEF Working, GoOn

LEMMA LedgerStep ==
    ASSUME "torn" \notin WriteOutcomes, RollbackInv, DestroyInv, JournalInv, LedgerInv,
           [ApiNext]_allVars
    PROVE  LedgerInv'
<1> SUFFICES ASSUME JournalOutcomes = {"ok"}, NoFailedRollback' PROVE LedgerFollows'
    BY DEF LedgerInv
<1>1. RuntimeStep
    BY ApiStepIsStep
<1>2. NoFailedRollback
  <2>1. \A t \in 1..tx : journal[t] # "None" => journal'[t] = journal[t] /\ t \in 1..tx'
      BY <1>1, RecordsStay DEF RollbackInv, TypeOK
  <2> QED BY <2>1 DEF NoFailedRollback
<1>3. LedgerFollows
    BY <1>2 DEF LedgerInv
<1>4. CASE UNCHANGED allVars
    BY <1>3, <1>4, LedgerKept DEF allVars, vars, apiVars, storeVars, txVars, callVars
<1> QED BY <1>3, <1>4, LedgerLifecycle, LedgerMutation, LedgerTransaction, LedgerBatch,
           LedgerWorking
        DEF ApiNext, RollbackInv

\* What the program can tell from its own arguments and the codes is what the stores
\* hold: unless a write was short, a journal record could not be written or one
\* says that a rollback failed, after any sequence of calls (oep_api.cpp).
THEOREM LedgerIsRight == ApiSpec => []LedgerRight
<1>1. CASE "torn" \notin WriteOutcomes
  <2> DEFINE Inv == RollbackInv /\ DestroyInv /\ JournalInv /\ LedgerInv
  <2>1. ApiInit => Inv
    <3>1. ApiInit => RollbackInv
        BY RollbackInvInit DEF ApiInit
    <3>2. ApiInit => LedgerInv
        BY DEF ApiInit, Init, LedgerInv, LedgerFollows
    <3> QED BY <3>1, <3>2, RuntimeInvInit, JournalInvInit DEF RuntimeInv
  <2>2. Inv /\ [ApiNext]_allVars => Inv'
    <3> SUFFICES ASSUME Inv, [ApiNext]_allVars PROVE Inv'
        OBVIOUS
    <3>1. RuntimeStep /\ [Next]_vars
        BY ApiStepIsStep
    <3> QED BY <1>1, <3>1, RollbackInvStep, DestroyStep, JournalInvStep, LedgerStep
            DEF RollbackInv
  <2>3. Inv => LedgerRight
      BY DEF LedgerInv, LedgerFollows, LedgerRight, NoFailedRollback, Returned
  <2> HIDE DEF Inv
  <2> QED BY <2>1, <2>2, <2>3, PTL DEF ApiSpec
<1>2. CASE "torn" \in WriteOutcomes
  <2>1. LedgerRight
      BY <1>2 DEF LedgerRight
  <2> QED BY <2>1, PTL
<1> QED BY <1>1, <1>2

-----------------------------------------------------------------------------
(* The failed index. *)

LEMMA IndexInit == ApiInit => IndexInv
BY DEF ApiInit, Init, IndexInv

\* A call that is refused, or starts, carries no index.
LEMMA IndexReset ==
    ASSUME IndexInv, failedIndex' = -1, count' \in Nat, pc' = "batch" => batch'.left <= count',
           handle', call' = "destroy" => failedIndex' = -1
    PROVE  IndexInv'
BY DEF IndexInv

LEMMA IndexRefused ==
    ASSUME IndexInv, NEW family, NEW c, Refused(family, c)
    PROVE  IndexInv'
BY DEF IndexInv, Refused, Answers, Returned, vars, callVars

LEMMA CheckedHasHandle == \A good, states : Ladder(good, states) = "NONE" => handle
BY DEF Ladder

LEMMA IndexLifecycle ==
    ASSUME IndexInv, LifecycleCall
    PROVE  IndexInv'
<1>1. CASE oep_runtime_create
    BY <1>1 DEF oep_runtime_create, IndexInv, Returned, vars, callVars
<1>2. CASE oep_runtime_initialize
  <2>1. CASE Initialize /\ Answers("lifecycle", "NONE") /\ handle
      BY <2>1, IndexReset DEF Initialize, Answers, IndexInv
  <2> QED BY <1>2, <2>1, IndexRefused DEF oep_runtime_initialize
<1>3. ASSUME handle, NEW family, Answers(family, "NONE"), pc = "idle",
             UNCHANGED vars \/ \E next, why : Leave(next, why)
      PROVE  IndexInv'
  <2>1. pc' \in {"idle", "undo"}
      BY <1>3 DEF Leave, StartRollback, vars, callVars
  <2> QED BY <1>3, <2>1, IndexReset DEF Answers, IndexInv
<1>4. CASE oep_runtime_destroy
    BY <1>3, <1>4 DEF oep_runtime_destroy, Shutdown, Returned
<1>5. ASSUME NEW good, NEW opens, oep_runtime_open_repository(good, opens)
      PROVE  IndexInv'
  <2>1. CASE /\ Ladder(good, {"Initialized", "RepositoryClosed"}) = "NONE"
             /\ OpenRepository
             /\ Answers("lifecycle", "NONE")
      BY <2>1, IndexReset, CheckedHasHandle DEF OpenRepository, Answers, IndexInv
  <2> QED BY <1>5, <2>1, IndexRefused DEF oep_runtime_open_repository
<1>6. CASE oep_runtime_close_repository
    BY <1>3, <1>6, IndexRefused DEF oep_runtime_close_repository, CloseRepository, Returned
<1>7. CASE oep_runtime_shutdown
    BY <1>3, <1>7, IndexRefused DEF oep_runtime_shutdown, Shutdown, Returned
<1> QED BY <1>1, <1>2, <1>4, <1>5, <1>6, <1>7 DEF LifecycleCall

\* A call that gets past the first rungs and is not a batch.
LEMMA IndexCalled ==
    ASSUME IndexInv, handle, NEW family, NEW c, Answers(family, c), pc' # "batch"
    PROVE  IndexInv'
BY IndexReset DEF Answers, IndexInv

LEMMA IndexMutation ==
    ASSUME IndexInv, MutationCall
    PROVE  IndexInv'
<1>1. CASE BadMutation
    BY <1>1, IndexRefused DEF BadMutation
<1>2. ASSUME NEW causes, MutationFails(causes) PROVE IndexInv'
    BY <1>2, IndexCalled, CheckedHasHandle
       DEF MutationFails, Admitted, CheckCode, RefuseMutation, StartRollback
<1>3. ASSUME Admitted(TRUE), NEW kind, NEW id, NEW before, LogMutation(kind, id, before),
             Answers("mutation", "NONE")
      PROVE  IndexInv'
  <2>1. handle
      BY <1>3, CheckedHasHandle DEF Admitted, CheckCode
  <2>2. pc' # "batch"
      BY <1>3 DEF Admitted, Returned, LogMutation
  <2> QED BY <1>3, <2>1, <2>2, IndexCalled
<1>4. ASSUME NEW o, NEW c, NEW out,
             oep_object_create(o, c, out) \/ oep_object_update(o, c, out) \/ oep_object_delete(o)
      PROVE  IndexInv'
    BY <1>2, <1>3, <1>4, IndexRefused
       DEF oep_object_create, CreateObject, oep_object_update, UpdateObject, oep_object_delete,
           DeleteObject
<1>5. ASSUME NEW r, NEW src, NEW dst, NEW note, NEW out,
             \/ oep_relationship_create(r, src, dst, note, out)
             \/ oep_relationship_update(r, note, out)
             \/ oep_relationship_delete(r)
      PROVE  IndexInv'
    BY <1>2, <1>3, <1>5, IndexRefused
       DEF oep_relationship_create, CreateRelationship, oep_relationship_update,
           UpdateRelationship, oep_relationship_delete, DeleteRelationship
<1> QED BY <1>1, <1>4, <1>5 DEF MutationCall

LEMMA IndexTransaction ==
    ASSUME IndexInv, TransactionCall
    PROVE  IndexInv'
<1>1. CASE oep_transaction_begin
    BY <1>1, IndexRefused, IndexCalled
       DEF oep_transaction_begin, BeginTransaction, Callable
<1>2. ASSUME NEW out, oep_transaction_commit(out) PROVE IndexInv'
    BY <1>2, IndexRefused, IndexCalled
       DEF oep_transaction_commit, CommitTransaction, Callable
<1>3. CASE oep_transaction_rollback
    BY <1>3, IndexRefused, IndexCalled
       DEF oep_transaction_rollback, RollbackTransaction, StartRollback
<1> QED BY <1>1, <1>2, <1>3 DEF TransactionCall

LEMMA IndexBatch ==
    ASSUME IndexInv, BatchCall
    PROVE  IndexInv'
<1>1. ASSUME NEW kind, NEW good, NEW goodSpecs, NEW n \in 0..MaxBatch,
             BatchCreate(kind, good, goodSpecs, n)
      PROVE  IndexInv'
  <2>1. CASE /\ Admitted(good) /\ StartBatch(kind, n) /\ call' = "batch"
             /\ count' = n /\ failedIndex' = -1 /\ UNCHANGED handle
      BY <2>1, IndexReset, CheckedHasHandle DEF Admitted, CheckCode, StartBatch
  <2> QED BY <1>1, <2>1, IndexRefused DEF BatchCreate
<1> QED BY <1>1 DEF BatchCall, oep_batch_create_objects, oep_batch_create_relationships

LEMMA ClassifiedIsError == \A cause : ClassifyMutationError(cause) # "NONE"
BY DEF ClassifyMutationError

\* The items not yet counted include the one that fails.
LEMMA IndexItemFails ==
    ASSUME TypeOK, DestroyInv, IndexInv, NEW kind, NEW causes, ItemFails(kind, causes)
    PROVE  IndexInv'
<1>1. /\ pc = "batch" /\ pc' = "undo"
      /\ batch.left \in Nat \ {0}
      /\ batch.left <= count
      /\ count \in Nat
      /\ failedIndex' = count - batch.left
      /\ count' = count
    BY DEF ItemFails, BatchItem, RefuseMutation, StartRollback, TypeOK, Batches, IndexInv
<1>2. handle' /\ call' # "destroy"
    BY <1>1 DEF ItemFails, DestroyInv, IndexInv
<1>3. code' # "NONE"
    BY ClassifiedIsError DEF ItemFails
<1>4. failedIndex' \in Int /\ failedIndex' < count'
    BY <1>1
<1> QED BY <1>1, <1>2, <1>3, <1>4 DEF IndexInv

LEMMA IndexItemCreated ==
    ASSUME TypeOK, NoStrandedTransaction, IndexInv, pc = "batch",
           NEW kind, NEW id, NEW before, LogMutation(kind, id, before),
           UNCHANGED <<handle, call, code, count, failedIndex>>
    PROVE  IndexInv'
<1>1. pc' = "batch" /\ batch'.left = batch.left - 1 /\ batch.left \in Nat
    BY DEF LogMutation, NoStrandedTransaction, TypeOK, Batches
<1> QED BY <1>1 DEF IndexInv

\* The rollback that an item's failure started ends: the transaction is gone, and if
\* it is recorded as rolled back its changes are, too.
LEMMA IndexRolledBack ==
    ASSUME TypeOK, NoStrandedTransaction, JournalInv, IndexInv,
           "torn" \notin WriteOutcomes => RollbackInv,
           NEW out \in JournalOutcomes, FinishRollback(out),
           UNCHANGED <<handle, call, code, count, failedIndex>>
    PROVE  IndexInv'
<1>1. pc = "undo" /\ log = <<>> /\ tx' = tx /\ pc' = "idle" /\ active' = FALSE
    BY DEF FinishRollback
<1>2. active /\ tx \in Transactions /\ journal[tx] = "None" /\ journal \in [Transactions -> Verdicts]
    BY <1>1 DEF NoStrandedTransaction, JournalInv, TypeOK, Transactions
<1>3. ASSUME "torn" \notin WriteOutcomes, journal'[tx] = "RolledBack"
      PROVE  Snapshot' = base'
  <2>1. undoComplete
      BY <1>2, <1>3 DEF FinishRollback, JournalWrite
  <2>2. Snapshot = base
      BY <1>1, <1>3, <2>1, RollbackInvGivesRestored DEF RolledBackMeansRestored
  <2> QED BY <2>2 DEF FinishRollback, Snapshot, storeVars
<1> QED BY <1>1, <1>3 DEF IndexInv

LEMMA IndexWorking ==
    ASSUME RuntimeInv, JournalInv, IndexInv, "torn" \notin WriteOutcomes => RollbackInv, Working
    PROVE  IndexInv'
<1> USE DEF RuntimeInv
<1>1. ASSUME NEW o, NEW c, NEW out, BatchObject(o, c, out) PROVE IndexInv'
    BY <1>1, IndexItemFails, IndexItemCreated
       DEF BatchObject, BatchItem, CreateObject, ItemCreated
<1>2. ASSUME NEW r, NEW src, NEW dst, NEW note, NEW out,
             BatchRelationship(r, src, dst, note, out)
      PROVE  IndexInv'
    BY <1>2, IndexItemFails, IndexItemCreated
       DEF BatchRelationship, BatchItem, CreateRelationship, ItemCreated
<1>3. ASSUME NEW out, BatchReturns(out) PROVE IndexInv'
    BY <1>3 DEF BatchReturns, FinishBatch, IndexInv
<1>4. ASSUME NEW out, CommitImplicit(out), UNCHANGED apiVars PROVE IndexInv'
    BY <1>4 DEF CommitImplicit, apiVars, IndexInv
<1>5. ASSUME NEW out \in JournalOutcomes, FinishRollback(out), UNCHANGED apiVars PROVE IndexInv'
    BY <1>5, IndexRolledBack DEF apiVars
<1>6. ASSUME NEW out, UndoLast(out), UNCHANGED apiVars PROVE IndexInv'
    BY <1>6 DEF UndoLast, apiVars, IndexInv
<1>7. CASE DeleteHandle
    BY <1>7 DEF DeleteHandle, IndexInv
<1>8. CASE Record /\ UNCHANGED apiVars
  <2>1. UNCHANGED <<objects, rels, txVars, callVars, state, journal, apiVars>>
      BY <1>8 DEF Record, RecordEvent
  <2> QED BY <2>1 DEF txVars, callVars, apiVars, Snapshot, IndexInv
<1> QED BY <1>1, <1>2, <1>3, <1>4, <1>5, <1>6, <1>7, <1>8 DEF Working, GoOn

LEMMA IndexStep ==
    ASSUME RuntimeInv, JournalInv, IndexInv, "torn" \notin WriteOutcomes => RollbackInv,
           [ApiNext]_allVars
    PROVE  IndexInv'
<1>1. CASE UNCHANGED allVars
    BY <1>1 DEF allVars, vars, apiVars, storeVars, txVars, callVars, Snapshot, IndexInv
<1> QED BY <1>1, IndexLifecycle, IndexMutation, IndexTransaction, IndexBatch, IndexWorking
        DEF ApiNext

\* A failed_index that a program can see names an item that failed, and the
\* transaction that item was part of is over and undone (oep_api.cpp, MUTATION_API.md):
\* for every disk, every batch size and every sequence of calls before.
THEOREM FailedIndexIsRight == ApiSpec => []IndexMeansRolledBack
<1> DEFINE Inv == /\ RuntimeInv /\ JournalInv /\ IndexInv
                  /\ "torn" \notin WriteOutcomes => RollbackInv
<1>1. ApiInit => Inv
    BY RuntimeInvInit, JournalInvInit, IndexInit, RollbackInvInit DEF ApiInit
<1>2. Inv /\ [ApiNext]_allVars => Inv'
  <2> SUFFICES ASSUME Inv, [ApiNext]_allVars PROVE Inv'
      OBVIOUS
  <2>1. RuntimeStep /\ [Next]_vars
      BY ApiStepIsStep DEF RuntimeInv
  <2> QED BY <2>1, RuntimeInvStep, JournalInvStep, IndexStep, RollbackInvStep DEF RuntimeInv
<1>3. Inv => IndexMeansRolledBack
    BY DEF IndexInv, IndexMeansRolledBack, Returned
<1> HIDE DEF Inv
<1> QED BY <1>1, <1>2, <1>3, PTL DEF ApiSpec
=============================================================================
