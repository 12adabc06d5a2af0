-------------------------------- MODULE CApi --------------------------------
(***************************************************************************)
(* The C API over one runtime handle (platform/api): lifecycle, mutations, *)
(* transactions, batches and the queries that read the stores.             *)
(*                                                                         *)
(* Every function climbs the same ladder: the handle and the arguments     *)
(* (OEP_ERROR_INVALID_ARGUMENT), the runtime's state (INVALID_STATE), then *)
(* the runtime's own call, whose failure is classified by its message.  A  *)
(* call the first two rungs refuse reaches nothing.  `good` says whether   *)
(* the arguments pass the first rung.  The steps between a call's start    *)
(* and its return are those of FoundationRuntime; the code a call is going *)
(* to return is known when it starts to, and is seen once it has returned. *)
(*                                                                         *)
(* ledger and mark belong to the caller: what it can tell from its own     *)
(* arguments, the codes, and oep_transaction_is_active after a failure.    *)
(*                                                                         *)
(* OEP_ERROR_INTERNAL stands for a C++ exception (memory exhaustion);      *)
(* ApiLists has the calls that allocate.                                   *)
(***************************************************************************)
EXTENDS FoundationRuntime, FiniteSets, Integers

VARIABLES
    handle,         \* does the caller hold a handle?
    call,           \* the family of the last API call
    code,           \* the error code it returns
    count,          \* number of specs of the last batch call
    failedIndex,    \* failed_index of the last batch call, -1 otherwise
    ledger,         \* the caller: what the stores hold, by its own account
    mark            \* the caller: its ledger when the transaction was opened

apiVars == <<handle, call, code, count, failedIndex, ledger, mark>>
allVars == <<vars, apiVars>>

Codes == {"NONE", "INVALID_ARGUMENT", "INVALID_STATE", "NOT_FOUND", "OPERATION_FAILED"}

ApiInit ==
    /\ Init
    /\ handle = FALSE
    /\ call = "none"
    /\ code = "NONE"
    /\ count = 0
    /\ failedIndex = -1
    /\ ledger = Snapshot
    /\ mark = Snapshot

-----------------------------------------------------------------------------
(* The ladder. *)

Returned == pc = "idle" /\ Settled /\ call # "destroy"

Ladder(good, states) ==
    CASE ~handle \/ ~good    -> "INVALID_ARGUMENT"
      [] state \notin states -> "INVALID_STATE"
      [] OTHER               -> "NONE"

CheckCode(good) == Ladder(good, {"RepositoryOpen"})

\* A call of a family ends, or will end, with code c.
Answers(family, c) ==
    /\ call' = family
    /\ code' = c
    /\ failedIndex' = -1
    /\ UNCHANGED <<handle, count>>

\* The API's own checks refuse the call: nothing below it is reached.
Refused(family, c) ==
    /\ Returned
    /\ c # "NONE"
    /\ Answers(family, c)
    /\ UNCHANGED <<vars, ledger, mark>>

(* What a failing runtime call reports: the object or relationship has no  *)
(* file, an end point does not load, the record does not validate, the     *)
(* file cannot be read, the disk refuses.                                  *)
ClassifyMutationError(cause) ==
    CASE cause \in {"missing", "endpoint"} -> "NOT_FOUND"
      [] cause = "invalid"                 -> "INVALID_ARGUMENT"
      [] OTHER                             -> "OPERATION_FAILED"

DiskCauses == IF "failed" \in WriteOutcomes THEN {"io"} ELSE {}

\* An object is created, given a name or an empty one.
CreateObjectCauses == {"invalid"} \cup DiskCauses

\* A relationship is validated before its end points are looked at.
CreateRelCauses(src, dst) ==
    CASE src = dst                             -> {"invalid"}
      [] ~ObjectLoads(src) \/ ~ObjectLoads(dst) -> {"endpoint"}
      [] OTHER                                 -> DiskCauses

\* A record is loaded before it is changed; `more` is what may fail after that.
ChangeCauses(file, more) ==
    CASE file = Absent -> {"missing"}
      [] file = Torn   -> {"unreadable"}
      [] OTHER         -> more

-----------------------------------------------------------------------------
(* Lifecycle. *)

\* A NULL version makes no handle; that call changes nothing.
oep_runtime_create ==
    /\ ~handle
    /\ Returned
    /\ handle' = TRUE
    /\ call' = "lifecycle"
    /\ code' = "NONE"
    /\ UNCHANGED <<vars, count, failedIndex, ledger, mark>>

\* Does leaving the repository roll a transaction back?  The caller says so.
LedgerOnLeave ==
    /\ ledger' = IF active THEN mark ELSE ledger
    /\ UNCHANGED mark

oep_runtime_initialize ==
    \/ Refused("lifecycle", Ladder(TRUE, {"Uninitialized"}))
    \/ /\ handle
       /\ Returned
       /\ Initialize
       /\ Answers("lifecycle", "NONE")
       /\ UNCHANGED <<ledger, mark>>

\* opens: does the path lead to a repository whose metadata loads?
oep_runtime_open_repository(good, opens) ==
    LET c == Ladder(good, {"Initialized", "RepositoryClosed"}) IN
    \/ Refused("lifecycle", c)
    \/ c = "NONE" /\ ~opens /\ Refused("lifecycle", "NOT_FOUND")
    \/ /\ c = "NONE"
       /\ opens
       /\ Returned
       /\ OpenRepository
       /\ Answers("lifecycle", "NONE")
       /\ UNCHANGED <<ledger, mark>>

oep_runtime_close_repository ==
    \/ Refused("lifecycle", CheckCode(TRUE))
    \/ /\ handle
       /\ Returned
       /\ CloseRepository
       /\ Answers("lifecycle", "NONE")
       /\ LedgerOnLeave

oep_runtime_shutdown ==
    \/ Refused("lifecycle", Ladder(TRUE, RuntimeStates \ {"Shutdown"}))
    \/ /\ handle
       /\ Returned
       /\ Shutdown
       /\ Answers("lifecycle", "NONE")
       /\ LedgerOnLeave

\* The handle is shut down, unless it is already, and then deleted.
oep_runtime_destroy ==
    /\ handle
    /\ Returned
    /\ IF state # "Shutdown" THEN Shutdown ELSE UNCHANGED vars
    /\ Answers("destroy", "NONE")
    /\ LedgerOnLeave

DeleteHandle ==
    /\ call = "destroy"
    /\ pc = "idle"
    /\ handle' = FALSE
    /\ state' = "Uninitialized"
    /\ reply' = "none"
    /\ call' = "none"
    /\ UNCHANGED <<storeVars, txVars, pc, purpose, undoComplete, batch, journal, issued>>
    /\ UNCHANGED <<code, count, failedIndex, ledger, mark>>

-----------------------------------------------------------------------------
(* Mutations. *)

Admitted(good) == Returned /\ CheckCode(good) = "NONE"

\* Whatever the function, bad arguments get no further than the first rungs.
BadMutation == Refused("mutation", CheckCode(FALSE))

\* The caller enters what it asked for; outside a transaction that is final.
Enter(entry) ==
    /\ ledger' = entry
    /\ mark' = IF active THEN mark ELSE ledger

\* Foundation refused: whatever the open transaction did is undone.
StrikeOut ==
    /\ ledger' = IF active THEN mark ELSE ledger
    /\ UNCHANGED mark

MutationFails(causes) ==
    /\ Admitted(TRUE)
    /\ RefuseMutation
    /\ \E cause \in causes : Answers("mutation", ClassifyMutationError(cause))
    /\ StrikeOut

oep_object_create(o, c, out) ==
    \/ Refused("mutation", CheckCode(TRUE))
    \/ MutationFails(CreateObjectCauses)
    \/ /\ Admitted(TRUE)
       /\ CreateObject(o, c, out)
       /\ Answers("mutation", "NONE")
       /\ Enter([ledger EXCEPT !.objects[o] = c])

oep_object_update(o, c, out) ==
    \/ Refused("mutation", CheckCode(TRUE))
    \/ MutationFails(ChangeCauses(objects[o], {"invalid"} \cup DiskCauses))
    \/ /\ Admitted(TRUE)
       /\ UpdateObject(o, c, out)
       /\ Answers("mutation", "NONE")
       /\ Enter([ledger EXCEPT !.objects[o] = c])

oep_object_delete(o) ==
    \/ Refused("mutation", CheckCode(TRUE))
    \/ MutationFails(ChangeCauses(objects[o], DiskCauses))
    \/ /\ Admitted(TRUE)
       /\ DeleteObject(o)
       /\ Answers("mutation", "NONE")
       /\ Enter([ledger EXCEPT !.objects[o] = Absent])

oep_relationship_create(r, src, dst, note, out) ==
    \/ Refused("mutation", CheckCode(TRUE))
    \/ MutationFails(CreateRelCauses(src, dst))
    \/ LET v == [src |-> src, dst |-> dst, note |-> note] IN
       /\ Admitted(TRUE)
       /\ src # dst
       /\ CreateRelationship(r, v, out)
       /\ Answers("mutation", "NONE")
       /\ Enter([ledger EXCEPT !.rels[r] = v])

oep_relationship_update(r, note, out) ==
    \/ Refused("mutation", CheckCode(TRUE))
    \/ MutationFails(ChangeCauses(rels[r], DiskCauses))
    \/ /\ Admitted(TRUE)
       /\ UpdateRelationship(r, note, out)
       /\ Answers("mutation", "NONE")
       /\ Enter([ledger EXCEPT !.rels[r] = [rels[r] EXCEPT !.note = note]])

oep_relationship_delete(r) ==
    \/ Refused("mutation", CheckCode(TRUE))
    \/ MutationFails(ChangeCauses(rels[r], DiskCauses))
    \/ /\ Admitted(TRUE)
       /\ DeleteRelationship(r)
       /\ Answers("mutation", "NONE")
       /\ Enter([ledger EXCEPT !.rels[r] = Absent])

-----------------------------------------------------------------------------
(* Transactions: a wrong `active` is INVALID_STATE, too. *)

TransactionCode(wanted) ==
    IF CheckCode(TRUE) # "NONE" THEN CheckCode(TRUE)
    ELSE IF active = wanted THEN "NONE" ELSE "INVALID_STATE"

oep_transaction_begin ==
    \/ Refused("transaction", TransactionCode(FALSE))
    \/ /\ handle
       /\ Returned
       /\ BeginTransaction
       /\ Answers("transaction", "NONE")
       /\ mark' = ledger
       /\ UNCHANGED ledger

\* Whatever the code, the transaction is over and its mutations stay.
oep_transaction_commit(out) ==
    \/ Refused("transaction", TransactionCode(TRUE))
    \/ /\ handle
       /\ Returned
       /\ CommitTransaction(out)
       /\ Answers("transaction", IF out = "ok" THEN "NONE" ELSE "OPERATION_FAILED")
       /\ UNCHANGED <<ledger, mark>>

oep_transaction_rollback ==
    \/ Refused("transaction", TransactionCode(TRUE))
    \/ /\ handle
       /\ Returned
       /\ RollbackTransaction
       /\ Answers("transaction", "NONE")
       /\ StrikeOut

-----------------------------------------------------------------------------
(* Batches: the specs are looked at after the state. *)

BatchCode(good, goodSpecs) ==
    IF CheckCode(good) = "NONE" /\ ~goodSpecs THEN "INVALID_ARGUMENT" ELSE CheckCode(good)

BatchCreate(kind, good, goodSpecs, n) ==
    \/ Refused("batch", BatchCode(good, goodSpecs))
    \/ /\ Admitted(good)
       /\ goodSpecs
       /\ StartBatch(kind, n)
       /\ call' = "batch"
       /\ code' = "NONE"
       /\ count' = n
       /\ failedIndex' = -1
       /\ Enter(ledger)
       /\ UNCHANGED handle

\* Faulty variant: the index is taken after the item has been counted.
ItemFailsCountsFirst(kind, causes) ==
    /\ BatchItem(kind)
    /\ RefuseMutation
    /\ \E cause \in causes : code' = ClassifyMutationError(cause)
    /\ failedIndex' = count - batch.left + 1
    /\ StrikeOut
    /\ UNCHANGED <<handle, call, count>>

ItemFails(kind, causes) ==
    /\ BatchItem(kind)
    /\ RefuseMutation
    /\ \E cause \in causes : code' = ClassifyMutationError(cause)
    /\ failedIndex' = count - batch.left
    /\ StrikeOut
    /\ UNCHANGED <<handle, call, count>>

ItemCreated(entry) ==
    /\ ledger' = entry
    /\ UNCHANGED <<handle, call, code, count, failedIndex, mark>>

oep_batch_create_objects(good, goodSpecs, n) == BatchCreate("objects", good, goodSpecs, n)

BatchObject(o, c, out) ==
    \/ ItemFails("objects", CreateObjectCauses)
    \/ /\ BatchItem("objects")
       /\ CreateObject(o, c, out)
       /\ ItemCreated([ledger EXCEPT !.objects[o] = c])

oep_batch_create_relationships(good, goodSpecs, n) ==
    BatchCreate("relationships", good, goodSpecs, n)

BatchRelationship(r, src, dst, note, out) ==
    \/ ItemFails("relationships", CreateRelCauses(src, dst))
    \/ LET v == [src |-> src, dst |-> dst, note |-> note] IN
       /\ BatchItem("relationships")
       /\ src # dst
       /\ CreateRelationship(r, v, out)
       /\ ItemCreated([ledger EXCEPT !.rels[r] = v])

\* The batch's own commit may fail: no index, but an error.
BatchReturns(out) ==
    /\ FinishBatch(out)
    /\ code' = IF batch.own /\ out = "failed" THEN "OPERATION_FAILED" ELSE "NONE"
    /\ ledger' = IF code' = "NONE" THEN ledger ELSE mark
    /\ UNCHANGED <<handle, call, count, failedIndex, mark>>

-----------------------------------------------------------------------------
(* Queries: what each would answer now.  A refused query zeroes its result. *)

oep_runtime_get_state == IF handle THEN state ELSE "Uninitialized"
oep_transaction_is_active == handle /\ active

Query(good, value, zero) ==
    LET c == CheckCode(good) IN
    [code |-> c, value |-> IF c = "NONE" THEN value ELSE zero]

\* list_all: the files of a store that load; the others are skipped.
ListedObjects == {o \in ObjectIds : ObjectLoads(o)}
ListedRels == {r \in RelIds : RelLoads(r)}

oep_object_store_get_count(good) == Query(good, Cardinality(ListedObjects), 0)
oep_object_store_list(good) == Query(good, ListedObjects, {})
oep_relationship_store_get_count(good) == Query(good, Cardinality(ListedRels), 0)
oep_relationship_store_list(good) == Query(good, ListedRels, {})

\* Any record that does not load is reported as not found.
GetById(good, loads, value) ==
    IF CheckCode(good) = "NONE" /\ ~loads
    THEN [code |-> "NOT_FOUND", value |-> Absent]
    ELSE Query(good, value, Absent)

oep_object_store_get_by_id(good, o) == GetById(good, ObjectLoads(o), objects[o])
oep_relationship_store_get_by_id(good, r) == GetById(good, RelLoads(r), rels[r])

\* Objects are counted by type, here by content.
oep_runtime_get_repository_statistics(good) ==
    Query(good,
          [objects |-> [c \in Contents |-> Cardinality({o \in ListedObjects : objects[o] = c})],
           total |-> Cardinality(ListedObjects),
           relationships |-> Cardinality(ListedRels)],
          [objects |-> [c \in Contents |-> 0], total |-> 0, relationships |-> 0])

oep_transaction_get_info(good) ==
    Query(good, [active |-> active, entries |-> IF active THEN Len(log) ELSE 0],
                [active |-> FALSE, entries |-> 0])

oep_transaction_history(good) ==
    Query(good, {t \in 1..tx : journal[t] # "None"}, {})

-----------------------------------------------------------------------------
\* Calls of the program: every kind of argument.
LifecycleCall ==
    \/ oep_runtime_create \/ oep_runtime_initialize \/ oep_runtime_destroy
    \/ \E good, opens \in BOOLEAN : oep_runtime_open_repository(good, opens)
    \/ oep_runtime_close_repository \/ oep_runtime_shutdown

MutationCall ==
    \/ BadMutation
    \/ \E out \in SuccessfulWrites :
        \/ \E o \in ObjectIds, c \in Contents :
              \/ oep_object_create(o, c, out)
              \/ oep_object_update(o, c, out)
              \/ oep_object_delete(o)
        \/ \E r \in RelIds, src, dst \in ObjectIds, note \in Contents :
              \/ oep_relationship_create(r, src, dst, note, out)
              \/ oep_relationship_update(r, note, out)
              \/ oep_relationship_delete(r)

TransactionCall ==
    \/ oep_transaction_begin \/ oep_transaction_rollback
    \/ \E out \in JournalOutcomes : oep_transaction_commit(out)

BatchCall ==
    \E good, goodSpecs \in BOOLEAN, n \in 0..MaxBatch :
        \/ oep_batch_create_objects(good, goodSpecs, n)
        \/ oep_batch_create_relationships(good, goodSpecs, n)

\* The steps a running call still has to take.
GoOn ==
    \/ \E o \in ObjectIds, c \in Contents, out \in SuccessfulWrites : BatchObject(o, c, out)
    \/ \E r \in RelIds, src, dst \in ObjectIds, note \in Contents, out \in SuccessfulWrites :
          BatchRelationship(r, src, dst, note, out)
    \/ \E out \in JournalOutcomes : BatchReturns(out)
    \/ /\ \/ \E out \in JournalOutcomes : CommitImplicit(out) \/ FinishRollback(out)
          \/ \E out \in WriteOutcomes : UndoLast(out)
       /\ UNCHANGED apiVars
    \/ DeleteHandle

Working == (Settled /\ GoOn) \/ (Record /\ UNCHANGED apiVars)

ApiNext == LifecycleCall \/ MutationCall \/ TransactionCall \/ BatchCall \/ Working

ApiSpec == ApiInit /\ [][ApiNext]_allVars

\* A call, once made, runs until it returns: there is one thread.
ApiFairSpec == ApiSpec /\ WF_allVars(Working)
-----------------------------------------------------------------------------
(* Properties. *)

\* What the caller can tell is what the repository holds: as long as every write
\* is whole, the journal can be written and reports no failed rollback, counting
\* the successes, striking out what a refusing Foundation rolled back and keeping
\* everything when the API itself refused gives the contents of both stores.
LedgerRight ==
    /\ "torn" \notin WriteOutcomes
    /\ JournalOutcomes = {"ok"}
    /\ \A t \in 1..tx : journal[t] # "Failed"
    => (Returned => ledger = Snapshot)

\* failed_index names an item exactly when the item failed and the transaction it
\* was part of is gone; the repository is then as it was when that was opened,
\* unless a write was short or the journal says that the rollback failed.
IndexMeansRolledBack ==
    Returned /\ failedIndex >= 0 =>
        /\ failedIndex < count
        /\ code # "NONE"
        /\ ~active
        /\ ("torn" \notin WriteOutcomes /\ journal[tx] = "RolledBack" => Snapshot = base)

\* Counts, lists, records and statistics.
StoreQueriesAgree ==
    \A good \in BOOLEAN :
        LET list == oep_object_store_list(good)
            relList == oep_relationship_store_list(good)
            statistics == oep_runtime_get_repository_statistics(good)
        IN  /\ oep_object_store_get_count(good).value = Cardinality(list.value)
            /\ oep_relationship_store_get_count(good).value = Cardinality(relList.value)
            /\ statistics.value.total = Cardinality(list.value)
            /\ statistics.value.relationships = Cardinality(relList.value)
            /\ \A c \in Contents : statistics.value.objects[c] =
                  Cardinality({o \in ObjectIds : oep_object_store_get_by_id(good, o).value = c})
            /\ list.value = {o \in ObjectIds : oep_object_store_get_by_id(good, o).code = "NONE"}
            /\ relList.value =
                  {r \in RelIds : oep_relationship_store_get_by_id(good, r).code = "NONE"}

\* The transaction oep_transaction_get_info reports as active is not in the
\* history; once it is not active it is, if the journal can be written.
HistoryAgrees ==
    oep_runtime_get_state = "RepositoryOpen" /\ Returned =>
        LET info == oep_transaction_get_info(TRUE).value
            history == oep_transaction_history(TRUE).value
        IN  /\ info.active = oep_transaction_is_active
            /\ (JournalOutcomes = {"ok"} => history = IF info.active THEN 1..(tx - 1) ELSE 1..tx)

\* Whatever has been called, the queries agree with each other about what the
\* repository holds and which transactions are over, and say nothing when refused.
QueriesAgree == StoreQueriesAgree /\ HistoryAgrees

\* Every call returns; oep_runtime_destroy has deleted the handle by then, also when
\* a transaction had to be rolled back first.
ApiCallsReturn == ~Returned ~> Returned
=============================================================================
