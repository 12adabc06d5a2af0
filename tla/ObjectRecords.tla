---------------------------- MODULE ObjectRecords ----------------------------
(***************************************************************************)
(* What FoundationRuntime keeps of an object and of its transactions: the  *)
(* times in an object's record, the entries of a transaction's journal     *)
(* record, and the ids generate_uuid_v4 draws for both.                    *)
(*                                                                         *)
(* FoundationRuntime (the module) has the failures and crashes; here every *)
(* file operation succeeds.  A call is one step, but for a rollback, which *)
(* undoes one change per step, and the clock ticks between the steps.      *)
(* createdUtc stands for all that is immutable in a record and the name    *)
(* for all that is not.  An id is drawn from a random engine with a 32-bit *)
(* seed: unless FreshIds, one may be drawn again.                          *)
(***************************************************************************)
EXTENDS Naturals, Sequences

CONSTANTS
    Ids,        \* the UUIDs objects may get
    TxIds,      \* the UUIDs transactions may get
    Names,      \* valid names
    Invalid,    \* a name validate_object refuses
    Absent,     \* the name of what does not exist
    FreshIds,   \* does generate_uuid_v4 never repeat itself?
    MaxClock,   \* bound: how far the clock goes
    MaxClosed,  \* bound: transactions closed
    MaxLog      \* bound: mutations of a transaction

RecordsAssumption ==
    /\ Absent \notin Names
    /\ FreshIds \in BOOLEAN
    /\ {MaxClock, MaxClosed, MaxLog} \subseteq Nat

VARIABLES
    now,        \* the clock
    objects,    \* id -> the record in its file, or Absent
    tx,         \* the current transaction: none or one record
    log,        \* transaction_log_: what the mutations changed
    undoing,    \* is the current transaction being rolled back?
    journal,    \* transaction id -> its file: none or one record
    base,       \* history: the objects when the transaction was opened
    closed      \* history: the records of all transactions, as they were closed

vars == <<now, objects, tx, log, undoing, journal, base, closed>>

Nothing == [name |-> Absent, created |-> 0, modified |-> 0]
Records == [name : Names, created : 0..MaxClock, modified : 0..MaxClock]
Exists(id) == objects[id] # Nothing

Init ==
    /\ now = 0
    /\ objects = [id \in Ids |-> Nothing]
    /\ tx = <<>>
    /\ log = <<>> /\ undoing = FALSE
    /\ journal = [t \in TxIds |-> <<>>]
    /\ base = objects
    /\ closed = <<>>

-----------------------------------------------------------------------------
(* Transactions. *)

Elements(seq) == {seq[i] : i \in DOMAIN seq}
Entries(record) == Elements(record.entries)
Drawn == {record.id : record \in Elements(closed)}
            \cup {e.id : e \in UNION {Entries(record) : record \in Elements(closed \o tx)}}

\* generate_uuid_v4
Draws(id) == FreshIds => id \notin Drawn

Opened(t) == [id |-> t, state |-> "Opened", opened |-> now, closed |-> now, entries |-> <<>>]

\* journal_operation
Journaled(record, id, previous, new) ==
    [record EXCEPT !.entries = Append(@, [at |-> now, id |-> id, previous |-> previous, new |-> new])]

\* TransactionJournal::write: the file is named after the id and replaced if there is one.
Write(record, state) ==
    LET written == [record EXCEPT !.state = state, !.closed = now]
    IN  /\ journal' = [journal EXCEPT ![record.id] = <<written>>]
        /\ closed' = Append(closed, written)
        /\ tx' = <<>> /\ log' = <<>> /\ undoing' = FALSE

\* A mutation that fails rolls its transaction back, the implicit one included.
Refused(record) ==
    /\ tx' = <<record>> /\ undoing' = TRUE
    /\ UNCHANGED <<objects, log, journal, closed>>

\* A mutation that succeeds is logged; an implicit transaction is committed at once.
Mutated(record, id, next) ==
    LET journaled == Journaled(record, id, objects[id].name, next.name)
    IN  /\ objects' = [objects EXCEPT ![id] = next]
        /\ IF tx = <<>> THEN Write(journaled, "Committed")
           ELSE /\ Len(log) < MaxLog
                /\ tx' = <<journaled>>
                /\ log' = Append(log, [id |-> id, before |-> objects[id]])
                /\ UNCHANGED <<undoing, journal, closed>>

\* A call runs within the current transaction or opens one of its own.
InTransaction(Call(_)) ==
    /\ ~undoing
    /\ \/ \E record \in Elements(tx) : Call(record) /\ UNCHANGED base
       \/ /\ tx = <<>> /\ Len(closed) < MaxClosed
          /\ base' = objects
          /\ \E t \in TxIds : Draws(t) /\ Call(Opened(t))

-----------------------------------------------------------------------------
(* Calls. *)

\* ObjectStore::create refuses an invalid record and an id in use.
Create(id, name) ==
    /\ Draws(id)
    /\ InTransaction(LAMBDA record :
          IF name = Invalid \/ Exists(id) THEN Refused(record)
          ELSE Mutated(record, id, [name |-> name, created |-> now, modified |-> now]))
    /\ UNCHANGED now

\* ObjectStore::update keeps what is immutable and stamps the record.
Update(id, name) ==
    /\ InTransaction(LAMBDA record :
          IF name = Invalid \/ ~Exists(id) THEN Refused(record)
          ELSE Mutated(record, id, [objects[id] EXCEPT !.name = name, !.modified = now]))
    /\ UNCHANGED now

Delete(id) ==
    /\ InTransaction(LAMBDA record :
          IF Exists(id) THEN Mutated(record, id, Nothing) ELSE Refused(record))
    /\ UNCHANGED now

Begin ==
    /\ tx = <<>> /\ Len(closed) < MaxClosed
    /\ \E t \in TxIds : Draws(t) /\ tx' = <<Opened(t)>>
    /\ base' = objects
    /\ UNCHANGED <<now, objects, log, undoing, journal, closed>>

Commit ==
    /\ ~undoing
    /\ \E record \in Elements(tx) : Write(record, "Committed")
    /\ UNCHANGED <<now, objects, base>>

Rollback ==
    /\ ~undoing
    /\ \E record \in Elements(tx) : Refused(record)
    /\ UNCHANGED <<now, base>>

\* remove() undoes a creation, restore() a deletion, and update() an update, which
\* keeps what is immutable and stamps the record again.
Undone(stored, before) ==
    IF stored # Nothing /\ before # Nothing
    THEN [before EXCEPT !.created = stored.created, !.modified = now]
    ELSE before

\* Faulty variant: the undo log is played forwards.
UndoFirst ==
    /\ undoing /\ log # <<>>
    /\ objects' = [objects EXCEPT ![log[1].id] = Undone(@, log[1].before)]
    /\ log' = Tail(log)
    /\ UNCHANGED <<now, tx, undoing, journal, base, closed>>

\* rollback_transaction_internal takes the undo log from its end.
UndoLast ==
    /\ undoing /\ log # <<>>
    /\ LET change == log[Len(log)]
       IN  objects' = [objects EXCEPT ![change.id] = Undone(@, change.before)]
    /\ log' = SubSeq(log, 1, Len(log) - 1)
    /\ UNCHANGED <<now, tx, undoing, journal, base, closed>>

\* Everything is undone: the transaction is journaled and over.
EndRollback ==
    /\ undoing /\ log = <<>>
    /\ \E record \in Elements(tx) : Write(record, "RolledBack")
    /\ UNCHANGED <<now, objects, base>>

\* close_repository, and open_repository of another one that is new.
OpenAnother ==
    /\ tx = <<>>
    /\ objects' = [id \in Ids |-> Nothing]
    /\ journal' = [t \in TxIds |-> <<>>]
    /\ base' = objects' /\ closed' = <<>>
    /\ UNCHANGED <<now, tx, log, undoing>>

Tick ==
    /\ now < MaxClock
    /\ now' = now + 1
    /\ UNCHANGED <<objects, tx, log, undoing, journal, base, closed>>

Next ==
    \/ \E id \in Ids, name \in Names \cup {Invalid} : Create(id, name) \/ Update(id, name)
    \/ \E id \in Ids : Delete(id)
    \/ Begin \/ Commit \/ Rollback \/ UndoLast \/ EndRollback \/ OpenAnother \/ Tick

Spec == Init /\ [][Next]_vars

-----------------------------------------------------------------------------
(* Properties. *)

\* The places where the journal tells of an object, of transactions that were committed
\* and of the current one: which transaction and which of its entries.
History == closed \o tx
At(place) == History[place[1]].entries[place[2]]
Places(id) ==
    {place \in UNION {{i} \X DOMAIN History[i].entries : i \in DOMAIN History} :
        History[place[1]].state # "RolledBack" /\ At(place).id = id}
Earlier(p, q) == p[1] < q[1] \/ (p[1] = q[1] /\ p[2] < q[2])

\* The name that the last of some places left.
Left(places, name) ==
    /\ places = {} => name = Absent
    /\ \A p \in places : (\A q \in places : ~Earlier(p, q)) => name = At(p).new

\* The journal tells the story of each object: what an entry of a committed transaction,
\* or of the current one, found is what the entry before it left, and what the last one
\* left is there.  Transactions that were rolled back do not show.
JournalTellsStory ==
    ~undoing => \A id \in Ids :
        /\ \A p \in Places(id) : Left({q \in Places(id) : Earlier(q, p)}, At(p).previous)
        /\ Left(Places(id), objects[id].name)

\* A rollback restores every object but for the time of its last modification, and that
\* only of objects the transaction had updated and not deleted, with a time between.
RollbackOnlyRestamps ==
    tx = <<>> /\ closed # <<>> =>
        LET record == closed[Len(closed)] IN
        record.state = "RolledBack" => \A id \in Ids : objects[id] # base[id] =>
            /\ objects[id] = [base[id] EXCEPT !.modified = objects[id].modified]
            /\ objects[id].modified <= record.closed
            /\ \E entry \in Entries(record) :
                  /\ entry.id = id /\ Absent \notin {entry.previous, entry.new}
                  /\ entry.at <= objects[id].modified

\* Times are in order: within a record, from one record to the next, and in an object,
\* which was never modified before it was created.
TimesInOrder ==
    /\ \A i \in DOMAIN History :
          /\ \A entry \in Entries(History[i]) :
                History[i].opened <= entry.at
                    /\ (History[i].state # "Opened" => entry.at <= History[i].closed)
          /\ i > 1 => History[i - 1].closed <= History[i].opened
    /\ \A id \in Ids : objects[id].created <= objects[id].modified /\ objects[id].modified <= now

\* Every transaction that was closed has its record in the journal.
RecordsAreKept == \A record \in Elements(closed) : journal[record.id] = <<record>>

\* What is kept of a transaction agrees with what it did.
RecordsAreRight == JournalTellsStory /\ RollbackOnlyRestamps /\ TimesInOrder /\ RecordsAreKept
=============================================================================
