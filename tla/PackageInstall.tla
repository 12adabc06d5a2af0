---------------------------- MODULE PackageInstall ----------------------------
(***************************************************************************)
(* FoundationRuntime::install_package and the Repository Registry          *)
(* (platform/runtime, platform/installer): a package's Repository Fragment *)
(* is created in the stores inside one repository transaction, then the    *)
(* package is recorded in packages/<id>/registry.json, then the            *)
(* transaction is committed.  Any failure on the way rolls it back.        *)
(*                                                                         *)
(* An install is one more call of the runtime: it uses the same undo log,  *)
(* the same rollback and the same commit.  An archive that does not parse, *)
(* is not trusted or names an installed package is refused before the      *)
(* transaction is opened: a stuttering step.                               *)
(***************************************************************************)
EXTENDS FoundationRuntime, FiniteSets

CONSTANTS
    Packages,   \* package ids
    Generated,  \* in place of an id: the package leaves it to the store
    Nobody,     \* no install is running
    RegistryOutcomes    \* what writing a registry entry may do: "ok", "failed", "torn"

(* The records of an archive's fragment. *)
ObjectItems == [id : ObjectIds \cup {Generated}, value : Contents]
RelItems == [id : RelIds \cup {Generated}, value : Relationships]
Items == ObjectItems \cup RelItems

(* What matters of a RepositoryRegistryEntry: object_ids and relationship_ids. *)
RegistryEntries == [ids : SUBSET Entities]

ASSUME InstallAssumption ==
    /\ Generated \notin Entities
    /\ Nobody \notin Packages
    /\ RegistryOutcomes \subseteq {"ok", "failed", "torn"}
    /\ {Absent, Torn} \cap RegistryEntries = {}

VARIABLES
    registry,   \* package -> what its registry.json holds, Absent or Torn
    installing, \* the package being installed
    fragment    \* the extracted fragment of its archive

installVars == <<registry, installing, fragment>>
ivars == <<vars, installVars>>

SeqsUpTo(S, n) == UNION {[1..k -> S] : k \in 0..n}

\* extract_package yields all objects before all relationships.  MaxLog bounds them.
Fragments ==
    {f \in {os \o rs : os \in SeqsUpTo(ObjectItems, MaxLog), rs \in SeqsUpTo(RelItems, MaxLog)} :
        Len(f) <= MaxLog}

InstallInit ==
    /\ Init
    /\ registry = [p \in Packages |-> Absent]
    /\ installing = Nobody
    /\ fragment = <<>>

-----------------------------------------------------------------------------
\* Every record created so far has one entry in the undo log.
MoreItems == Len(log) < Len(fragment)
NextItem == fragment[Len(log) + 1]

IdsFor(item, pool) == IF item.id = Generated THEN pool \ issued ELSE {item.id}

(* is_installed: a record that does not parse also keeps the package out.   *)
Installable(p) == registry[p] = Absent

(* RepositoryRegistry::record_install. *)
RecordEntry(p, ids, out) ==
    /\ registry[p] = Absent
    /\ registry' = [registry EXCEPT ![p] = Written([ids |-> ids], out)]

(* The package passed every check: its transaction is opened. *)
StartInstall(p, f) ==
    /\ Callable
    /\ ~active
    /\ Installable(p)
    /\ OpenTransaction
    /\ log' = <<>>
    /\ pc' = "install"
    /\ reply' = "none"
    /\ installing' = p
    /\ fragment' = f
    /\ UNCHANGED <<storeVars, state, journal, issued, purpose, undoComplete, batch, registry>>

\* Faulty variant: the undo entry of a created object has the wrong kind.
InstallObjectLoggedAsDeleted(out) ==
    /\ pc = "install"
    /\ MoreItems
    /\ NextItem \in ObjectItems
    /\ \E o \in IdsFor(NextItem, ObjectIds) :
          /\ ObjectCreate(o, NextItem.value, out)
          /\ LogMutation("ObjectDeleted", o, NextItem.value)
          /\ issued' = issued \cup {o}
    /\ UNCHANGED installVars

InstallObject(out) ==
    /\ pc = "install"
    /\ MoreItems
    /\ NextItem \in ObjectItems
    /\ \E o \in IdsFor(NextItem, ObjectIds) :
          /\ ObjectCreate(o, NextItem.value, out)
          /\ LogMutation("ObjectCreated", o, Absent)
          /\ issued' = issued \cup {o}
    /\ UNCHANGED installVars

InstallRelationship(out) ==
    /\ pc = "install"
    /\ MoreItems
    /\ NextItem \in RelItems
    /\ \E r \in IdsFor(NextItem, RelIds) :
          /\ RelCreate(r, NextItem.value, out)
          /\ LogMutation("RelationshipCreated", r, Absent)
          /\ issued' = issued \cup {r}
    /\ UNCHANGED installVars

\* Faulty variant: a failing install returns without rolling back.
AbandonInstallUndone ==
    /\ pc' = "undo"
    /\ log' = <<>>
    /\ purpose' = "install"
    /\ undoComplete' = TRUE
    /\ reply' = "none"
    /\ installing' = Nobody
    /\ fragment' = <<>>
    /\ UNCHANGED <<storeVars, active, tx, base, journal, issued, batch, state, registry>>

AbandonInstall ==
    /\ StartRollback("install")
    /\ installing' = Nobody
    /\ fragment' = <<>>
    /\ UNCHANGED <<active, tx, base, registry>>

(* A record is refused by its store - its id exists, it does not validate, an *)
(* end point is missing - or its file cannot be written.                      *)
RefuseItem ==
    /\ pc = "install"
    /\ MoreItems
    /\ AbandonInstall

\* Faulty variant: the package is recorded one record too early.
AllCreatedButOne == Len(log) + 1 >= Len(fragment)
AllCreated == Len(log) = Len(fragment)

(* The package is recorded; commit_transaction_internal comes next and its     *)
(* result is dropped: CommitImplicit.                                          *)
RecordInstall(out) ==
    /\ pc = "install"
    /\ AllCreated
    /\ RecordEntry(installing, {log[i].id : i \in 1..Len(log)}, out)
    /\ pc' = "commit"
    /\ installing' = Nobody
    /\ fragment' = <<>>
    /\ UNCHANGED <<storeVars, txVars, state, journal, issued, purpose, undoComplete, batch, reply>>

RefuseRecord ==
    /\ pc = "install"
    /\ AllCreated
    /\ "failed" \in RegistryOutcomes
    /\ AbandonInstall

CrashInInstall ==
    /\ Crash
    /\ installing' = Nobody
    /\ fragment' = <<>>
    /\ UNCHANGED registry

-----------------------------------------------------------------------------
InstallStep ==
    \/ \E out \in SuccessfulWrites : InstallObject(out) \/ InstallRelationship(out)
    \/ \E out \in RegistryOutcomes \ {"failed"} : RecordInstall(out)
    \/ RefuseItem
    \/ RefuseRecord

RuntimeStep == (Lifecycle \/ Mutate \/ Transact \/ Continue) /\ UNCHANGED installVars

InstallNext ==
    \/ /\ Settled
       /\ \/ RuntimeStep
          \/ \E p \in Packages, f \in Fragments : StartInstall(p, f)
          \/ InstallStep
    \/ Record /\ UNCHANGED installVars
    \/ CrashInInstall

InstallSpec == InstallInit /\ [][InstallNext]_ivars
-----------------------------------------------------------------------------
(* Properties. *)

InstallTypeOK ==
    /\ registry \in [Packages -> RegistryEntries \cup {Absent, Torn}]
    /\ installing \in Packages \cup {Nobody}
    /\ fragment \in Seq(Items)
    /\ pc = "install" => /\ installing \in Packages
                         /\ Len(log) <= Len(fragment)
                         /\ registry[installing] = Absent

UndoingInstall == pc = "undo" /\ purpose = "install"

\* The undo log of an install names only creations, each of another file, and the
\* files are there.
InstallOnlyCreates ==
    pc = "install" \/ UndoingInstall =>
        /\ \A i \in 1..Len(log) :
              /\ log[i].kind \in {"ObjectCreated", "RelationshipCreated"}
              /\ File(log[i].id) # Absent
        /\ \A i, j \in 1..Len(log) : log[i].id = log[j].id => i = j

\* The undo log mirrors the part of the fragment that has been created.
InstallProgress ==
    pc = "install" =>
        \A i \in 1..Len(log) :
            /\ fragment[i].id \in {log[i].id, Generated}
            /\ File(log[i].id) \in {fragment[i].value, Torn}

\* What carries the properties of rollback over to installs, whose ids may have
\* been in use before (FoundationRuntime's inductive invariant, and the above).
InstallInv ==
    /\ RollbackInv
    /\ InstallTypeOK
    /\ InstallOnlyCreates
    /\ InstallProgress

\* Whatever happened before, only the disk can make the rollback of an install
\* fail: no undo of it is ever refused by a store.
InstallUndoNeverRefused ==
    UndoingInstall /\ log # <<>> => Undoable(LastEntry)

\* "The installation was rolled back; nothing was installed": what install_package
\* reports of every failure after its transaction was opened.
FailedInstallLeavesNothing ==
    UndoingInstall /\ log = <<>> => Snapshot = base

\* A package gets its registry entry only when all of its fragment is in the
\* stores, and the entry lists exactly the files that hold it.
RegisteredWhole ==
    [][\A p \in Packages : registry'[p] # registry[p] =>
          /\ p = installing
          /\ registry'[p] # Torn => Cardinality(registry'[p].ids) = Len(fragment)
          /\ \A i \in 1..Len(fragment) :
                \E id \in Entities :
                    /\ registry'[p] # Torn => id \in registry'[p].ids
                    /\ File(id) \in {fragment[i].value, Torn}
                    /\ fragment[i].id \in {id, Generated}]_ivars
=============================================================================
