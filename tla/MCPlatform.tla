----------------------------- MODULE MCPlatform -----------------------------
(***************************************************************************)
(* Instances for TLC of the components that share no state with the        *)
(* runtime's: archives (Archive), trust (PackageTrust), the lists handed   *)
(* out (ApiLists), the records of objects and transactions over a clock    *)
(* (ObjectRecords), package lists of directories that change meanwhile     *)
(* (PackageManager), and an index the records move on under                *)
(* (SearchEngine).  A behaviour is of one of them, its subject, and the    *)
(* variables of the others stay unused.                                    *)
(***************************************************************************)
EXTENDS Archive, TLC

CONSTANTS
    Publishers, Keys, Signed, MaxTime,
    Structs, Arrays, Null, MayThrow,
    TxIds, Names, FreshIds, MaxClock, MaxClosed, MaxLog,
    Dirs, PackageIds, NoId, MaxChanges,
    RecordIds, Queries, Fields

VARIABLES
    subject,
    certs, policy, installed, now, setting,
    heap, structs, last,
    clock, records, tx, log, undoing, journal, base, closed,
    disk, changes, step, unseen, found, names, packages, seen,
    stored, index, built, query, results, asked

archiveVars == vars
trustVars == <<certs, policy, installed, now, setting>>
listVars == <<heap, structs, last>>
recordVars == <<clock, records, tx, log, undoing, journal, base, closed>>
managerVars == <<disk, changes, step, unseen, found, names, packages, seen>>
searchVars == <<stored, index, built, query, results, asked>>
allVars ==
    <<subject, archiveVars, trustVars, listVars, recordVars, managerVars, searchVars>>

Trust == INSTANCE PackageTrust WITH Packages <- Signed
Lists == INSTANCE ApiLists
Record == INSTANCE ObjectRecords WITH Ids <- ObjectIds, objects <- records, now <- clock
Manager == INSTANCE PackageManager WITH Ids <- PackageIds, pc <- step
Engine == INSTANCE SearchEngine WITH Ids <- RecordIds, Contents <- Fields

ASSUME PlatformAssumption ==
    /\ Trust!TrustAssumption
    /\ Lists!ListsAssumption
    /\ Record!RecordsAssumption
    /\ Manager!PackageManagerAssumption
    /\ Engine!SearchAssumption

\* Ids and contents are only compared for equality.  (The package ids may be the same
\* values as the object ids and are then permuted with them.)
Symmetry ==
    Permutations(ObjectIds) \cup Permutations(RelIds) \cup Permutations(Contents)
        \cup Permutations(RecordIds)

\* Contents of records with five fields, the fourth with several values: no match, a
\* partial match before an exact one, several tags before a partial match.
FiveFields ==
    {[q \in Queries |-> fields] :
        fields \in {<<{0}, {0}, {0}, {}, {0}>>,
                    <<{1}, {2}, {0}, {}, {0}>>,
                    <<{0}, {0}, {0}, {0, 1, 2}, {1}>>}}

-----------------------------------------------------------------------------
Unused == "unused"

NoArchive ==
    /\ objects = Unused /\ rels = Unused /\ audit = Unused
    /\ pending = Unused /\ unaudited = Unused
    /\ archive = Unused /\ templates = Unused
    /\ destMeta = Unused /\ destObjects = Unused /\ destRels = Unused
    /\ destAudit = Unused /\ destPackages = Unused
    /\ phase = Unused /\ job = Unused /\ overwrite = Unused /\ reply = Unused
    /\ wanted = Unused /\ touched = Unused /\ wreck = Unused
NoTrust ==
    certs = Unused /\ policy = Unused /\ installed = Unused /\ now = Unused /\ setting = Unused
NoLists == heap = Unused /\ structs = Unused /\ last = Unused
NoRecords ==
    /\ clock = Unused /\ records = Unused /\ tx = Unused /\ log = Unused /\ undoing = Unused
    /\ journal = Unused /\ base = Unused /\ closed = Unused
NoManager ==
    /\ disk = Unused /\ changes = Unused /\ step = Unused /\ unseen = Unused
    /\ found = Unused /\ names = Unused /\ packages = Unused /\ seen = Unused
NoSearch ==
    /\ stored = Unused /\ index = Unused /\ built = Unused
    /\ query = Unused /\ results = Unused /\ asked = Unused

PlatformInit ==
    \/ /\ subject = "archive" /\ Init
       /\ NoTrust /\ NoLists /\ NoRecords /\ NoManager /\ NoSearch
    \/ /\ subject = "trust" /\ Trust!TrustInit
       /\ NoArchive /\ NoLists /\ NoRecords /\ NoManager /\ NoSearch
    \/ /\ subject = "lists" /\ Lists!Init
       /\ NoArchive /\ NoTrust /\ NoRecords /\ NoManager /\ NoSearch
    \/ /\ subject = "records" /\ Record!Init
       /\ NoArchive /\ NoTrust /\ NoLists /\ NoManager /\ NoSearch
    \/ /\ subject = "packages" /\ Manager!Init
       /\ NoArchive /\ NoTrust /\ NoLists /\ NoRecords /\ NoSearch
    \/ /\ subject = "search" /\ Engine!SearchInit
       /\ NoArchive /\ NoTrust /\ NoLists /\ NoRecords /\ NoManager

ArchiveStep ==
    /\ subject = "archive"
    /\ Next
    /\ UNCHANGED <<subject, trustVars, listVars, recordVars, managerVars, searchVars>>

TrustStep ==
    /\ subject = "trust"
    /\ Trust!TrustNext
    /\ UNCHANGED <<subject, archiveVars, listVars, recordVars, managerVars, searchVars>>

ListStep ==
    /\ subject = "lists"
    /\ Lists!Next
    /\ UNCHANGED <<subject, archiveVars, trustVars, recordVars, managerVars, searchVars>>

RecordStep ==
    /\ subject = "records"
    /\ Record!Next
    /\ UNCHANGED <<subject, archiveVars, trustVars, listVars, managerVars, searchVars>>

ManagerStep ==
    /\ subject = "packages"
    /\ Manager!Next
    /\ UNCHANGED <<subject, archiveVars, trustVars, listVars, recordVars, searchVars>>

SearchStep ==
    /\ subject = "search"
    /\ Engine!SearchNext
    /\ UNCHANGED <<subject, archiveVars, trustVars, listVars, recordVars, managerVars>>

PlatformNext ==
    ArchiveStep \/ TrustStep \/ ListStep \/ RecordStep \/ ManagerStep \/ SearchStep

PlatformSpec == PlatformInit /\ [][PlatformNext]_allVars

-----------------------------------------------------------------------------
(* Properties. *)

\* import_repository and instantiate_template: a rebuild that succeeds is exact but for
\* the new lastModifiedUtc of the repository, none leaves a relationship that dangles, and
\* a file that is consistent, its audit events too, is refused half way only over what a
\* short write tore, whatever else fails or dies on the way.
RebuildsAreFaithful == subject = "archive" => RebuildIsFaithful

\* TrustStore and verify_package_trust: a trusted package keeps the key it was verified
\* with, changed content is Tampered and content that cannot be read an error before the
\* Trust Store is asked, and of intact archives the verifier concludes what the Trust
\* Store answers, whatever writes fail or are cut short.
TrustIsRight == subject = "trust" => Trust!TrustIsRight

\* TrustStore: nothing but adding its publisher's certificate makes an archive trusted -
\* no revocation, expiry, lost file, policy or crash.
TrustOnlyByAdding == [][subject = "trust" => Trust!TrustsOnlyAdded]_allVars

\* The release functions of oep_api.h: the caller's pointers are to live arrays of its
\* own, and only a repository search that fails half way loses one.
OwnershipIsRight == subject = "lists" => Lists!OwnershipIsRight

\* FoundationRuntime's journal and undo: the entries of a transaction tell what became
\* of each object, a rollback restores all but a stamp, times are in order and no record
\* of a transaction is lost while ids do not repeat.
TransactionRecordsAreRight == subject = "records" => Record!RecordsAreRight

\* PackageManager::list_packages: what is listed of a directory that changes between any
\* two looks is explained by what was there - a package is loaded only on a manifest that
\* was fit when or after the directory was not disabled - and the first claim to an id wins.
PackageListsAreRight == subject = "packages" => Manager!ListsAreRight

\* SearchEngine: a search finds every record that matches, where it matches first, and
\* ranks what it found.
SearchIsRight == subject = "search" => Engine!AnswersAreRight
=============================================================================
