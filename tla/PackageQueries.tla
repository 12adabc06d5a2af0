---------------------------- MODULE PackageQueries ----------------------------
(***************************************************************************)
(* What a runtime answers about installed packages: list_installed,        *)
(* is_installed, find_owner and search_packages of the RepositoryRegistry, *)
(* and the calls of FoundationRuntime and of the C API built on them       *)
(* (oep_package_get_info, _get_contents, _locate, _verify, _search).       *)
(*                                                                         *)
(* A query changes nothing: it is an operator of the state, and what it    *)
(* answers is compared, in every state the runtime and its installs can    *)
(* reach, with which package really brought which file.  A query whose     *)
(* answer depends on the order of a directory is the set of its answers.   *)
(***************************************************************************)
EXTENDS PackageInstall

CONSTANT Titles     \* package -> the query its registry metadata matches, if any

VARIABLE contributor    \* history: entity -> the package that last created its file

qvars == <<ivars, contributor>>

QueriesInit == InstallInit /\ contributor = [id \in Entities |-> Nobody]

-----------------------------------------------------------------------------
(* RepositoryRegistry. *)

Readable(p) == registry[p] \in RegistryEntries

\* list_installed passes over what it cannot read.
ListInstalled == {p \in Packages : Readable(p)}

Claims(p, id) == id \in registry[p].ids

\* find_owner: the first package, in directory order, that lists the id.
FindOwner(id) ==
    LET claimants == {p \in ListInstalled : Claims(p, id)}
    IN  IF claimants = {} THEN {Nobody} ELSE claimants

\* search_packages: the metadata of an entry, never its objects.
MetadataMatches(q) == {p \in ListInstalled : Titles[p] = q}

-----------------------------------------------------------------------------
(* FoundationRuntime. *)

Loads(id) == IF id \in ObjectIds THEN ObjectLoads(id) ELSE RelLoads(id)

\* What of a package's record is still there.
Present(p) == {id \in registry[p].ids : Loads(id)}

\* The archive a package came from: gone, unchanged or replaced since.
ArchiveStates == {"gone", "same", "changed"}

\* Faulty variant: a registry entry is believed without looking at the stores.
VerifiedByRecord(p, archive) == archive # "changed"

\* verify_package of a package whose record can be read.
Verified(p, archive) ==
    /\ Present(p) = registry[p].ids
    /\ archive # "changed"

\* search_installed_packages: a package also matches through the present
\* content of an object it installed.
SearchInstalled(q) ==
    MetadataMatches(q)
        \cup {p \in ListInstalled :
                 \E o \in registry[p].ids \cap ObjectIds : ObjectLoads(o) /\ objects[o] = q}

-----------------------------------------------------------------------------
(* The C API. *)

(* oep_package_get_info: how a package's record answers. *)
GetInfoCode(p) ==
    CASE registry[p] = Absent -> "NOT_FOUND"
      [] registry[p] = Torn   -> "OPERATION_FAILED"
      [] OTHER                -> "NONE"

\* oep_package_get_contents leaves out what does not load any more.
GetContents(p) ==
    IF GetInfoCode(p) = "NONE"
    THEN [code |-> "NONE", objects |-> Present(p) \cap ObjectIds, rels |-> Present(p) \cap RelIds]
    ELSE [code |-> GetInfoCode(p), objects |-> {}, rels |-> {}]

\* oep_package_locate
Locate(id) ==
    {[found |-> p # Nobody,
      kind |-> CASE p = Nobody -> "none" [] id \in ObjectIds -> "object" [] OTHER -> "relationship",
      package |-> p] : p \in FindOwner(id)}

\* oep_package_verify
VerifyResult(p, archive) ==
    IF GetInfoCode(p) = "NONE"
    THEN [code |-> "NONE", verified |-> Verified(p, archive),
          expected |-> Cardinality(registry[p].ids), present |-> Cardinality(Present(p))]
    ELSE [code |-> GetInfoCode(p), verified |-> FALSE, expected |-> 0, present |-> 0]

-----------------------------------------------------------------------------
(* The history: whose file an id has.  A restored file is not created again. *)
Contribute ==
    contributor' =
        [id \in Entities |->
            IF File(id) = Absent /\ File(id)' # Absent /\ pc # "undo" THEN installing
            ELSE contributor[id]]

QueriesNext == InstallNext /\ Contribute

QueriesSpec == QueriesInit /\ [][QueriesNext]_qvars
-----------------------------------------------------------------------------
(* Properties. *)

AtRest == pc = "idle" /\ ~active

\* Nothing was left half done: no call was cut off by a crash, no rollback failed.
NothingLeftBehind == \A t \in 1..tx : journal[t] \in {"Committed", "RolledBack"}

\* Between calls, everything an installed package brought and that is still there
\* is found through the package: its record is readable and lists it, locate names
\* it, get_contents returns it and a search for its present content finds it.  No
\* failed install leaves a file of its own.  (A crash inside an install does, and so
\* does a rollback that fails; a record or a file written short is lost.)
ContributorFound ==
    NothingLeftBehind /\ AtRest =>
        \A id \in Entities :
            LET p == contributor[id]
            IN  p # Nobody /\ File(id) \notin {Absent, Torn} =>
                    /\ registry[p] # Absent
                    /\ Readable(p) =>
                        /\ p \in FindOwner(id)
                        /\ id \in GetContents(p).objects \cup GetContents(p).rels
                        /\ id \in ObjectIds => p \in SearchInstalled(objects[id])

\* If every record can be read, a package that verifies and shares no id with
\* another package's record still has exactly its own contribution, through every
\* deletion, rollback and failed install since: verify looks at ids alone, and no
\* other file may have come under one.
VerifyVouches ==
    AtRest /\ NothingLeftBehind /\ Torn \notin {registry[p] : p \in Packages} =>
        \A p \in ListInstalled :
            /\ Verified(p, "same")
            /\ \A q \in ListInstalled \ {p} : registry[p].ids \cap registry[q].ids = {}
            => \A id \in registry[p].ids : contributor[id] = p

\* Whatever is torn, the answers about one package agree: it is listed iff its info,
\* its contents and its verification can be had, and the contents are as many as
\* verification counts.
AnswersAgree ==
    \A p \in Packages, archive \in ArchiveStates :
        LET contents == GetContents(p)  verified == VerifyResult(p, archive)
        IN  /\ p \in ListInstalled <=> verified.code = "NONE"
            /\ Cardinality(contents.objects \cup contents.rels) = verified.present
            /\ verified.verified => verified.present = verified.expected
            /\ \A id \in contents.objects \cup contents.rels :
                  \E a \in Locate(id) : a.found /\ a.package = p

\* The registry tells the truth about what packages brought, to every query alike.
RegistryTellsTruth == ContributorFound /\ VerifyVouches /\ AnswersAgree
=============================================================================
