---------------------------- MODULE PackageManager ----------------------------
(***************************************************************************)
(* PackageManager (platform/packages): discovery of the packages under a   *)
(* repository's packages/ directory.                                       *)
(*                                                                         *)
(* list_packages is several passes over a directory that users and other   *)
(* programs change meanwhile: it enumerates the directories that hold a    *)
(* package.json, sorts their names, loads one after the other and then     *)
(* demotes the packages that claim an id already taken.  Loading one looks *)
(* at the disk four times: for the directory, for its .disabled marker,    *)
(* for a package.json and into that file.  A package.json is an id and     *)
(* what is made of it: "unfit" stands for a failed validation and for      *)
(* another Foundation version alike.                                       *)
(***************************************************************************)
EXTENDS Sorting, Sequences

CONSTANTS
    Dirs,           \* the names of directories: numbers, for the order of names
    Ids,            \* the package ids
    NoId,           \* the id of a package.json that is missing or does not parse
    MaxChanges      \* how often the directories change during a call

PackageManagerAssumption ==
    /\ Dirs \in SUBSET Nat /\ IsFiniteSet(Dirs)
    /\ NoId \notin Ids
    /\ MaxChanges \in Nat

VARIABLES
    disk,       \* directory -> what is there
    changes,    \* how often the disk changed during this call
    pc,         \* where the call is
    unseen,     \* directories the enumeration has still to look at
    found,      \* names of those that hold a package
    names,      \* names to load
    packages,   \* what has been loaded
    seen        \* history: what each directory held since the call began, in order

vars == <<disk, changes, pc, unseen, found, names, packages, seen>>

Unread == {[id |-> NoId, check |-> "missing"], [id |-> NoId, check |-> "broken"]}
Manifests == Unread \cup [id : Ids, check : {"fits", "unfit"}]

Gone == [there |-> FALSE, disabled |-> FALSE, manifest |-> [id |-> NoId, check |-> "missing"]]
Holdings == {Gone} \cup [there : {TRUE}, disabled : BOOLEAN, manifest : Manifests]

Package(d, state, id) == [name |-> d, state |-> state, id |-> id]

-----------------------------------------------------------------------------
\* What load_package makes of a manifest it has read.
Judged(d, manifest) ==
    Package(d, IF manifest.check = "fits" THEN "Loaded" ELSE "Invalid", manifest.id)

\* load_package, of a directory that stands still: a disabled one is not looked into.
Loaded(d, held) ==
    IF held.disabled THEN Package(d, "Disabled", NoId) ELSE Judged(d, held.manifest)

Claims(p, id) == p.state = "Loaded" /\ p.id = id

\* The first package to claim an id keeps it; what is not loaded claims nothing.
Demoted(list) ==
    [i \in DOMAIN list |->
        IF list[i].state = "Loaded" /\ \E j \in 1..(i - 1) : Claims(list[j], list[i].id)
        THEN [list[i] EXCEPT !.state = "Invalid"] ELSE list[i]]

\* A directory without a package.json is no package.
HoldsPackage(held) == held.there /\ held.manifest.check # "missing"

-----------------------------------------------------------------------------
Init ==
    /\ disk \in [Dirs -> Holdings]
    /\ changes = 0
    /\ pc = "idle"
    /\ unseen = {} /\ found = {} /\ names = <<>> /\ packages = <<>>
    /\ seen = [d \in Dirs |-> <<>>]

\* discover_packages begins.
List ==
    /\ pc = "idle"
    /\ pc' = "discover"
    /\ unseen' = Dirs
    /\ seen' = [d \in Dirs |-> <<disk[d]>>]
    /\ UNCHANGED <<disk, changes, found, names, packages>>

\* The enumeration comes to d, in any order.
Visit(d) ==
    /\ pc = "discover" /\ d \in unseen
    /\ unseen' = unseen \ {d}
    /\ found' = IF HoldsPackage(disk[d]) THEN found \cup {d} ELSE found
    /\ UNCHANGED <<disk, changes, pc, names, packages, seen>>

\* The enumeration fails: at its start with an error, later with an exception.
EnumerationFails ==
    /\ pc = "discover"
    /\ pc' = "unreadable"
    /\ UNCHANGED <<disk, changes, unseen, found, names, packages, seen>>

\* The names found are sorted.
SortNames ==
    /\ pc' = "load"
    /\ names' = Sorted(found, Increasing(found)) /\ found' = {}
    /\ UNCHANGED <<disk, changes, unseen, packages, seen>>

\* Faulty variant: an enumeration that ends early goes unnoticed.
DiscoveredEarly ==
    /\ pc = "discover" /\ unseen # Dirs
    /\ SortNames

Discovered ==
    /\ pc = "discover" /\ unseen = {}
    /\ SortNames

\* load_package finds the directory, or the whole list fails.
Enter ==
    /\ pc = "load" /\ names # <<>>
    /\ pc' = IF disk[Head(names)].there THEN "marker" ELSE "failed"
    /\ UNCHANGED <<disk, changes, unseen, found, names, packages, seen>>

\* load_package returns p for the directory it was at.
Take(p) ==
    /\ packages' = Append(packages, p)
    /\ names' = Tail(names)
    /\ pc' = "load"
    /\ UNCHANGED <<disk, changes, unseen, found, seen>>

GoOn(to) ==
    /\ pc' = to
    /\ UNCHANGED <<disk, changes, unseen, found, names, packages, seen>>

\* A directory that is gone by now is neither disabled nor has it a package.json.
CheckMarker ==
    /\ pc = "marker"
    /\ IF disk[Head(names)].disabled
       THEN Take(Package(Head(names), "Disabled", NoId)) ELSE GoOn("manifest")

FindManifest ==
    /\ pc = "manifest"
    /\ IF disk[Head(names)].manifest.check = "missing"
       THEN Take(Package(Head(names), "Invalid", NoId)) ELSE GoOn("read")

\* A package.json that is gone by now is one that does not parse.
ReadManifest ==
    /\ pc = "read"
    /\ Take(Judged(Head(names), disk[Head(names)].manifest))

Demote ==
    /\ pc = "load" /\ names = <<>>
    /\ packages' = Demoted(packages)
    /\ pc' = "done"
    /\ UNCHANGED <<disk, changes, unseen, found, names, seen>>

\* The caller has the answer.
Return ==
    /\ pc \in {"done", "failed", "unreadable"}
    /\ pc' = "idle"
    /\ changes' = 0 /\ unseen' = {} /\ found' = {} /\ names' = <<>> /\ packages' = <<>>
    /\ seen' = [d \in Dirs |-> <<>>]
    /\ UNCHANGED disk

\* A package is put in place, edited, disabled or removed during the call.
Change(d) ==
    /\ pc \notin {"idle", "done", "failed", "unreadable"} /\ changes < MaxChanges
    /\ \E held \in Holdings \ {disk[d]} :
          /\ disk' = [disk EXCEPT ![d] = held]
          /\ seen' = [seen EXCEPT ![d] = Append(@, held)]
    /\ changes' = changes + 1
    /\ UNCHANGED <<pc, unseen, found, names, packages>>

Step ==
    \/ \E d \in Dirs : Visit(d)
    \/ EnumerationFails \/ Discovered
    \/ Enter \/ CheckMarker \/ FindManifest \/ ReadManifest \/ Demote

Next == List \/ Step \/ Return \/ (\E d \in Dirs : Change(d))

Spec == Init /\ [][Next]_vars

-----------------------------------------------------------------------------
(* What list_packages promises. *)

\* The list of a disk that stands still.
Listing ==
    LET held == {d \in Dirs : HoldsPackage(disk[d])}
        all == Sorted(held, Increasing(held))
    IN Demoted([i \in DOMAIN all |-> Loaded(all[i], disk[all[i]])])

-----------------------------------------------------------------------------
(* Properties. *)

\* In a list an id is loaded once, and by the first directory that could have: the ones
\* before it that name the id never held a package fit to be loaded all through the call.
FirstClaimWins ==
    pc = "done" => \A i, j \in DOMAIN packages :
        (i < j /\ packages[j].state = "Loaded" /\ packages[i].id = packages[j].id) =>
            /\ packages[i].state # "Loaded"
            /\ \E k \in DOMAIN seen[packages[i].name] :
                  seen[packages[i].name][k].manifest = [id |-> packages[i].id, check |-> "unfit"]

\* Of the holdings a directory had, one was not disabled and it or a later one had
\* manifest m.
EnabledThen(holdings, m) ==
    \E k \in DOMAIN holdings :
        holdings[k].manifest = m /\ \E j \in 1..k : ~holdings[j].disabled

\* Each entry tells what its directory held during the call: a package is loaded only
\* on a manifest that was there, fit, when or after it was not disabled; one that is
\* invalid had such a manifest only if its id was taken.  Nothing more can be promised:
\* the marker and the manifest are looked at one after the other.
EntriesWereTrue ==
    pc = "done" => \A i \in DOMAIN packages :
        LET p == packages[i]
            fit == [id |-> p.id, check |-> "fits"]
        IN  /\ p.state = "Loaded" => EnabledThen(seen[p.name], fit)
            /\ p.state = "Disabled" => \E k \in DOMAIN seen[p.name] : seen[p.name][k].disabled
            /\ p.state = "Invalid" =>
                  \/ \E m \in Manifests :
                        m.id = p.id /\ m.check # "fits" /\ EnabledThen(seen[p.name], m)
                  \/ /\ EnabledThen(seen[p.name], fit)
                     /\ \E j \in 1..(i - 1) : Claims(packages[j], p.id)

\* On a disk that stands still the passes amount to one look at it, and no directory
\* that was found is missed.
QuietListIsExact ==
    changes = 0 => pc # "failed" /\ (pc = "done" => packages = Listing)

\* The three together.
ListsAreRight == FirstClaimWins /\ EntriesWereTrue /\ QuietListIsExact
=============================================================================
