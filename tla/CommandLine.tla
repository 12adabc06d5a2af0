----------------------------- MODULE CommandLine -----------------------------
(***************************************************************************)
(* The oep command line (platform/cli): every command is a process of its  *)
(* own that opens the repository, works, shuts down and exits with a code. *)
(* The stores lock nothing, so several processes interleave between any    *)
(* two file operations, and a process may be killed between them.          *)
(*                                                                         *)
(* One directory is modelled, which `init` may still have to make.  Of a   *)
(* record only its presence and the end points of a relationship matter;   *)
(* the audit log, short writes and times are in the other modules.         *)
(***************************************************************************)
EXTENDS FiniteSets, Naturals

CONSTANTS
    Procs,          \* the commands of a behaviour, a process each
    ObjectIds, RelIds,
    Absent,         \* no such file
    Torn,           \* a file whose contents have not been written yet
    Given,          \* the identity of a repository that is there from the start
    Commands,       \* the commands that may be run
    Outcomes,       \* what a file operation may do: "ok", "failed"
    Serial,         \* do callers run one writing command at a time?
    Kills           \* may processes be killed?

ASSUME CommandLineAssumption ==
    /\ "ok" \in Outcomes /\ Outcomes \subseteq {"ok", "failed"}
    /\ Serial \in BOOLEAN /\ Kills \in BOOLEAN
    /\ ObjectIds \cap RelIds = {}
    /\ Absent \notin ObjectIds \cup RelIds \cup [src : ObjectIds, dst : ObjectIds]
    /\ Absent # Torn /\ Given \notin {Absent, Torn}
    /\ Procs \cap {Absent, Torn, Given} = {}
    /\ Commands \subseteq {"init", "open", "status", "validate", "create object",
                           "create relationship", "delete", "show",
                           "list objects", "list relationships"}

VARIABLES
    made,       \* is the destination directory there and not empty?
    file, tmp,  \* repository.json and repository.json.tmp
    objects,    \* the object files
    rels,       \* relationship -> its end points
    issued,     \* ids that are or were a record's
    journal,    \* process -> what the record of its transaction says
    proc,       \* the processes
    did,        \* history: did the process change the stores?
    since       \* history: what was stored while a reading command ran

vars == <<made, file, tmp, objects, rels, issued, journal, proc, did, since>>
storeVars == <<objects, rels, issued>>
initVars == <<made, file, tmp>>

Entities == ObjectIds \cup RelIds
Ends == [src : ObjectIds, dst : ObjectIds]
Writing == {"init", "create object", "create relationship", "delete"}
Reading == {"list objects", "list relationships", "validate"}

Stored == objects \cup {r \in RelIds : rels[r] # Absent}
Dangling == {r \in RelIds : rels[r] # Absent /\ ~({rels[r].src, rels[r].dst} \subseteq objects)}
MetadataLoads == file \notin {Absent, Torn}

Idle == [cmd |-> "none", id |-> Absent, ends |-> Absent, pc |-> "idle", todo |-> {},
         seen |-> {}, need |-> {}, bad |-> FALSE, out |-> "closed", code |-> 0]
Unwatched == [kept |-> {}, stored |-> {}, broken |-> {}, ever |-> {}, removed |-> FALSE]

Running(p) == proc[p].pc \notin {"idle", "exited", "killed"}
Exited(p, c) == proc[p].pc = "exited" /\ proc[p].cmd \in c
At(p, c, pc) == proc[p].cmd \in c /\ proc[p].pc = pc
Become(p, r) == proc' = [proc EXCEPT ![p] = r]
Goto(p, pc) == Become(p, [proc[p] EXCEPT !.pc = pc])
Exit(p, code) == Become(p, [proc[p] EXCEPT !.pc = "exited", !.code = code])

Init ==
    /\ \/ made = FALSE /\ file = Absent /\ objects = {}
       \/ made = TRUE /\ file = Given /\ objects \in SUBSET ObjectIds
    /\ tmp = Absent
    /\ rels \in [RelIds -> {Absent} \cup {e \in Ends : e.src # e.dst}]
    /\ Dangling = {}
    /\ issued = Stored
    /\ journal = [p \in Procs |-> "none"]
    /\ proc = [p \in Procs |-> Idle]
    /\ did = [p \in Procs |-> FALSE]
    /\ since = [p \in Procs |-> Unwatched]

-----------------------------------------------------------------------------
(* A process starts, and opens the repository. *)

FreeToWrite == \A q \in Procs : Running(q) => proc[q].cmd \notin Writing

Start(p) ==
    /\ proc[p].pc = "idle"
    /\ \E c \in Commands, id \in Entities \cup {Absent}, e \in Ends \cup {Absent} :
        /\ (id # Absent) <=> c \in {"delete", "show"}
        /\ (e # Absent) <=> c = "create relationship"
        /\ Serial /\ c \in Writing => FreeToWrite
        /\ Become(p, [Idle EXCEPT !.cmd = c, !.id = id, !.ends = e,
                                  !.pc = IF c = "init" THEN "check" ELSE "open"])
    /\ UNCHANGED <<initVars, storeVars, journal, did>>

\* Arguments that are missing or of no known type; these commands need none.
Misused(p) ==
    /\ proc[p].pc = "idle"
    /\ \E c \in Commands \ ({"status"} \cup Reading) :
        Become(p, [Idle EXCEPT !.cmd = c, !.pc = "exited", !.code = 1])
    /\ UNCHANGED <<initVars, storeVars, journal, did>>

\* `status` reports a repository it cannot open and succeeds.
OpenRepository(p) ==
    /\ proc[p].pc = "open"
    /\ IF MetadataLoads
       THEN IF proc[p].cmd \in {"open", "status"} THEN Exit(p, 0) ELSE Goto(p, "work")
       ELSE Exit(p, IF proc[p].cmd = "status" THEN 0 ELSE 1)
    /\ UNCHANGED <<initVars, storeVars, journal, did>>

-----------------------------------------------------------------------------
(* Mutations: each in an implicit transaction. *)

Refuse(p) == Goto(p, "rollback") /\ UNCHANGED <<initVars, storeVars, journal, did>>
Proceed(p, pc) == Goto(p, pc) /\ UNCHANGED <<initVars, storeVars, journal, did>>
Changed(p) == did' = [did EXCEPT ![p] = TRUE]

CreateObject(p) ==
    /\ At(p, {"create object"}, "work")
    /\ \/ "failed" \in Outcomes /\ Refuse(p)
       \/ /\ \E id \in ObjectIds \ issued : objects' = objects \cup {id} /\ issued' = issued \cup {id}
          /\ Goto(p, "commit") /\ Changed(p)
          /\ UNCHANGED <<initVars, rels, journal>>

\* Faulty variant: only the source has to exist.
SourceOnly(p) ==
    \/ /\ At(p, {"create relationship"}, "work")
       /\ IF proc[p].ends.src \in objects /\ proc[p].ends.src # proc[p].ends.dst
          THEN Proceed(p, "target") ELSE Refuse(p)
    \/ At(p, {"create relationship"}, "target") /\ Proceed(p, "write")

CheckEnds(p) ==
    \/ /\ At(p, {"create relationship"}, "work")
       /\ IF proc[p].ends.src \in objects /\ proc[p].ends.src # proc[p].ends.dst
          THEN Proceed(p, "target") ELSE Refuse(p)
    \/ /\ At(p, {"create relationship"}, "target")
       /\ IF proc[p].ends.dst \in objects THEN Proceed(p, "write") ELSE Refuse(p)

CreateRelationship(p) ==
    /\ At(p, {"create relationship"}, "write")
    /\ \/ "failed" \in Outcomes /\ Refuse(p)
       \/ /\ \E id \in RelIds \ issued :
                rels' = [rels EXCEPT ![id] = proc[p].ends] /\ issued' = issued \cup {id}
          /\ Goto(p, "commit") /\ Changed(p)
          /\ UNCHANGED <<initVars, objects, journal>>

\* load, then the exists() of remove.
FindDeleted(p) ==
    \E pc \in {"work", "exists"} :
        /\ At(p, {"delete"}, pc)
        /\ IF proc[p].id \in Stored
           THEN Proceed(p, IF pc = "work" THEN "exists" ELSE "unlink") ELSE Refuse(p)

\* Removing a file that has gone meanwhile is no error.
Unlink(p) ==
    /\ At(p, {"delete"}, "unlink")
    /\ \/ "failed" \in Outcomes /\ Refuse(p)
       \/ /\ objects' = objects \ {proc[p].id}
          /\ rels' = [r \in RelIds |-> IF r = proc[p].id THEN Absent ELSE rels[r]]
          /\ did' = [did EXCEPT ![p] = proc[p].id \in Stored]
          /\ Goto(p, "commit")
          /\ UNCHANGED <<initVars, issued, journal>>

JournalWrite(p, verdict) ==
    \E out \in Outcomes : journal' = [journal EXCEPT ![p] = IF out = "ok" THEN verdict ELSE "lost"]

\* What the journal's write reports is ignored: the mutation stands.
Commit(p) ==
    /\ proc[p].pc = "commit"
    /\ JournalWrite(p, "Committed")
    /\ Exit(p, 0)
    /\ UNCHANGED <<initVars, storeVars, did>>

\* Faulty variant: the error is printed and the command goes on to succeed.
RollbackQuietly(p) ==
    /\ proc[p].pc = "rollback"
    /\ JournalWrite(p, "RolledBack")
    /\ Exit(p, 0)
    /\ UNCHANGED <<initVars, storeVars, did>>

\* The undo log of a refused implicit transaction is empty.
Rollback(p) ==
    /\ proc[p].pc = "rollback"
    /\ JournalWrite(p, "RolledBack")
    /\ Exit(p, 1)
    /\ UNCHANGED <<initVars, storeVars, did>>

-----------------------------------------------------------------------------
(* Reading commands. *)

Show(p) ==
    /\ At(p, {"show"}, "work")
    /\ Exit(p, IF proc[p].id \in Stored THEN 0 ELSE 1)
    /\ UNCHANGED <<initVars, storeVars, journal, did>>

\* The names a directory iterator will return: those there when it is opened, and
\* any of those that appear later.
Names(kind) == {(Stored \cap kind) \cup more : more \in SUBSET (kind \ issued)}

Kind(c) == IF c = "list relationships" THEN RelIds ELSE ObjectIds

OpenDirectory(p) ==
    /\ At(p, Reading, "work")
    /\ \E names \in Names(Kind(proc[p].cmd)) :
        Become(p, [proc[p] EXCEPT !.pc = "scan", !.todo = names, !.bad = ~MetadataLoads])
    /\ UNCHANGED <<initVars, storeVars, journal, did>>

\* What reading one file adds: its record, or an invalid entry when it has gone.
Read(r, id) ==
    IF id \in Stored
    THEN [r EXCEPT !.todo = @ \ {id}, !.seen = @ \cup {id},
                   !.need = IF id \in RelIds THEN @ \cup {rels[id].src, rels[id].dst} ELSE @]
    ELSE [r EXCEPT !.todo = @ \ {id}, !.bad = @ \/ id \in issued]

\* Faulty variant: the enumeration stops at a file it cannot read.
ReadUntilBad(p) ==
    /\ proc[p].pc \in {"scan", "scan relationships"}
    /\ \E id \in proc[p].todo :
        Become(p, IF id \in Stored THEN Read(proc[p], id) ELSE [proc[p] EXCEPT !.todo = {}])
    /\ UNCHANGED <<initVars, storeVars, journal, did>>

\* A file that went away: the iterator may have kept its type or look again.
ReadEntry(p) ==
    /\ proc[p].pc \in {"scan", "scan relationships"}
    /\ \E id \in proc[p].todo :
        \/ Become(p, Read(proc[p], id))
        \/ id \notin Stored /\ Become(p, [proc[p] EXCEPT !.todo = @ \ {id}])
    /\ UNCHANGED <<initVars, storeVars, journal, did>>

ListDone(p) ==
    /\ At(p, {"list objects", "list relationships"}, "scan")
    /\ proc[p].todo = {}
    /\ Exit(p, 0)
    /\ UNCHANGED <<initVars, storeVars, journal, did>>

\* validate_objects, then list_all of the relationships, then a load of each end point.
Validate(p) ==
    \/ /\ At(p, {"validate"}, "scan") /\ proc[p].todo = {}
       /\ \E names \in Names(RelIds) :
            Become(p, [proc[p] EXCEPT !.pc = "scan relationships", !.todo = names])
       /\ UNCHANGED <<initVars, storeVars, journal, did>>
    \/ /\ At(p, {"validate"}, "scan relationships") /\ proc[p].todo = {}
       /\ Become(p, [proc[p] EXCEPT !.pc = "ends", !.todo = proc[p].need])
       /\ UNCHANGED <<initVars, storeVars, journal, did>>

\* Faulty variant: end points are looked up in the listing read last, which is of the
\* relationships.
LookUpListed(p) ==
    /\ proc[p].pc = "ends"
    /\ \E o \in proc[p].todo :
        Become(p, [proc[p] EXCEPT !.todo = @ \ {o}, !.bad = @ \/ o \notin proc[p].seen \cap RelIds])
    /\ UNCHANGED <<initVars, storeVars, journal, did>>

LoadEnd(p) ==
    /\ proc[p].pc = "ends"
    /\ \E o \in proc[p].todo :
        Become(p, [proc[p] EXCEPT !.todo = @ \ {o}, !.bad = @ \/ o \notin objects])
    /\ UNCHANGED <<initVars, storeVars, journal, did>>

ValidateDone(p) ==
    /\ proc[p].pc = "ends" /\ proc[p].todo = {}
    /\ Exit(p, IF proc[p].bad THEN 1 ELSE 0)
    /\ UNCHANGED <<initVars, storeVars, journal, did>>

-----------------------------------------------------------------------------
(* init. *)

\* Faulty variant: a destination that is there already is taken over.
TakeDestination(p) ==
    /\ At(p, {"init"}, "check")
    /\ Goto(p, "make")
    /\ UNCHANGED <<initVars, storeVars, journal, did>>

CheckDestination(p) ==
    /\ At(p, {"init"}, "check")
    /\ IF made THEN Exit(p, 1) ELSE Goto(p, "make")
    /\ UNCHANGED <<initVars, storeVars, journal, did>>

\* The subdirectories, README.md and .gitignore, whose writing is not checked.
MakeDirectories(p) ==
    /\ At(p, {"init"}, "make")
    /\ \/ "failed" \in Outcomes /\ Exit(p, 1) /\ made' \in {made, TRUE}
       \/ Goto(p, "open temporary") /\ made' = TRUE
    /\ UNCHANGED <<file, tmp, storeVars, journal, did>>

\* Faulty variant: the final file is written in place.
OpenInPlace(p) ==
    /\ At(p, {"init"}, "open temporary")
    /\ Become(p, [proc[p] EXCEPT !.pc = "flush", !.out = "file"])
    /\ file' = Torn
    /\ UNCHANGED <<made, tmp, storeVars, journal, did>>

\* Opening truncates: whoever else writes the file goes on writing it.
OpenTemporary(p) ==
    /\ At(p, {"init"}, "open temporary")
    /\ \/ "failed" \in Outcomes /\ Exit(p, 1) /\ UNCHANGED tmp
       \/ /\ Become(p, [proc[p] EXCEPT !.pc = "flush", !.out = "tmp"])
          /\ tmp' = Torn
    /\ UNCHANGED <<made, file, storeVars, journal, did>>

\* The stream is closed, and its file, wherever it is by now, has its contents.
Flush(p) ==
    /\ At(p, {"init"}, "flush")
    /\ tmp' = IF proc[p].out = "tmp" THEN p ELSE tmp
    /\ file' = IF proc[p].out = "file" THEN p ELSE file
    /\ Become(p, [proc[p] EXCEPT !.pc = "rename", !.out = "closed"])
    /\ UNCHANGED <<made, storeVars, journal, did>>

\* workspace.json follows; its writing is not checked.
Rename(p) ==
    /\ At(p, {"init"}, "rename")
    /\ \/ /\ tmp # Absent
          /\ file' = tmp
          /\ proc' = [q \in Procs |->
                        IF q = p THEN [proc[p] EXCEPT !.pc = "exited"]
                        ELSE IF proc[q].out = "tmp" THEN [proc[q] EXCEPT !.out = "file"]
                        ELSE proc[q]]
       \/ /\ tmp = Absent \/ "failed" \in Outcomes
          /\ Exit(p, 1)
          /\ UNCHANGED file
    /\ tmp' = Absent
    /\ UNCHANGED <<made, storeVars, journal, did>>

-----------------------------------------------------------------------------
Kill(p) ==
    /\ Kills /\ Running(p)
    /\ Goto(p, "killed")
    /\ UNCHANGED <<initVars, storeVars, journal, did>>

\* What was stored while a reading command runs, from its start on.
Watch ==
    since' = [p \in Procs |->
        LET starts == proc[p].pc = "idle" /\ proc'[p].pc # "idle"
            s == since[p]
        IN  IF proc'[p].cmd \notin Reading THEN Unwatched
            ELSE IF starts THEN [kept |-> Stored, stored |-> Stored, broken |-> Dangling,
                                 ever |-> Dangling, removed |-> FALSE]
            ELSE IF ~Running(p) THEN s
            ELSE [kept |-> s.kept \cap Stored', stored |-> s.stored \cup Stored',
                  broken |-> s.broken \cap Dangling', ever |-> s.ever \cup Dangling',
                  removed |-> s.removed \/ ~(Stored \subseteq Stored')]]

Work(p) ==
    \/ OpenRepository(p)
    \/ CreateObject(p) \/ CheckEnds(p) \/ CreateRelationship(p)
    \/ FindDeleted(p) \/ Unlink(p) \/ Commit(p) \/ Rollback(p)
    \/ Show(p) \/ OpenDirectory(p) \/ ReadEntry(p) \/ ListDone(p)
    \/ Validate(p) \/ LoadEnd(p) \/ ValidateDone(p)
    \/ CheckDestination(p) \/ MakeDirectories(p) \/ OpenTemporary(p) \/ Flush(p) \/ Rename(p)

Next ==
    /\ \E p \in Procs : Start(p) \/ Misused(p) \/ Work(p) \/ Kill(p)
    /\ Watch

Spec == Init /\ [][Next]_vars

-----------------------------------------------------------------------------
(* Properties. *)

\* Type invariant.
TypeOK ==
    /\ made \in BOOLEAN
    /\ {file, tmp} \subseteq {Absent, Torn, Given} \cup Procs
    /\ objects \subseteq ObjectIds
    /\ rels \in [RelIds -> Ends \cup {Absent}]
    /\ Stored \subseteq issued
    /\ journal \in [Procs -> {"none", "Committed", "RolledBack", "lost"}]
    /\ did \in [Procs -> BOOLEAN]
    /\ \A p \in Procs :
        /\ proc[p].pc \in {"idle", "open", "work", "target", "write", "exists", "unlink",
                           "commit", "rollback", "scan", "scan relationships", "ends", "check",
                           "make", "open temporary", "flush", "rename", "exited", "killed"}
        /\ proc[p].todo \cup proc[p].seen \subseteq Entities
        /\ proc[p].need \subseteq ObjectIds
        /\ journal[p] = "RolledBack" => ~did[p]

\* A mutating command that reports a failure has changed nothing, whatever else runs.
RefusedMeansUntouched ==
    \A p \in Procs : Exited(p, Writing \ {"init"}) /\ proc[p].code = 1 => ~did[p]

\* And while one command writes at a time, one that reports success has changed what
\* it was asked to, and one whose record is in the journal as committed did so too.
ExitTellsTruth ==
    \A p \in Procs :
        /\ Exited(p, Writing \ {"init"}) => (proc[p].code = 0 <=> did[p])
        /\ journal[p] = "Committed" => did[p]

\* However commands race, a relationship names only objects that were stored at some
\* time: a dangling one is there because an object was removed.
NeverToNowhere ==
    \A r \in RelIds : rels[r] # Absent => {rels[r].src, rels[r].dst} \subseteq issued

\* One writer at a time: a relationship appears only between objects that are stored.
BetweenStored ==
    [][\A r \in RelIds : rels[r] = Absent /\ rels'[r] # Absent =>
            {rels'[r].src, rels'[r].dst} \subseteq objects]_vars

\* A listing that is not killed has every record that was stored all the time it ran
\* and none that was never stored meanwhile, though files come and go under it.
ListsTellTruth ==
    \A p \in Procs : Exited(p, Reading \ {"validate"}) /\ proc[p].code = 0 =>
        /\ since[p].kept \cap Kind(proc[p].cmd) \subseteq proc[p].seen
        /\ proc[p].seen \subseteq since[p].stored

\* A validation that finds nothing missed no relationship that dangled all along, and
\* one that complains of a repository that was there from the start had a reason:
\* something dangled, or was removed, meanwhile.
ValidateTellsTruth ==
    \A p \in Procs : Exited(p, {"validate"}) =>
        /\ proc[p].code = 0 => since[p].broken = {}
        /\ proc[p].code = 1 /\ file = Given => since[p].ever # {} \/ since[p].removed

\* save_metadata: repository.json is never left partially written.
NeverPartial == file # Torn

\* A repository keeps the identity it was made with.
IdentityIsKept == [][MetadataLoads => file' = file]_vars

=============================================================================
