--------------------------- MODULE CommandLineProofs ---------------------------
(***************************************************************************)
(* Proofs about CommandLine, for any number of processes and entities.     *)
(***************************************************************************)
EXTENDS CommandLine, TLAPS

Mutating == {"create object", "create relationship", "delete"}
Pcs == {"idle", "open", "work", "target", "write", "exists", "unlink", "commit", "rollback",
        "scan", "scan relationships", "ends", "check", "make", "open temporary", "flush",
        "rename", "exited", "killed"}
Processes ==
    [cmd : Commands \cup {"none"}, id : Entities \cup {Absent}, ends : Ends \cup {Absent},
     pc : Pcs, todo : SUBSET Entities, seen : SUBSET Entities, need : SUBSET ObjectIds,
     bad : BOOLEAN, out : {"closed", "tmp", "file"}, code : {0, 1}]

Quiet == UNCHANGED <<initVars, storeVars, journal, did>>

-----------------------------------------------------------------------------
(* What a step may be: it moves one process, and most steps do nothing     *)
(* else.  StepEffect sums up the cases the invariants distinguish.         *)

\* The steps that leave files, journal and history alone.
QuietStep(p) ==
    \/ Start(p) \/ Misused(p) \/ OpenRepository(p) \/ CheckEnds(p) \/ FindDeleted(p)
    \/ Show(p) \/ OpenDirectory(p) \/ ReadEntry(p) \/ ListDone(p) \/ Validate(p)
    \/ LoadEnd(p) \/ ValidateDone(p) \/ CheckDestination(p) \/ Kill(p)

LoudStep(p) ==
    \/ CreateObject(p) \/ CreateRelationship(p) \/ Unlink(p) \/ Commit(p) \/ Rollback(p)
    \/ MakeDirectories(p) \/ OpenTemporary(p) \/ Flush(p) \/ Rename(p)

LEMMA StepCases ==
    ASSUME Next
    PROVE  Watch /\ \E p \in Procs : QuietStep(p) \/ LoudStep(p)
BY DEF Next, Work, QuietStep, LoudStep

-----------------------------------------------------------------------------
(* Types. *)

ProcsType == proc \in [Procs -> Processes]
EndsOf(r) == {rels[r].src, rels[r].dst}

LEMMA ReadFields ==
    ASSUME NEW r \in Processes, NEW todo \in SUBSET Entities, NEW seen \in SUBSET Entities,
           NEW need \in SUBSET ObjectIds, NEW bad \in BOOLEAN
    PROVE  /\ [r EXCEPT !.todo = todo, !.seen = seen, !.need = need] \in Processes
           /\ [r EXCEPT !.todo = todo, !.bad = bad] \in Processes
BY DEF Processes

\* What reading an entry keeps and adds.
LEMMA ReadType ==
    ASSUME TypeOK, NEW r \in Processes, NEW id \in Entities
    PROVE  /\ Read(r, id) \in Processes
           /\ Read(r, id).pc = r.pc /\ Read(r, id).cmd = r.cmd
           /\ Read(r, id).ends = r.ends /\ Read(r, id).out = r.out /\ Read(r, id).code = r.code
           /\ Read(r, id).todo = r.todo \ {id}
           /\ Read(r, id).seen = IF id \in Stored THEN r.seen \cup {id} ELSE r.seen
           /\ Read(r, id).need = IF id \in Stored /\ id \in RelIds THEN r.need \cup EndsOf(id)
                                                                 ELSE r.need
           /\ Read(r, id).bad => r.bad \/ (id \notin Stored /\ id \in issued)
<1>1. r.todo \ {id} \in SUBSET Entities /\ r.seen \cup {id} \in SUBSET Entities
    BY DEF Processes
<1>2. CASE id \in Stored
  <2>1. PICK need : need = IF id \in RelIds THEN r.need \cup {rels[id].src, rels[id].dst} ELSE r.need
      OBVIOUS
  <2>2. id \in RelIds => rels[id] \in Ends
      BY <1>2, CommandLineAssumption DEF Stored, TypeOK
  <2>3. need \in SUBSET ObjectIds
    <3>1. r.need \in SUBSET ObjectIds
        BY DEF Processes
    <3>2. id \in RelIds => {rels[id].src, rels[id].dst} \in SUBSET ObjectIds
        BY <2>2 DEF Ends
    <3> QED BY <2>1, <3>1, <3>2
  <2>4. Read(r, id) = [r EXCEPT !.todo = r.todo \ {id}, !.seen = r.seen \cup {id}, !.need = need]
      BY <1>2, <2>1 DEF Read
  <2>5. Read(r, id) \in Processes
    <3>1. [r EXCEPT !.todo = r.todo \ {id}, !.seen = r.seen \cup {id}, !.need = need] \in Processes
        BY <1>1, <2>3, ReadFields, Zenon
    <3> QED BY <2>4, <3>1
  <2> QED BY <1>2, <2>1, <2>4, <2>5 DEF Processes, EndsOf
<1>3. CASE id \notin Stored
  <2>1. Read(r, id) = [r EXCEPT !.todo = r.todo \ {id}, !.bad = r.bad \/ id \in issued]
      BY <1>3 DEF Read
  <2>2. (r.bad \/ id \in issued) \in BOOLEAN
      OBVIOUS
  <2>3. Read(r, id) \in Processes
      BY <1>1, <2>1, <2>2, ReadFields
  <2>4. /\ Read(r, id).todo = r.todo \ {id} /\ Read(r, id).seen = r.seen
        /\ Read(r, id).pc = r.pc /\ Read(r, id).cmd = r.cmd /\ Read(r, id).ends = r.ends
        /\ Read(r, id).out = r.out /\ Read(r, id).code = r.code
        /\ Read(r, id).need = r.need
      BY <2>1 DEF Processes
  <2>5. PICK bad \in BOOLEAN : bad = (r.bad \/ id \in issued)
      BY <2>2, Zenon
  <2>6. Read(r, id).bad = bad
    <3>1. Read(r, id) = [r EXCEPT !.todo = r.todo \ {id}, !.bad = bad]
        BY <2>1, <2>5, Zenon
    <3> QED BY <3>1 DEF Processes
  <2>7. Read(r, id).bad => r.bad \/ id \in issued
      BY <2>5, <2>6, Zenon
  <2> QED BY <1>3, <2>3, <2>4, <2>7
<1> QED BY <1>2, <1>3

(* How a process moves on. *)

OthersStay(p) == \A q \in Procs \ {p} : proc'[q] = proc[q]
Keeps(p) ==
    /\ proc'[p].cmd = proc[p].cmd /\ proc'[p].id = proc[p].id /\ proc'[p].ends = proc[p].ends
    /\ proc'[p].out = proc[p].out /\ proc'[p].seen = proc[p].seen
    /\ proc'[p].todo = proc[p].todo /\ proc'[p].need = proc[p].need
Moves(p, pc) ==
    /\ ProcsType' /\ OthersStay(p) /\ Keeps(p)
    /\ proc'[p].pc = pc /\ proc'[p].code = proc[p].code
Exits(p, code) ==
    /\ ProcsType' /\ OthersStay(p) /\ Keeps(p)
    /\ proc'[p].pc = "exited" /\ proc'[p].code = code

LEMMA BecomeType ==
    ASSUME ProcsType, NEW p \in Procs, NEW r \in Processes, Become(p, r)
    PROVE  ProcsType' /\ OthersStay(p) /\ proc'[p] = r
BY DEF ProcsType, Become, OthersStay

LEMMA MovedType ==
    ASSUME NEW r \in Processes, NEW pc \in Pcs, NEW code \in {0, 1}
    PROVE  /\ [r EXCEPT !.pc = pc] \in Processes
           /\ [r EXCEPT !.pc = pc, !.code = code] \in Processes
BY DEF Processes

LEMMA GotoMoves ==
    ASSUME ProcsType, NEW p \in Procs, NEW pc \in Pcs, Goto(p, pc)
    PROVE  Moves(p, pc)
<1>1. proc[p] \in Processes
    BY DEF ProcsType
<1>2. ProcsType' /\ OthersStay(p) /\ proc'[p] = [proc[p] EXCEPT !.pc = pc]
    BY <1>1, MovedType, BecomeType DEF Goto
<1> QED BY <1>1, <1>2 DEF Moves, Keeps, Processes

LEMMA ExitExits ==
    ASSUME ProcsType, NEW p \in Procs, NEW code \in {0, 1}, Exit(p, code)
    PROVE  Exits(p, code)
<1>1. "exited" \in Pcs /\ proc[p] \in Processes
    BY DEF Pcs, ProcsType
<1>2. ProcsType' /\ OthersStay(p) /\ proc'[p] = [proc[p] EXCEPT !.pc = "exited", !.code = code]
    BY <1>1, MovedType, BecomeType DEF Exit
<1> QED BY <1>1, <1>2 DEF Exits, Keeps, Processes

LEMMA IdleType == Idle \in Processes
BY DEF Idle, Processes, Pcs, Entities

-----------------------------------------------------------------------------
(* What the quiet steps do. *)

Lists == {"list objects", "list relationships"}
ScanPcs == {"scan", "scan relationships", "ends"}

Starts(p) ==
    /\ ProcsType' /\ OthersStay(p) /\ proc[p].pc = "idle"
    /\ proc'[p].cmd \in Commands /\ proc'[p].seen = {} /\ proc'[p].need = {}
    /\ proc'[p].pc = IF proc'[p].cmd = "init" THEN "check" ELSE "open"
    /\ proc'[p].cmd = "create relationship" => proc'[p].ends \in Ends
    /\ Serial /\ proc'[p].cmd \in Writing => FreeToWrite

StartsMisused(p) ==
    /\ ProcsType' /\ OthersStay(p) /\ proc[p].pc = "idle"
    /\ proc'[p].cmd \in Commands \ Reading
    /\ proc'[p].pc = "exited" /\ proc'[p].code = 1

\* The step of a scan, as far as a validation goes.
Scanned(p) ==
    \/ /\ proc[p].pc = "work" /\ proc'[p].pc = "scan" /\ proc'[p].need = proc[p].need
       /\ \A id \in proc'[p].todo : id \in Stored \/ id \notin issued
       /\ proc'[p].bad => ~MetadataLoads
    \/ /\ proc[p].pc \in {"scan", "scan relationships"} /\ proc'[p].pc = proc[p].pc
       /\ \E id \in proc[p].todo :
            /\ proc'[p].todo = proc[p].todo \ {id}
            /\ proc'[p].need = IF id \in Stored /\ id \in RelIds THEN proc[p].need \cup EndsOf(id)
                                                                ELSE proc[p].need
            /\ proc'[p].bad => proc[p].bad \/ (id \notin Stored /\ id \in issued)
    \/ /\ proc[p].pc = "scan" /\ proc'[p].pc = "scan relationships"
       /\ proc'[p].need = proc[p].need /\ proc'[p].bad = proc[p].bad
       /\ \A id \in proc'[p].todo : id \in Stored \/ id \notin issued
       /\ Stored \cap RelIds \subseteq proc'[p].todo
    \/ /\ proc[p].pc = "scan relationships" /\ proc'[p].pc = "ends" /\ proc[p].todo = {}
       /\ proc'[p].todo = proc[p].need
       /\ proc'[p].need = proc[p].need /\ proc'[p].bad = proc[p].bad
    \/ /\ proc[p].pc = "ends" /\ proc'[p].pc = "ends" /\ proc'[p].need = proc[p].need
       /\ \E o \in proc[p].todo :
            /\ proc'[p].todo = proc[p].todo \ {o}
            /\ proc'[p].bad => proc[p].bad \/ o \notin objects
            /\ proc[p].bad \/ o \notin objects => proc'[p].bad

Scans(p) ==
    /\ ProcsType' /\ OthersStay(p)
    /\ proc[p].pc \in {"work"} \cup ScanPcs
    /\ proc[p].pc = "work" => proc[p].cmd \in Reading
    /\ proc'[p].cmd = proc[p].cmd /\ proc'[p].ends = proc[p].ends
    /\ proc'[p].pc \in ScanPcs
    /\ Scanned(p)
    /\ proc[p].cmd \in Lists /\ proc[p].pc = "work" =>
          /\ proc'[p].pc = "scan" /\ proc'[p].seen = proc[p].seen
          /\ Stored \cap Kind(proc[p].cmd) \subseteq proc'[p].todo
    /\ proc[p].cmd \in Lists /\ proc[p].pc = "scan" =>
          /\ proc'[p].pc = "scan"
          /\ \E id \in Entities :
                /\ proc'[p].todo = proc[p].todo \ {id}
                /\ IF id \in Stored THEN proc'[p].seen = proc[p].seen \cup {id}
                                    ELSE proc'[p].seen = proc[p].seen

Advances(p) ==
    \/ proc[p].pc = "open" /\ Moves(p, "work")
    \/ /\ proc[p].pc = "open"
       /\ \E code \in {0, 1} :
            /\ Exits(p, code)
            /\ code = 0 => proc[p].cmd \in {"open", "status"}
            /\ code = 1 => ~MetadataLoads
    \/ At(p, {"create relationship"}, "work") /\ Moves(p, "target") /\ proc[p].ends.src \in objects
    \/ At(p, {"create relationship"}, "target") /\ Moves(p, "write") /\ proc[p].ends.dst \in objects
    \/ At(p, {"delete"}, "work") /\ Moves(p, "exists") /\ proc[p].id \in Stored
    \/ At(p, {"delete"}, "exists") /\ Moves(p, "unlink") /\ proc[p].id \in Stored
    \/ /\ proc[p].cmd \in Mutating /\ proc[p].pc \in {"work", "target", "write", "exists", "unlink"}
       /\ Moves(p, "rollback")
    \/ At(p, {"show"}, "work") /\ \E code \in {0, 1} : Exits(p, code)
    \/ At(p, Lists, "scan") /\ proc[p].todo = {} /\ Exits(p, 0)
    \/ /\ proc[p].pc = "ends" /\ proc[p].todo = {}
       /\ \E code \in {0, 1} : Exits(p, code) /\ (code = 1 <=> proc[p].bad)
    \/ At(p, {"init"}, "check") /\ made /\ Exits(p, 1)
    \/ At(p, {"init"}, "check") /\ ~made /\ Moves(p, "make")
    \/ Running(p) /\ Moves(p, "killed")

LEMMA StartEffect ==
    ASSUME ProcsType, NEW p \in Procs, Start(p)
    PROVE  Starts(p) /\ Quiet
<1>1. PICK c \in Commands, id \in Entities \cup {Absent}, e \in Ends \cup {Absent} :
        /\ (e # Absent) <=> c = "create relationship"
        /\ Serial /\ c \in Writing => FreeToWrite
        /\ Become(p, [Idle EXCEPT !.cmd = c, !.id = id, !.ends = e,
                                  !.pc = IF c = "init" THEN "check" ELSE "open"])
    BY DEF Start
<1>2. PICK pc \in Pcs : pc = IF c = "init" THEN "check" ELSE "open"
    BY DEF Pcs
<1>3. PICK r : r = [Idle EXCEPT !.cmd = c, !.id = id, !.ends = e, !.pc = pc]
    OBVIOUS
<1>4. r \in Processes /\ r.cmd = c /\ r.ends = e /\ r.pc = pc /\ r.seen = {} /\ r.need = {}
    BY <1>3, IdleType DEF Processes, Idle
<1>5. ProcsType' /\ OthersStay(p) /\ proc'[p] = r
  <2>1. Become(p, r)
      BY <1>1, <1>2, <1>3, Zenon
  <2> QED BY <1>4, <2>1, BecomeType
<1>6. c = "create relationship" => e \in Ends
    BY <1>1
<1> QED BY <1>1, <1>2, <1>4, <1>5, <1>6 DEF Start, Starts, Quiet

LEMMA MisusedEffect ==
    ASSUME ProcsType, NEW p \in Procs, Misused(p)
    PROVE  StartsMisused(p) /\ Quiet
<1>1. PICK c \in Commands \ ({"status"} \cup Reading) :
        Become(p, [Idle EXCEPT !.cmd = c, !.pc = "exited", !.code = 1])
    BY DEF Misused
<1>2. PICK r : r = [Idle EXCEPT !.cmd = c, !.pc = "exited", !.code = 1]
    OBVIOUS
<1>3. r \in Processes /\ r.cmd = c /\ r.pc = "exited" /\ r.code = 1
    BY <1>2, IdleType DEF Processes, Pcs
<1>4. ProcsType' /\ OthersStay(p) /\ proc'[p] = r
    BY <1>1, <1>2, <1>3, BecomeType
<1> QED BY <1>1, <1>3, <1>4 DEF Misused, StartsMisused, Quiet

LEMMA AdvanceEffect ==
    ASSUME ProcsType, NEW p \in Procs,
           \/ OpenRepository(p) \/ CheckEnds(p) \/ FindDeleted(p) \/ Show(p)
           \/ ListDone(p) \/ ValidateDone(p) \/ CheckDestination(p) \/ Kill(p)
    PROVE  Advances(p) /\ Quiet
<1> USE DEF Quiet, At
<1>0. {"work", "target", "write", "exists", "unlink", "rollback", "make", "killed"} \subseteq Pcs
    BY DEF Pcs
<1>1. CASE OpenRepository(p)
  <2>1. CASE Goto(p, "work")
      BY <1>0, <1>1, <2>1, GotoMoves DEF OpenRepository, Advances
  <2>2. ASSUME NEW code \in {0, 1}, Exit(p, code), code = 0 => proc[p].cmd \in {"open", "status"},
               code = 1 => ~MetadataLoads
        PROVE  Advances(p)
      BY <1>1, <2>2, ExitExits DEF OpenRepository, Advances
  <2> QED BY <1>1, <2>1, <2>2 DEF OpenRepository
<1>2. CASE CheckEnds(p)
    BY <1>0, <1>2, GotoMoves DEF CheckEnds, Proceed, Refuse, Advances, Mutating
<1>3. CASE FindDeleted(p)
    BY <1>0, <1>3, GotoMoves DEF FindDeleted, Proceed, Refuse, Advances, Mutating
<1>4. CASE Show(p)
    BY <1>4, ExitExits DEF Show, Advances
<1>5. CASE ListDone(p)
    BY <1>5, ExitExits DEF ListDone, Advances, Lists
<1>6. CASE ValidateDone(p)
  <2>1. PICK code : code = IF proc[p].bad THEN 1 ELSE 0
      OBVIOUS
  <2>2. code \in {0, 1} /\ (code = 1 <=> proc[p].bad)
      BY <2>1
  <2>3. Exit(p, code)
      BY <1>6, <2>1 DEF ValidateDone
  <2> QED BY <1>6, <2>2, <2>3, ExitExits DEF ValidateDone, Advances
<1>7. CASE CheckDestination(p)
    BY <1>0, <1>7, GotoMoves, ExitExits DEF CheckDestination, Advances
<1>8. CASE Kill(p)
    BY <1>0, <1>8, GotoMoves DEF Kill, Advances
<1> QED BY <1>1, <1>2, <1>3, <1>4, <1>5, <1>6, <1>7, <1>8

LEMMA ScanFields ==
    ASSUME NEW r \in Processes, NEW pc \in Pcs, NEW todo \in SUBSET Entities, NEW bad \in BOOLEAN
    PROVE  /\ [r EXCEPT !.pc = pc, !.todo = todo, !.bad = bad] \in Processes
           /\ [r EXCEPT !.pc = pc, !.todo = todo] \in Processes
           /\ [r EXCEPT !.todo = todo] \in Processes
           /\ [r EXCEPT !.todo = todo, !.bad = bad] \in Processes
BY DEF Processes

LEMMA NamesType ==
    ASSUME NEW kind \in SUBSET Entities, NEW names \in Names(kind)
    PROVE  /\ names \in SUBSET Entities /\ Stored \cap kind \subseteq names
           /\ \A id \in names : id \in Stored \/ id \notin issued
BY DEF Names

LEMMA ScanEffect ==
    ASSUME TypeOK, ProcsType, NEW p \in Procs,
           OpenDirectory(p) \/ ReadEntry(p) \/ Validate(p) \/ LoadEnd(p)
    PROVE  Scans(p) /\ Quiet
<1> USE DEF Quiet, At
<1>0. ScanPcs \subseteq Pcs /\ proc[p] \in Processes
    BY DEF ScanPcs, Pcs, ProcsType
<1>1. CASE OpenDirectory(p)
  <2>1. PICK names \in Names(Kind(proc[p].cmd)) :
            Become(p, [proc[p] EXCEPT !.pc = "scan", !.todo = names, !.bad = ~MetadataLoads])
      BY <1>1 DEF OpenDirectory
  <2>2. Kind(proc[p].cmd) \in SUBSET Entities
      BY DEF Kind, Entities
  <2>3. /\ names \in SUBSET Entities /\ Stored \cap Kind(proc[p].cmd) \subseteq names
        /\ \A id \in names : id \in Stored \/ id \notin issued
      BY <2>2, NamesType
  <2>4. PICK r : r = [proc[p] EXCEPT !.pc = "scan", !.todo = names, !.bad = ~MetadataLoads]
      OBVIOUS
  <2>5. r \in Processes
    <3>1. "scan" \in Pcs /\ (~MetadataLoads) \in BOOLEAN
        BY DEF Pcs
    <3> QED BY <1>0, <2>3, <2>4, <3>1, ScanFields, Zenon
  <2>6. /\ r.cmd = proc[p].cmd /\ r.ends = proc[p].ends /\ r.seen = proc[p].seen
        /\ r.pc = "scan" /\ r.todo = names /\ r.need = proc[p].need
      BY <1>0, <2>4 DEF Processes
  <2>8. r.bad => ~MetadataLoads
    <3>1. PICK bad \in BOOLEAN : bad = ~MetadataLoads
        OBVIOUS
    <3>2. r = [proc[p] EXCEPT !.pc = "scan", !.todo = names, !.bad = bad]
        BY <2>4, <3>1, Zenon
    <3>3. r.bad = bad
        BY <1>0, <3>2 DEF Processes
    <3> QED BY <3>1, <3>3, Zenon
  <2>7. ProcsType' /\ OthersStay(p) /\ proc'[p] = r
    <3>1. Become(p, r)
        BY <2>1, <2>4, Zenon
    <3> QED BY <2>5, <3>1, BecomeType
  <2>9. Scanned(p)
      BY <1>1, <2>3, <2>6, <2>7, <2>8 DEF OpenDirectory, Scanned
  <2> QED BY <1>1, <2>3, <2>6, <2>7, <2>9 DEF OpenDirectory, Scans, ScanPcs, Lists
<1>2. CASE ReadEntry(p)
  <2>1. PICK id \in proc[p].todo :
            \/ Become(p, Read(proc[p], id))
            \/ id \notin Stored /\ Become(p, [proc[p] EXCEPT !.todo = proc[p].todo \ {id}])
      BY <1>2 DEF ReadEntry
  <2>2. id \in Entities
      BY <1>0, <2>1 DEF Processes
  <2>3. PICK r \in {Read(proc[p], id), [proc[p] EXCEPT !.todo = proc[p].todo \ {id}]} :
            Become(p, r) /\ (r = Read(proc[p], id) \/ id \notin Stored)
      BY <2>1
  <2>4. /\ r \in Processes
        /\ r.pc = proc[p].pc /\ r.cmd = proc[p].cmd /\ r.ends = proc[p].ends
        /\ r.todo = proc[p].todo \ {id}
        /\ IF id \in Stored THEN r.seen = proc[p].seen \cup {id} ELSE r.seen = proc[p].seen
        /\ r.need = IF id \in Stored /\ id \in RelIds THEN proc[p].need \cup EndsOf(id)
                                                   ELSE proc[p].need
        /\ r.bad => proc[p].bad \/ (id \notin Stored /\ id \in issued)
    <3>1. CASE r = Read(proc[p], id)
        BY <1>0, <2>2, <3>1, ReadType
    <3>2. CASE id \notin Stored /\ r = [proc[p] EXCEPT !.todo = proc[p].todo \ {id}]
      <4>1. PICK todo \in SUBSET Entities : todo = proc[p].todo \ {id}
          BY <1>0 DEF Processes
      <4>2. r = [proc[p] EXCEPT !.todo = todo]
          BY <3>2, <4>1
      <4>3. r \in Processes
          BY <1>0, <4>2 DEF Processes
      <4> QED BY <1>0, <3>2, <4>1, <4>2, <4>3 DEF Processes
    <3> QED BY <2>3, <3>1, <3>2
  <2>5. ProcsType' /\ OthersStay(p) /\ proc'[p] = r
      BY <2>3, <2>4, BecomeType
  <2>6. Scanned(p)
      BY <1>2, <2>1, <2>4, <2>5 DEF ReadEntry, Scanned
  <2> QED BY <1>2, <2>2, <2>4, <2>5, <2>6 DEF ReadEntry, Scans, ScanPcs
<1>3. CASE Validate(p)
  <2>1. PICK pc \in {"scan relationships", "ends"}, todo \in SUBSET Entities :
        /\ Become(p, [proc[p] EXCEPT !.pc = pc, !.todo = todo])
        /\ proc[p].todo = {}
        /\ \/ /\ proc[p].pc = "scan" /\ pc = "scan relationships"
              /\ Stored \cap RelIds \subseteq todo
              /\ \A id \in todo : id \in Stored \/ id \notin issued
           \/ proc[p].pc = "scan relationships" /\ pc = "ends" /\ todo = proc[p].need
    <3>1. \A names \in Names(RelIds) :
            /\ names \in SUBSET Entities /\ Stored \cap RelIds \subseteq names
            /\ \A id \in names : id \in Stored \/ id \notin issued
        BY NamesType DEF Entities
    <3>2. proc[p].need \in SUBSET Entities
        BY <1>0 DEF Processes, Entities
    <3> QED BY <1>3, <3>1, <3>2 DEF Validate
  <2>2. PICK r : r = [proc[p] EXCEPT !.pc = pc, !.todo = todo]
      OBVIOUS
  <2>3. r \in Processes
      BY <1>0, <2>2, ScanFields DEF ScanPcs
  <2>4. /\ r.cmd = proc[p].cmd /\ r.ends = proc[p].ends /\ r.pc = pc /\ r.todo = todo
        /\ r.need = proc[p].need /\ r.bad = proc[p].bad
      BY <1>0, <2>2 DEF Processes
  <2>5. ProcsType' /\ OthersStay(p) /\ proc'[p] = r
      BY <2>1, <2>2, <2>3, BecomeType
  <2>6. Scanned(p)
      BY <2>1, <2>4, <2>5 DEF Scanned
  <2> QED BY <1>3, <2>4, <2>5, <2>6 DEF Validate, Scans, ScanPcs, Lists
<1>4. CASE LoadEnd(p)
  <2>1. PICK o \in proc[p].todo :
            Become(p, [proc[p] EXCEPT !.todo = proc[p].todo \ {o},
                                      !.bad = proc[p].bad \/ o \notin objects])
      BY <1>4 DEF LoadEnd
  <2>2. PICK r : r = [proc[p] EXCEPT !.todo = proc[p].todo \ {o},
                                     !.bad = proc[p].bad \/ o \notin objects]
      OBVIOUS
  <2>3. r \in Processes
    <3>1. PICK todo \in SUBSET Entities : todo = proc[p].todo \ {o}
        BY <1>0 DEF Processes
    <3>2. \A bad \in BOOLEAN : [proc[p] EXCEPT !.todo = todo, !.bad = bad] \in Processes
        BY <1>0 DEF Processes
    <3>3. (proc[p].bad \/ o \notin objects) \in BOOLEAN
        OBVIOUS
    <3> QED BY <2>2, <3>1, <3>2, <3>3, Zenon
  <2>4. /\ r.cmd = proc[p].cmd /\ r.ends = proc[p].ends /\ r.pc = proc[p].pc
        /\ r.need = proc[p].need /\ r.todo = proc[p].todo \ {o}
      BY <1>0, <2>2 DEF Processes
  <2>6. r.bad <=> proc[p].bad \/ o \notin objects
    <3>1. PICK bad \in BOOLEAN : bad = (proc[p].bad \/ o \notin objects)
        OBVIOUS
    <3>2. r = [proc[p] EXCEPT !.todo = proc[p].todo \ {o}, !.bad = bad]
        BY <2>2, <3>1, Zenon
    <3>3. r.bad = bad
        BY <1>0, <3>2 DEF Processes
    <3> QED BY <3>1, <3>3, Zenon
  <2>5. ProcsType' /\ OthersStay(p) /\ proc'[p] = r
    <3>1. Become(p, r)
        BY <2>1, <2>2, Zenon
    <3> QED BY <2>3, <3>1, BecomeType
  <2>7. Scanned(p)
      BY <1>4, <2>1, <2>4, <2>5, <2>6 DEF LoadEnd, Scanned
  <2> QED BY <1>4, <2>4, <2>5, <2>7 DEF LoadEnd, Scans, ScanPcs
<1> QED BY <1>1, <1>2, <1>3, <1>4

LEMMA QuietEffect ==
    ASSUME TypeOK, ProcsType, NEW p \in Procs, QuietStep(p)
    PROVE  /\ Quiet /\ ProcsType' /\ OthersStay(p)
           /\ Starts(p) \/ StartsMisused(p) \/ Advances(p) \/ Scans(p)
<1>1. Quiet /\ (Starts(p) \/ StartsMisused(p) \/ Advances(p) \/ Scans(p))
    BY StartEffect, MisusedEffect, AdvanceEffect, ScanEffect DEF QuietStep
<1> QED BY <1>1 DEF Starts, StartsMisused, Advances, Scans, Moves, Exits

-----------------------------------------------------------------------------
(* What the steps do that write.  All they do to another process is that a *)
(* rename turns the temporary file it writes into repository.json.         *)

OthersStayButOut(p) ==
    \A q \in Procs \ {p} :
        /\ proc'[q].cmd = proc[q].cmd /\ proc'[q].pc = proc[q].pc /\ proc'[q].id = proc[q].id
        /\ proc'[q].ends = proc[q].ends /\ proc'[q].code = proc[q].code
        /\ proc'[q].seen = proc[q].seen /\ proc'[q].todo = proc[q].todo
        /\ proc'[q].need = proc[q].need /\ proc'[q].bad = proc[q].bad

Refuses(p) ==
    /\ proc[p].cmd \in Mutating /\ proc[p].pc \in {"work", "write", "unlink"}
    /\ Moves(p, "rollback") /\ Quiet

Mutates(p) ==
    /\ Moves(p, "commit") /\ UNCHANGED <<initVars, journal>>
    /\ did' \in [Procs -> BOOLEAN] /\ \A q \in Procs \ {p} : did'[q] = did[q]
    /\ \/ /\ At(p, {"create object"}, "work") /\ did'[p] = TRUE /\ rels' = rels
          /\ \E id \in ObjectIds \ issued : objects' = objects \cup {id} /\ issued' = issued \cup {id}
       \/ /\ At(p, {"create relationship"}, "write") /\ did'[p] = TRUE /\ objects' = objects
          /\ \E id \in RelIds \ issued : rels' = [rels EXCEPT ![id] = proc[p].ends]
                                /\ issued' = issued \cup {id}
       \/ /\ At(p, {"delete"}, "unlink") /\ did'[p] = (proc[p].id \in Stored) /\ issued' = issued
          /\ objects' = objects \ {proc[p].id}
          /\ rels' = [r \in RelIds |-> IF r = proc[p].id THEN Absent ELSE rels[r]]

Journals(p, from, verdict, code) ==
    /\ proc[p].pc = from /\ Exits(p, code) /\ UNCHANGED <<initVars, storeVars, did>>
    /\ journal' \in [Procs -> {"none", "Committed", "RolledBack", "lost"}]
    /\ journal'[p] \in {verdict, "lost"} /\ \A q \in Procs \ {p} : journal'[q] = journal[q]

Makes(p) ==
    /\ proc[p].cmd = "init" /\ UNCHANGED <<storeVars, journal, did>>
    /\ ProcsType' /\ OthersStayButOut(p) /\ proc'[p].cmd = proc[p].cmd
    /\ made => made'
    /\ \/ /\ proc[p].pc = "make" /\ UNCHANGED <<file, tmp>> /\ made' \in BOOLEAN
          /\ proc'[p].pc \in {"exited", "open temporary"}
          /\ proc'[p].pc = "open temporary" => made'
       \/ /\ proc[p].pc = "open temporary" /\ UNCHANGED <<made, file>> /\ tmp' \in {tmp, Torn}
          /\ proc'[p].pc = "exited" \/ (proc'[p].pc = "flush" /\ proc'[p].out = "tmp")
       \/ /\ proc[p].pc = "flush" /\ proc'[p].pc = "rename" /\ UNCHANGED made
          /\ tmp' = IF proc[p].out = "tmp" THEN p ELSE tmp
          /\ file' = IF proc[p].out = "file" THEN p ELSE file
       \/ /\ proc[p].pc = "rename" /\ proc'[p].pc = "exited" /\ UNCHANGED made
          /\ tmp' = Absent /\ file' \in {file, tmp}

LEMMA MutateEffect ==
    ASSUME TypeOK, ProcsType, NEW p \in Procs,
           CreateObject(p) \/ CreateRelationship(p) \/ Unlink(p)
    PROVE  Refuses(p) \/ Mutates(p)
<1>0. {"commit", "rollback"} \subseteq Pcs
    BY DEF Pcs
<1>1. did \in [Procs -> BOOLEAN]
    BY DEF TypeOK
<1>2. CASE CreateObject(p)
  <2>1. CASE Refuse(p)
      BY <1>0, <1>2, <2>1, GotoMoves DEF CreateObject, At, Refuse, Refuses, Quiet, Mutating
  <2>2. CASE ~Refuse(p)
      BY <1>0, <1>1, <1>2, <2>2, GotoMoves DEF CreateObject, At, Changed, Mutates
  <2> QED BY <2>1, <2>2
<1>3. CASE CreateRelationship(p)
  <2>1. CASE Refuse(p)
      BY <1>0, <1>3, <2>1, GotoMoves DEF CreateRelationship, At, Refuse, Refuses, Quiet, Mutating
  <2>2. CASE ~Refuse(p)
      BY <1>0, <1>1, <1>3, <2>2, GotoMoves DEF CreateRelationship, At, Changed, Mutates
  <2> QED BY <2>1, <2>2
<1>4. CASE Unlink(p)
  <2>1. CASE Refuse(p)
      BY <1>0, <1>4, <2>1, GotoMoves DEF Unlink, At, Refuse, Refuses, Quiet, Mutating
  <2>2. CASE ~Refuse(p)
    <3>0. (proc[p].id \in Stored) \in BOOLEAN
        OBVIOUS
    <3>1. PICK found \in BOOLEAN : found = (proc[p].id \in Stored)
        BY <3>0, Zenon
    <3>2. did' = [did EXCEPT ![p] = found]
        BY <1>4, <2>2, <3>1, Zenon DEF Unlink
    <3>3. /\ did' \in [Procs -> BOOLEAN] /\ did'[p] = found
          /\ \A q \in Procs \ {p} : did'[q] = did[q]
        BY <1>1, <3>2
    <3>4. did'[p] = (proc[p].id \in Stored)
        BY <3>1, <3>3, Zenon
    <3>5. Moves(p, "commit")
        BY <1>0, <1>4, <2>2, GotoMoves DEF Unlink
    <3> QED BY <1>4, <2>2, <3>3, <3>4, <3>5 DEF Unlink, Mutates
  <2> QED BY <2>1, <2>2
<1> QED BY <1>2, <1>3, <1>4

LEMMA JournalEffect ==
    ASSUME TypeOK, ProcsType, NEW p \in Procs
    PROVE  /\ Commit(p) => Journals(p, "commit", "Committed", 0)
           /\ Rollback(p) => Journals(p, "rollback", "RolledBack", 1)
<1>1. ASSUME NEW verdict \in {"Committed", "RolledBack"}, JournalWrite(p, verdict)
      PROVE  /\ journal' \in [Procs -> {"none", "Committed", "RolledBack", "lost"}]
             /\ journal'[p] \in {verdict, "lost"}
             /\ \A q \in Procs \ {p} : journal'[q] = journal[q]
    BY <1>1 DEF JournalWrite, TypeOK
<1>2. ASSUME Commit(p) PROVE Journals(p, "commit", "Committed", 0)
    BY <1>1, <1>2, ExitExits DEF Commit, Journals
<1>3. ASSUME Rollback(p) PROVE Journals(p, "rollback", "RolledBack", 1)
    BY <1>1, <1>3, ExitExits DEF Rollback, Journals
<1> QED BY <1>2, <1>3

LEMMA MakeEffect ==
    ASSUME TypeOK, ProcsType, NEW p \in Procs,
           MakeDirectories(p) \/ OpenTemporary(p) \/ Flush(p) \/ Rename(p)
    PROVE  Makes(p)
<1>0. proc[p] \in Processes /\ {"open temporary", "flush", "rename", "exited"} \subseteq Pcs
    BY DEF Pcs, ProcsType
<1>1. OthersStay(p) => OthersStayButOut(p)
    BY DEF OthersStay, OthersStayButOut
<1>2. CASE MakeDirectories(p)
  <2>1. made' \in BOOLEAN /\ (made => made')
    <3>1. made' \in {made, TRUE}
        BY <1>2, Zenon DEF MakeDirectories
    <3>2. made \in {TRUE, FALSE}
        BY DEF TypeOK
    <3>3. CASE made = TRUE
        BY <3>1, <3>3
    <3>4. CASE made = FALSE
        BY <3>1, <3>4
    <3> QED BY <3>2, <3>3, <3>4
  <2>2. CASE Exit(p, 1)
    <3>1. Exits(p, 1)
        BY <2>2, ExitExits
    <3> QED BY <1>1, <1>2, <2>1, <3>1 DEF MakeDirectories, Makes, Exits, Keeps, At
  <2>3. CASE Goto(p, "open temporary") /\ made' = TRUE
    <3>1. Moves(p, "open temporary")
        BY <1>0, <2>3, GotoMoves
    <3> QED BY <1>1, <1>2, <2>3, <3>1 DEF MakeDirectories, Makes, Moves, Keeps, At
  <2> QED BY <1>2, <2>2, <2>3 DEF MakeDirectories
<1>3. CASE OpenTemporary(p)
  <2>1. CASE Exit(p, 1)
    <3>1. Exits(p, 1)
        BY <2>1, ExitExits
    <3> QED BY <1>1, <1>3, <3>1 DEF OpenTemporary, Makes, Exits, Keeps, At
  <2>2. CASE Become(p, [proc[p] EXCEPT !.pc = "flush", !.out = "tmp"])
    <3>1. [proc[p] EXCEPT !.pc = "flush", !.out = "tmp"] \in Processes
        BY <1>0 DEF Processes
    <3>2. /\ ProcsType' /\ OthersStay(p)
          /\ proc'[p] = [proc[p] EXCEPT !.pc = "flush", !.out = "tmp"]
        BY <2>2, <3>1, BecomeType
    <3>3. proc'[p].cmd = proc[p].cmd /\ proc'[p].pc = "flush" /\ proc'[p].out = "tmp"
        BY <1>0, <3>2 DEF Processes
    <3> QED BY <1>1, <1>3, <3>2, <3>3 DEF OpenTemporary, Makes, At
  <2> QED BY <1>3, <2>1, <2>2 DEF OpenTemporary
<1>4. CASE Flush(p)
  <2>1. [proc[p] EXCEPT !.pc = "rename", !.out = "closed"] \in Processes
      BY <1>0 DEF Processes
  <2>2. /\ ProcsType' /\ OthersStay(p)
        /\ proc'[p] = [proc[p] EXCEPT !.pc = "rename", !.out = "closed"]
      BY <1>4, <2>1, BecomeType DEF Flush
  <2>3. proc'[p].cmd = proc[p].cmd /\ proc'[p].pc = "rename"
      BY <1>0, <2>2 DEF Processes
  <2> QED BY <1>1, <1>4, <2>2, <2>3 DEF Flush, Makes, At
<1>5. CASE Rename(p)
  <2>1. CASE Exit(p, 1)
    <3>1. Exits(p, 1)
        BY <2>1, ExitExits
    <3> QED BY <1>1, <1>5, <3>1 DEF Rename, Makes, Exits, Keeps, At
  <2>2. CASE ~Exit(p, 1)
    <3> DEFINE new(q) == IF q = p THEN [proc[p] EXCEPT !.pc = "exited"]
                         ELSE IF proc[q].out = "tmp" THEN [proc[q] EXCEPT !.out = "file"]
                         ELSE proc[q]
    <3>1. proc' = [q \in Procs |-> new(q)] /\ file' = tmp
        BY <1>5, <2>2 DEF Rename
    <3>2. ASSUME NEW q \in Procs
          PROVE  /\ new(q) \in Processes /\ new(q).cmd = proc[q].cmd
                 /\ q = p => new(q).pc = "exited"
                 /\ q # p => /\ new(q).pc = proc[q].pc /\ new(q).id = proc[q].id
                             /\ new(q).ends = proc[q].ends /\ new(q).code = proc[q].code
                             /\ new(q).seen = proc[q].seen /\ new(q).todo = proc[q].todo
                             /\ new(q).need = proc[q].need /\ new(q).bad = proc[q].bad
      <4>1. proc[q] \in Processes
          BY DEF ProcsType
      <4> QED BY <1>0, <4>1 DEF Processes
    <3> HIDE DEF new
    <3>3. \A q \in Procs : proc'[q] = new(q)
        BY <3>1
    <3>4. ProcsType' /\ OthersStayButOut(p) /\ proc'[p].cmd = proc[p].cmd /\ proc'[p].pc = "exited"
        BY <3>1, <3>2, <3>3 DEF ProcsType, OthersStayButOut
    <3> QED BY <1>5, <3>1, <3>4 DEF Rename, Makes, At
  <2> QED BY <2>1, <2>2
<1> QED BY <1>2, <1>3, <1>4, <1>5

\* Everything a step may do.
LEMMA StepEffect ==
    ASSUME TypeOK, ProcsType, Next
    PROVE  /\ Watch /\ ProcsType'
           /\ \E p \in Procs :
                /\ OthersStayButOut(p)
                /\ \/ Quiet /\ (Starts(p) \/ StartsMisused(p) \/ Advances(p) \/ Scans(p))
                   \/ Refuses(p) \/ Mutates(p) \/ Makes(p)
                   \/ Journals(p, "commit", "Committed", 0)
                   \/ Journals(p, "rollback", "RolledBack", 1)
<1>1. PICK p \in Procs : QuietStep(p) \/ LoudStep(p)
    BY StepCases
<1>2. OthersStay(p) => OthersStayButOut(p)
    BY DEF OthersStay, OthersStayButOut
<1>3. CASE QuietStep(p)
    BY <1>2, <1>3, StepCases, QuietEffect
<1>4. CASE LoudStep(p)
  <2>1. Refuses(p) \/ Mutates(p) \/ Makes(p) \/ Journals(p, "commit", "Committed", 0)
            \/ Journals(p, "rollback", "RolledBack", 1)
      BY <1>4, MutateEffect, JournalEffect, MakeEffect DEF LoudStep
  <2> QED BY <1>2, <2>1, StepCases DEF Refuses, Mutates, Makes, Journals, Moves, Exits
<1> QED BY <1>1, <1>3, <1>4

-----------------------------------------------------------------------------
(* Whatever races: a process that has not written has changed nothing, and *)
(* the end points a process has looked up were stored.                     *)

HonestProc(p) ==
    /\ proc[p].pc \notin {"commit", "exited", "killed"} => ~did[p]
    /\ proc[p].pc = "exited" /\ proc[p].code = 1 => ~did[p]
    /\ journal[p] # "none" => proc[p].pc = "exited"
    /\ journal[p] = "RolledBack" => ~did[p]
    /\ proc[p].cmd = "create relationship" /\ proc[p].pc \in {"open", "work", "target", "write"}
          => proc[p].ends \in Ends
    /\ proc[p].pc \in {"target", "write"} =>
          proc[p].cmd = "create relationship" /\ proc[p].ends.src \in issued
    /\ proc[p].pc = "write" => proc[p].ends.dst \in issued

HonestInv ==
    /\ TypeOK /\ ProcsType
    /\ \A p \in Procs : HonestProc(p)
    /\ NeverToNowhere

LEMMA HonestKept ==
    ASSUME NEW p \in Procs, HonestProc(p),
           proc'[p].cmd = proc[p].cmd, proc'[p].pc = proc[p].pc, proc'[p].ends = proc[p].ends,
           proc'[p].code = proc[p].code, did'[p] = did[p], journal'[p] = journal[p],
           issued \subseteq issued'
    PROVE  HonestProc(p)'
BY DEF HonestProc

FilesType ==
    /\ made \in BOOLEAN
    /\ {file, tmp} \subseteq {Absent, Torn, Given} \cup Procs
    /\ objects \subseteq ObjectIds
    /\ rels \in [RelIds -> Ends \cup {Absent}]
    /\ Stored \subseteq issued
    /\ journal \in [Procs -> {"none", "Committed", "RolledBack", "lost"}]
    /\ did \in [Procs -> BOOLEAN]

LEMMA TypeFromParts ==
    /\ TypeOK => FilesType
    /\ FilesType /\ ProcsType /\ (\A p \in Procs : HonestProc(p)) => TypeOK
    /\ FilesType' /\ ProcsType' /\ (\A p \in Procs : HonestProc(p)') => TypeOK'
BY DEF FilesType, TypeOK, ProcsType, Processes, Pcs, HonestProc

\* No step takes an id back.
LEMMA IssuedGrows ==
    ASSUME NEW p \in Procs,
           Quiet \/ Refuses(p) \/ Mutates(p) \/ Makes(p)
           \/ Journals(p, "commit", "Committed", 0) \/ Journals(p, "rollback", "RolledBack", 1)
    PROVE  issued \subseteq issued'
BY DEF Quiet, Refuses, Mutates, Makes, Journals, storeVars

LEMMA HonestStep ==
    ASSUME HonestInv, Next
    PROVE  HonestInv'
<1> USE DEF HonestInv
<1>1. PICK p \in Procs :
        /\ OthersStayButOut(p)
        /\ \/ Quiet /\ (Starts(p) \/ StartsMisused(p) \/ Advances(p) \/ Scans(p))
           \/ Refuses(p) \/ Mutates(p) \/ Makes(p)
           \/ Journals(p, "commit", "Committed", 0)
           \/ Journals(p, "rollback", "RolledBack", 1)
    BY StepEffect
<1>2. ProcsType' /\ issued \subseteq issued'
    BY <1>1, StepEffect, IssuedGrows
<1>3. /\ FilesType /\ objects \subseteq issued
      /\ did \in [Procs -> BOOLEAN] /\ journal \in [Procs -> {"none", "Committed", "RolledBack", "lost"}]
    BY TypeFromParts DEF FilesType, Stored
<1>4. \A q \in Procs \ {p} : did'[q] = did[q] /\ journal'[q] = journal[q]
    BY <1>1 DEF Quiet, Refuses, Mutates, Makes, Journals
<1>5. ASSUME NEW q \in Procs \ {p} PROVE HonestProc(q)'
    BY <1>1, <1>2, <1>4, HonestKept DEF OthersStayButOut
<1>6. HonestProc(p)
    OBVIOUS
<1>7. CASE Quiet /\ (Starts(p) \/ StartsMisused(p) \/ Advances(p) \/ Scans(p))
  <2>1. did' = did /\ journal' = journal /\ issued' = issued
      BY <1>7 DEF Quiet, storeVars
  <2>2. ASSUME Starts(p) \/ StartsMisused(p) PROVE HonestProc(p)'
      BY <1>6, <2>1, <2>2 DEF HonestProc, Starts, StartsMisused
  <2>3. ASSUME Scans(p) PROVE HonestProc(p)'
      BY <1>6, <2>1, <2>3 DEF HonestProc, Scans, ScanPcs
  <2>4. ASSUME Advances(p) PROVE HonestProc(p)'
    <3>1. CASE \/ proc[p].pc = "open" /\ Moves(p, "work")
               \/ /\ proc[p].pc = "open"
                  /\ \E code \in {0, 1} : Exits(p, code) /\ (code = 0 => proc[p].cmd \in {"open", "status"})
        BY <1>6, <2>1, <3>1 DEF HonestProc, Moves, Exits, Keeps
    <3>2. CASE \/ At(p, {"create relationship"}, "work") /\ Moves(p, "target") /\ proc[p].ends.src \in objects
               \/ At(p, {"create relationship"}, "target") /\ Moves(p, "write") /\ proc[p].ends.dst \in objects
        BY <1>3, <1>6, <2>1, <3>2 DEF HonestProc, Moves, Keeps, At
    <3>3. CASE \/ At(p, {"delete"}, "work") /\ Moves(p, "exists")
               \/ At(p, {"delete"}, "exists") /\ Moves(p, "unlink")
               \/ At(p, {"init"}, "check") /\ Moves(p, "make")
        BY <1>6, <2>1, <3>3 DEF HonestProc, Moves, Keeps, At
    <3>4. CASE \/ /\ proc[p].pc \in {"work", "target", "write", "exists", "unlink"}
                  /\ Moves(p, "rollback")
               \/ Running(p) /\ Moves(p, "killed")
        BY <1>6, <2>1, <3>4 DEF HonestProc, Moves, Keeps, Running
    <3>5. CASE \/ At(p, {"show"}, "work") /\ \E code \in {0, 1} : Exits(p, code)
               \/ At(p, Lists, "scan") /\ Exits(p, 0)
               \/ proc[p].pc = "ends" /\ \E code \in {0, 1} : Exits(p, code)
               \/ At(p, {"init"}, "check") /\ Exits(p, 1)
        BY <1>6, <2>1, <3>5 DEF HonestProc, Exits, Keeps, At
    <3> QED BY <2>4, <3>1, <3>2, <3>3, <3>4, <3>5 DEF Advances
  <2>5. HonestProc(p)'
      BY <1>7, <2>2, <2>3, <2>4
  <2>6. FilesType' /\ NeverToNowhere'
      BY <1>3, <1>7 DEF Quiet, initVars, storeVars, FilesType, Stored, NeverToNowhere
  <2> QED BY <1>2, <1>5, <2>5, <2>6, TypeFromParts
<1>8. CASE Refuses(p)
  <2>1. HonestProc(p)'
      BY <1>6, <1>8 DEF Refuses, Quiet, HonestProc, Moves, Keeps
  <2>2. FilesType' /\ NeverToNowhere'
      BY <1>3, <1>8 DEF Refuses, Quiet, initVars, storeVars, FilesType, Stored, NeverToNowhere
  <2> QED BY <1>2, <1>5, <2>1, <2>2, TypeFromParts
<1>9. CASE Mutates(p)
  <2>1. HonestProc(p)'
      BY <1>6, <1>9 DEF Mutates, HonestProc, Moves, Keeps, At
  <2>2. /\ objects' \subseteq ObjectIds /\ rels' \in [RelIds -> Ends \cup {Absent}]
        /\ Stored' \subseteq issued' /\ NeverToNowhere'
    <3>1. CASE /\ rels' = rels
               /\ \E id \in ObjectIds : objects' = objects \cup {id} /\ issued' = issued \cup {id}
        BY <1>3, <3>1 DEF FilesType, Stored, NeverToNowhere
    <3>2. CASE /\ At(p, {"create relationship"}, "write") /\ objects' = objects
               /\ \E id \in RelIds : rels' = [rels EXCEPT ![id] = proc[p].ends]
                                     /\ issued' = issued \cup {id}
      <4>1. PICK id \in RelIds : rels' = [rels EXCEPT ![id] = proc[p].ends]
                                 /\ issued' = issued \cup {id}
          BY <3>2
      <4>2. /\ proc[p].ends \in Ends
            /\ proc[p].ends.src \in issued /\ proc[p].ends.dst \in issued
          BY <1>6, <3>2 DEF HonestProc, At
      <4>3. \A r \in RelIds : rels'[r] = rels[r] \/ (r = id /\ rels'[r] = proc[p].ends)
          BY <1>3, <4>1 DEF FilesType
      <4>4. objects' \subseteq ObjectIds /\ rels' \in [RelIds -> Ends \cup {Absent}]
          BY <1>3, <3>2, <4>1, <4>2 DEF FilesType
      <4>5. Stored' \subseteq issued'
          BY <1>3, <3>2, <4>1, <4>3 DEF FilesType, Stored
      <4>6. NeverToNowhere'
        <5>1. ASSUME NEW r \in RelIds, rels'[r] # Absent
              PROVE  rels'[r].src \in issued' /\ rels'[r].dst \in issued'
            BY <1>2, <4>2, <4>3, <5>1 DEF NeverToNowhere
        <5> QED BY <5>1 DEF NeverToNowhere
      <4> QED BY <4>4, <4>5, <4>6
    <3>3. CASE /\ issued' = issued /\ objects' = objects \ {proc[p].id}
               /\ rels' = [r \in RelIds |-> IF r = proc[p].id THEN Absent ELSE rels[r]]
        BY <1>3, <3>3 DEF FilesType, Stored, NeverToNowhere
    <3> QED BY <1>9, <3>1, <3>2, <3>3 DEF Mutates
  <2>3. FilesType'
      BY <1>3, <1>9, <2>2 DEF Mutates, FilesType, initVars
  <2> QED BY <1>2, <1>5, <2>1, <2>2, <2>3, TypeFromParts
<1>10. CASE Journals(p, "commit", "Committed", 0) \/ Journals(p, "rollback", "RolledBack", 1)
  <2>1. HonestProc(p)'
    <3>1. /\ proc'[p].pc = "exited" /\ did'[p] = did[p]
          /\ proc'[p].code = 1 \/ journal'[p] = "RolledBack" => proc[p].pc = "rollback"
        BY <1>10 DEF Journals, Exits
    <3>2. proc[p].pc = "rollback" => ~did[p]
        BY <1>6 DEF HonestProc
    <3> QED BY <3>1, <3>2 DEF HonestProc
  <2>2. FilesType' /\ NeverToNowhere'
      BY <1>3, <1>10 DEF Journals, initVars, storeVars, FilesType, Stored, NeverToNowhere
  <2> QED BY <1>2, <1>5, <2>1, <2>2, TypeFromParts
<1>11. CASE Makes(p)
  <2>1. HonestProc(p)'
      BY <1>6, <1>11 DEF Makes, HonestProc
  <2>2. FilesType' /\ NeverToNowhere'
    <3>1. made' \in BOOLEAN /\ {file', tmp'} \subseteq {Absent, Torn, Given} \cup Procs
        BY <1>3, <1>11 DEF Makes, FilesType
    <3> QED BY <1>3, <1>11, <3>1 DEF Makes, storeVars, FilesType, Stored, NeverToNowhere
  <2> QED BY <1>2, <1>5, <2>1, <2>2, TypeFromParts
<1> QED BY <1>1, <1>7, <1>8, <1>9, <1>10, <1>11

LEMMA HonestInit ==
    ASSUME Init
    PROVE  HonestInv
<1>1. ProcsType /\ \A p \in Procs : proc[p] = Idle
    BY IdleType DEF Init, ProcsType
<1>2. rels \in [RelIds -> {Absent} \cup {e \in Ends : e.src # e.dst}]
    BY DEF Init
<1>3. FilesType
    BY <1>2, CommandLineAssumption DEF Init, FilesType, Stored
<1>4. \A p \in Procs : HonestProc(p)
    BY <1>1 DEF Init, HonestProc, Idle
<1>5. NeverToNowhere
    BY <1>2, <1>3 DEF Init, NeverToNowhere, Dangling, Stored
<1> QED BY <1>1, <1>3, <1>4, <1>5, TypeFromParts DEF HonestInv

LEMMA HonestStutters ==
    ASSUME HonestInv, UNCHANGED vars
    PROVE  HonestInv'
BY DEF HonestInv, vars, TypeOK, ProcsType, HonestProc, NeverToNowhere, Stored

LEMMA HonestAlways == Spec => []HonestInv
<1>1. HonestInv /\ [Next]_vars => HonestInv'
    BY HonestStep, HonestStutters
<1> QED BY HonestInit, <1>1, PTL DEF Spec

\* The state is well typed, whatever processes do and wherever they are killed.
THEOREM CommandsTypeOK == Spec => []TypeOK
BY HonestAlways, PTL DEF HonestInv

\* A mutating command that reports a failure has changed nothing: the paths of
\* create_command.cpp and delete_command.cpp to exit code 1 all come before the write.
THEOREM RefusedLeavesNothing == Spec => []RefusedMeansUntouched
<1>1. HonestInv => RefusedMeansUntouched
    BY DEF HonestInv, HonestProc, RefusedMeansUntouched, Exited
<1> QED BY <1>1, HonestAlways, PTL

\* No interleaving of commands makes a relationship to an object that never was.
THEOREM NoRaceMakesNowhere == Spec => []NeverToNowhere
BY HonestAlways, PTL DEF HonestInv

-----------------------------------------------------------------------------
(* One writer at a time: nobody takes away what the writer has looked up.  *)

OneWriter ==
    \A p, q \in Procs :
        Running(p) /\ proc[p].cmd \in Writing /\ Running(q) /\ proc[q].cmd \in Writing => p = q

WriterProc(p) ==
    /\ proc[p].pc \in {"target", "write"} => proc[p].ends.src \in objects
    /\ proc[p].pc = "write" => proc[p].ends.dst \in objects
    /\ proc[p].pc = "unlink" => proc[p].cmd = "delete" /\ proc[p].id \in Stored
    /\ proc[p].pc \in ScanPcs => proc[p].cmd \in Reading
    /\ proc[p].pc = "commit" => did[p]
    /\ proc[p].pc = "exited" /\ proc[p].cmd \in Mutating /\ proc[p].code = 0 => did[p]
    /\ journal[p] = "Committed" => did[p]

WriterInv ==
    /\ HonestInv /\ OneWriter
    /\ \A p \in Procs : WriterProc(p)

\* A step by one process, as seen by the others.
Stepped(p) ==
    /\ OthersStayButOut(p)
    /\ \/ Quiet /\ (Starts(p) \/ StartsMisused(p) \/ Advances(p) \/ Scans(p))
       \/ Refuses(p) \/ Mutates(p) \/ Makes(p)
       \/ Journals(p, "commit", "Committed", 0) \/ Journals(p, "rollback", "RolledBack", 1)

LEMMA StepsOne ==
    ASSUME HonestInv, Next
    PROVE  Watch /\ HonestInv' /\ \E p \in Procs : Stepped(p)
BY StepEffect, HonestStep DEF HonestInv, Stepped

\* A process that runs after its step ran before it, or has just started.
LEMMA StaysRunning ==
    ASSUME NEW p \in Procs, Stepped(p), Running(p)'
    PROVE  \/ Starts(p)
           \/ Running(p) /\ proc'[p].cmd = proc[p].cmd
<1>1. CASE Starts(p) \/ StartsMisused(p)
    BY <1>1 DEF StartsMisused, Running
<1>2. CASE Scans(p)
    BY <1>2 DEF Scans, ScanPcs, Running
<1>3. CASE Refuses(p) \/ Mutates(p)
    BY <1>3 DEF Refuses, Mutates, Moves, Keeps, At, Running
<1>4. CASE Makes(p)
    BY <1>4 DEF Makes, Running
<1>5. CASE Journals(p, "commit", "Committed", 0) \/ Journals(p, "rollback", "RolledBack", 1)
    BY <1>5 DEF Journals, Exits, Running
<1>6. CASE Advances(p)
    BY <1>6 DEF Advances, Moves, Exits, Keeps, At, Running
<1> QED BY <1>1, <1>2, <1>3, <1>4, <1>5, <1>6 DEF Stepped

LEMMA OneWriterStep ==
    ASSUME Serial, OneWriter, NEW p \in Procs, Stepped(p)
    PROVE  OneWriter'
<1>1. \A q \in Procs \ {p} : proc'[q].cmd = proc[q].cmd /\ (Running(q)' <=> Running(q))
    BY DEF Stepped, OthersStayButOut, Running
<1>2. ASSUME Running(p)', proc'[p].cmd \in Writing, NEW q \in Procs \ {p}, Running(q)',
             proc'[q].cmd \in Writing
      PROVE  FALSE
  <2>1. CASE Starts(p)
      BY <1>1, <1>2, <2>1 DEF Starts, FreeToWrite
  <2>2. CASE Running(p) /\ proc'[p].cmd = proc[p].cmd
      BY <1>1, <1>2, <2>2 DEF OneWriter
  <2> QED BY <1>2, <2>1, <2>2, StaysRunning
<1>3. ASSUME NEW q \in Procs, NEW r \in Procs, Running(q)', proc'[q].cmd \in Writing,
             Running(r)', proc'[r].cmd \in Writing
      PROVE  q = r
    BY <1>1, <1>2, <1>3 DEF OneWriter
<1> QED BY <1>3 DEF OneWriter

\* Only a running writer changes what is stored.
LEMMA WhoWrites ==
    ASSUME NEW p \in Procs, Stepped(p)
    PROVE  \/ objects' = objects /\ rels' = rels
           \/ /\ Mutates(p) /\ Running(p) /\ proc[p].cmd \in Writing
<1>1. Mutates(p) => Running(p) /\ proc[p].cmd \in Writing
    BY DEF Mutates, At, Running, Writing
<1> QED BY <1>1 DEF Stepped, Quiet, storeVars, Refuses, Makes, Journals

\* What a process relies on stays true when another one steps.
LEMMA WriterOther ==
    ASSUME HonestInv, OneWriter, NEW p \in Procs, Stepped(p), NEW q \in Procs \ {p}, WriterProc(q)
    PROVE  WriterProc(q)'
<1>1. /\ proc'[q].cmd = proc[q].cmd /\ proc'[q].pc = proc[q].pc /\ proc'[q].id = proc[q].id
      /\ proc'[q].ends = proc[q].ends /\ proc'[q].code = proc[q].code
    BY DEF Stepped, OthersStayButOut
<1>2. did'[q] = did[q] /\ journal'[q] = journal[q]
    BY DEF Stepped, Quiet, Refuses, Mutates, Makes, Journals
<1>3. CASE objects' = objects /\ rels' = rels
    BY <1>1, <1>2, <1>3 DEF WriterProc, Stored
<1>4. CASE Mutates(p) /\ Running(p) /\ proc[p].cmd \in Writing
  <2>1. proc[q].pc \in {"target", "write"} => proc[q].cmd = "create relationship"
      BY DEF HonestInv, HonestProc
  <2>2. proc[q].pc \notin {"target", "write", "unlink"}
      BY <1>4, <2>1 DEF WriterProc, OneWriter, Running, Writing
  <2> QED BY <1>1, <1>2, <2>2 DEF WriterProc
<1> QED BY <1>3, <1>4, WhoWrites

LEMMA Codes == \A code : code = 1 => code # 0
<1>1. 1 # 0
    OBVIOUS
<1> QED BY <1>1, Zenon

\* What it looks up itself it has.
LEMMA WriterOwn ==
    ASSUME HonestInv, NEW p \in Procs, Stepped(p), WriterProc(p)
    PROVE  WriterProc(p)'
<1>0. HonestProc(p) /\ did \in [Procs -> BOOLEAN]
    BY DEF HonestInv, TypeOK
<1>1. ASSUME Quiet PROVE objects' = objects /\ Stored' = Stored /\ did' = did /\ journal' = journal
    BY <1>1 DEF Quiet, storeVars, Stored
<1>2. CASE Quiet /\ (Starts(p) \/ StartsMisused(p))
  <2>1. /\ proc'[p].pc \in {"open", "check", "exited"}
        /\ proc'[p].pc = "exited" => proc'[p].code # 0
      BY <1>2, Codes DEF Starts, StartsMisused
  <2>2. journal'[p] # "Committed"
      BY <1>0, <1>1, <1>2 DEF HonestProc, Starts, StartsMisused
  <2> QED BY <2>1, <2>2 DEF WriterProc, ScanPcs
<1>3. CASE Quiet /\ Scans(p)
    BY <1>0, <1>1, <1>3 DEF Scans, HonestProc, WriterProc, ScanPcs
<1>4. CASE Quiet /\ Advances(p)
  <2>1. \/ proc'[p].pc \in {"work", "exists", "rollback", "make", "killed"}
        \/ proc'[p].pc = "target" /\ proc'[p].ends.src \in objects
        \/ /\ proc'[p].pc = "write" /\ proc[p].pc = "target"
           /\ proc'[p].ends = proc[p].ends /\ proc'[p].ends.dst \in objects
        \/ /\ proc'[p].pc = "unlink" /\ proc'[p].cmd = "delete"
           /\ proc'[p].id = proc[p].id /\ proc[p].id \in Stored
        \/ /\ proc'[p].pc = "exited"
           /\ proc'[p].code # 0 \/ proc'[p].cmd \in {"open", "status", "show"} \cup Lists \cup Reading
      BY <1>4, Codes DEF Advances, Moves, Exits, Keeps, At, WriterProc, ScanPcs
  <2>2. journal[p] # "Committed"
      BY <1>0, <1>4 DEF Advances, Running, At, HonestProc, Lists
  <2>3. /\ proc'[p].pc \notin ScanPcs \cup {"commit"} /\ journal'[p] # "Committed"
        /\ ~(proc'[p].pc = "exited" /\ proc'[p].cmd \in Mutating /\ proc'[p].code = 0)
      BY <1>1, <1>4, <2>1, <2>2 DEF ScanPcs, Mutating, Lists, Reading
  <2>4. /\ proc'[p].pc \in {"target", "write"} => proc'[p].ends.src \in objects'
        /\ proc'[p].pc = "write" => proc'[p].ends.dst \in objects'
        /\ proc'[p].pc = "unlink" => proc'[p].cmd = "delete" /\ proc'[p].id \in Stored'
      BY <1>1, <1>4, <2>1 DEF WriterProc
  <2> QED BY <2>3, <2>4 DEF WriterProc
<1>5. CASE Refuses(p)
    BY <1>0, <1>1, <1>5 DEF Refuses, Moves, HonestProc, WriterProc, ScanPcs
<1>6. CASE Mutates(p)
  <2>1. proc'[p].pc = "commit" /\ did'[p] /\ journal' = journal /\ proc[p].pc # "exited"
      BY <1>6 DEF Mutates, Moves, At, WriterProc
  <2> QED BY <1>0, <2>1 DEF WriterProc, HonestProc, ScanPcs
<1>7. CASE Makes(p)
  <2>1. /\ proc[p].cmd = "init" /\ proc'[p].cmd = "init"
        /\ journal' = journal /\ proc[p].pc # "exited"
        /\ proc'[p].pc \in {"exited", "open temporary", "flush", "rename"}
      BY <1>7 DEF Makes
  <2> QED BY <1>0, <2>1 DEF WriterProc, HonestProc, ScanPcs, Mutating
<1>8. CASE Journals(p, "commit", "Committed", 0)
  <2>1. proc'[p].pc = "exited" /\ did' = did /\ did[p]
      BY <1>8 DEF Journals, Exits, WriterProc
  <2> QED BY <2>1 DEF WriterProc, ScanPcs
<1>9. CASE Journals(p, "rollback", "RolledBack", 1)
  <2>1. proc'[p].pc = "exited" /\ proc'[p].code # 0 /\ journal'[p] # "Committed"
      BY <1>9, Codes DEF Journals, Exits
  <2>2. journal'[p] = "Committed" => did'[p]
      BY <2>1
  <2> QED BY <2>1, <2>2 DEF WriterProc, ScanPcs
<1> QED BY <1>2, <1>3, <1>4, <1>5, <1>6, <1>7, <1>8, <1>9 DEF Stepped

LEMMA WriterStep ==
    ASSUME Serial, WriterInv, Next
    PROVE  WriterInv'
<1>1. PICK p \in Procs : Stepped(p)
    BY StepsOne DEF WriterInv
<1>2. HonestInv' /\ OneWriter'
    BY <1>1, StepsOne, OneWriterStep DEF WriterInv
<1>3. ASSUME NEW q \in Procs PROVE WriterProc(q)'
    BY <1>1, WriterOther, WriterOwn DEF WriterInv
<1> QED BY <1>2, <1>3 DEF WriterInv

LEMMA WriterInit ==
    ASSUME Init
    PROVE  WriterInv
<1>1. \A p \in Procs : proc[p].pc = "idle" /\ journal[p] = "none"
    BY DEF Init, Idle
<1>2. OneWriter
    BY <1>1 DEF OneWriter, Running
<1>3. \A p \in Procs : WriterProc(p)
    BY <1>1, Zenon DEF WriterProc, ScanPcs
<1> QED BY <1>2, <1>3, HonestInit DEF WriterInv

LEMMA WriterStutters ==
    ASSUME WriterInv, UNCHANGED vars
    PROVE  WriterInv'
<1>1. HonestInv'
    BY HonestStutters DEF WriterInv
<1>2. OneWriter' /\ \A p \in Procs : WriterProc(p)'
    BY DEF WriterInv, OneWriter, WriterProc, Running, Stored, vars
<1> QED BY <1>1, <1>2 DEF WriterInv

LEMMA WriterAlways ==
    ASSUME Serial
    PROVE  Spec => []WriterInv
<1>1. WriterInv /\ [Next]_vars => WriterInv'
    BY WriterStep, WriterStutters
<1> QED BY WriterInit, <1>1, PTL DEF Spec

\* While callers run one writing command at a time, the exit code of a command and the
\* journal record of its transaction say what became of the stores.
THEOREM ExitCodesTellTruth ==
    ASSUME Serial
    PROVE  Spec => []ExitTellsTruth
<1>1. WriterInv => ExitTellsTruth
  <2>1. ASSUME WriterInv, NEW p \in Procs, proc[p].pc = "exited", proc[p].cmd \in Writing \ {"init"}
        PROVE  proc[p].code = 0 <=> did[p]
    <3>1. proc[p].code \in {0, 1} /\ proc[p].cmd \in Mutating
        BY <2>1 DEF WriterInv, HonestInv, ProcsType, Processes, Writing, Mutating
    <3>2. proc[p].code = 0 => did[p]
        BY <2>1, <3>1 DEF WriterInv, WriterProc
    <3>3. proc[p].code = 1 => ~did[p]
        BY <2>1 DEF WriterInv, HonestInv, HonestProc
    <3> QED BY <3>1, <3>2, <3>3
  <2> QED BY <2>1 DEF ExitTellsTruth, Exited, WriterInv, WriterProc
<1> QED BY <1>1, WriterAlways, PTL

\* And a relationship appears only between objects that are stored at that moment: nobody
\* deletes one between the two look-ups of create_relationship and its write.
THEOREM BornBetweenStored ==
    ASSUME Serial
    PROVE  Spec => BetweenStored
<1>1. WriterInv /\ [Next]_vars =>
        [\A r \in RelIds : rels[r] = Absent /\ rels'[r] # Absent =>
            {rels'[r].src, rels'[r].dst} \subseteq objects]_vars
  <2>1. ASSUME WriterInv, Next, NEW r \in RelIds, rels[r] = Absent, rels'[r] # Absent
        PROVE  {rels'[r].src, rels'[r].dst} \subseteq objects
    <3>1. PICK p \in Procs : Stepped(p)
        BY <2>1, StepsOne DEF WriterInv
    <3>2. Mutates(p)
        BY <2>1, <3>1, WhoWrites
    <3>3. rels \in [RelIds -> Ends \cup {Absent}]
        BY <2>1 DEF WriterInv, HonestInv, TypeOK
    <3>4. At(p, {"create relationship"}, "write") /\ rels'[r] = proc[p].ends
        BY <2>1, <3>2, <3>3 DEF Mutates
    <3>5. proc[p].ends.src \in objects /\ proc[p].ends.dst \in objects
        BY <2>1, <3>4 DEF At, WriterInv, WriterProc
    <3> QED BY <3>4, <3>5
  <2> QED BY <2>1
<1> QED BY <1>1, WriterAlways, PTL DEF Spec, BetweenStored

-----------------------------------------------------------------------------
(* One init at a time: repository.json appears once, and whole.            *)

InitPcs == {"make", "open temporary", "flush", "rename"}

MakerProc(p) ==
    /\ proc[p].pc \in InitPcs => proc[p].cmd = "init" /\ file = Absent
    /\ proc[p].pc \in InitPcs \ {"make"} => made
    /\ proc[p].pc = "flush" => proc[p].out = "tmp"
    /\ proc[p].pc = "rename" => tmp # Torn

MakerInv ==
    /\ WriterInv /\ file # Torn
    /\ file # Absent => made
    /\ \A p \in Procs : MakerProc(p)

\* Unless a process makes the repository its files stay and so does who writes them.
LEMMA WhoMakes ==
    ASSUME NEW p \in Procs, Stepped(p)
    PROVE  \/ Makes(p) /\ Running(p) /\ proc[p].cmd \in Writing
           \/ OthersStay(p) /\ UNCHANGED initVars
<1>1. Makes(p) => Running(p) /\ proc[p].cmd \in Writing
    BY DEF Makes, Running, Writing
<1>2. ~Makes(p) => OthersStay(p)
    BY DEF Stepped, Starts, StartsMisused, Advances, Scans, Refuses, Mutates, Journals, Moves, Exits
<1>3. ~Makes(p) => UNCHANGED initVars
    BY DEF Stepped, Quiet, Refuses, Mutates, Journals
<1> QED BY <1>1, <1>2, <1>3

LEMMA MakerOther ==
    ASSUME MakerInv, NEW p \in Procs, Stepped(p), NEW q \in Procs \ {p}
    PROVE  MakerProc(q)'
<1>1. MakerProc(q)
    BY DEF MakerInv
<1>2. proc'[q].cmd = proc[q].cmd /\ proc'[q].pc = proc[q].pc
    BY DEF Stepped, OthersStayButOut
<1>3. CASE OthersStay(p) /\ UNCHANGED initVars
    BY <1>1, <1>3 DEF OthersStay, initVars, MakerProc
<1>4. CASE Makes(p) /\ Running(p) /\ proc[p].cmd \in Writing
  <2>1. proc[q].pc \notin InitPcs
      BY <1>1, <1>4 DEF MakerInv, WriterInv, OneWriter, MakerProc, InitPcs, Running, Writing
  <2> QED BY <1>2, <2>1 DEF MakerProc, InitPcs
<1> QED BY <1>3, <1>4, WhoMakes

LEMMA MakerOwn ==
    ASSUME MakerInv, NEW p \in Procs, Stepped(p)
    PROVE  /\ MakerProc(p)' /\ file' # Torn /\ (file' # Absent => made')
           /\ MetadataLoads => file' = file
<1>1. /\ MakerProc(p) /\ file # Torn /\ (file # Absent => made)
      /\ p # Torn
    BY CommandLineAssumption DEF MakerInv
<1>2. CASE Makes(p)
  <2>1. CASE proc[p].pc = "make"
      BY <1>1, <1>2, <2>1 DEF Makes, MakerProc, InitPcs
  <2>2. CASE proc[p].pc = "open temporary"
      BY <1>1, <1>2, <2>2 DEF Makes, MakerProc, InitPcs, MetadataLoads
  <2>3. CASE proc[p].pc = "flush"
      BY <1>1, <1>2, <2>3 DEF Makes, MakerProc, InitPcs, MetadataLoads
  <2>4. CASE proc[p].pc = "rename"
    <3>1. made /\ tmp # Torn /\ file = Absent /\ file' \in {file, tmp} /\ made' = made
          /\ proc'[p].pc = "exited"
        BY <1>1, <1>2, <2>4 DEF Makes, MakerProc, InitPcs
    <3> QED BY <1>1, <3>1 DEF MakerProc, InitPcs, MetadataLoads
  <2> QED BY <1>2, <2>1, <2>2, <2>3, <2>4 DEF Makes
<1>3. CASE ~Makes(p)
  <2>1. made' = made /\ file' = file /\ tmp' = tmp
      BY <1>3, WhoMakes DEF initVars
  <2>2. \/ proc'[p].pc \notin InitPcs
        \/ proc'[p].pc = "make" /\ proc'[p].cmd = "init" /\ ~made
    <3>1. CASE Starts(p) \/ StartsMisused(p) \/ Scans(p)
        BY <3>1 DEF Starts, StartsMisused, Scans, ScanPcs, InitPcs
    <3>2. CASE Advances(p)
        BY <3>2 DEF Advances, Moves, Exits, Keeps, At, InitPcs
    <3>3. CASE \/ Refuses(p) \/ Mutates(p) \/ Journals(p, "commit", "Committed", 0)
               \/ Journals(p, "rollback", "RolledBack", 1)
        BY <3>3 DEF Refuses, Mutates, Journals, Moves, Exits, InitPcs
    <3> QED BY <1>3, <3>1, <3>2, <3>3 DEF Stepped
  <2> QED BY <1>1, <2>1, <2>2 DEF MakerProc, InitPcs
<1> QED BY <1>2, <1>3

LEMMA MakerStep ==
    ASSUME Serial, MakerInv, Next
    PROVE  MakerInv' /\ (MetadataLoads => file' = file)
<1>1. PICK p \in Procs : Stepped(p)
    BY StepsOne DEF MakerInv, WriterInv
<1>2. WriterInv'
    BY WriterStep DEF MakerInv
<1>3. ASSUME NEW q \in Procs PROVE MakerProc(q)'
    BY <1>1, MakerOther, MakerOwn
<1> QED BY <1>1, <1>2, <1>3, MakerOwn DEF MakerInv

LEMMA MakerAlways ==
    ASSUME Serial
    PROVE  Spec => []MakerInv
<1>1. ASSUME Init PROVE MakerInv
  <2>1. \A p \in Procs : proc[p].pc = "idle"
      BY <1>1 DEF Init, Idle
  <2>2. \A p \in Procs : MakerProc(p)
      BY <2>1 DEF MakerProc, InitPcs
  <2>3. file # Torn /\ (file # Absent => made)
      BY <1>1, CommandLineAssumption DEF Init
  <2> QED BY <1>1, <2>2, <2>3, WriterInit DEF MakerInv
<1>2. ASSUME MakerInv, UNCHANGED vars PROVE MakerInv'
    BY <1>2, WriterStutters DEF MakerInv, MakerProc, vars
<1>3. MakerInv /\ [Next]_vars => MakerInv'
    BY <1>2, MakerStep
<1> QED BY <1>1, <1>3, PTL DEF Spec

\* save_metadata: wherever an init is killed, repository.json is absent or whole.
THEOREM MetadataNeverPartial ==
    ASSUME Serial
    PROVE  Spec => []NeverPartial
BY MakerAlways, PTL DEF MakerInv, NeverPartial

\* No later init replaces what an earlier one made, be it complete or not.
THEOREM MetadataIsKept ==
    ASSUME Serial
    PROVE  Spec => IdentityIsKept
<1>1. MakerInv /\ [Next]_vars => [MetadataLoads => file' = file]_vars
    BY MakerStep
<1> QED BY <1>1, MakerAlways, PTL DEF Spec, IdentityIsKept

-----------------------------------------------------------------------------
(* Listings, whatever runs beside them.                                    *)

ListProc(p) ==
    proc[p].cmd \in Lists =>
        /\ proc[p].pc \in {"open", "work", "scan", "exited", "killed"}
        /\ proc[p].pc \in {"open", "work"} => proc[p].seen = {}
        /\ Running(p) => since[p].kept \subseteq Stored /\ proc[p].seen \subseteq since[p].stored
        /\ proc[p].pc = "scan" =>
              since[p].kept \cap Kind(proc[p].cmd) \subseteq proc[p].seen \cup proc[p].todo
        /\ proc[p].pc = "exited" /\ proc[p].code = 0 =>
              /\ since[p].kept \cap Kind(proc[p].cmd) \subseteq proc[p].seen
              /\ proc[p].seen \subseteq since[p].stored

ListInv == HonestInv /\ \A p \in Procs : ListProc(p)

LEMMA WatchEffect ==
    ASSUME Watch, NEW p \in Procs, proc'[p].cmd \in Lists
    PROVE  /\ Running(p) => /\ since'[p].kept = since[p].kept \cap Stored'
                            /\ since'[p].stored = since[p].stored \cup Stored'
           /\ proc[p].pc = "idle" /\ proc'[p].pc # "idle" =>
                since'[p].kept = Stored /\ since'[p].stored = Stored
           /\ proc[p].pc \in {"exited", "killed"} => since'[p] = since[p]
BY DEF Watch, Lists, Reading, Running

LEMMA ListOther ==
    ASSUME Watch, NEW p \in Procs, Stepped(p), NEW q \in Procs \ {p}, ListProc(q)
    PROVE  ListProc(q)'
<1>1. /\ proc'[q].cmd = proc[q].cmd /\ proc'[q].pc = proc[q].pc /\ proc'[q].code = proc[q].code
      /\ proc'[q].seen = proc[q].seen /\ proc'[q].todo = proc[q].todo
      /\ Kind(proc'[q].cmd) = Kind(proc[q].cmd)
    BY DEF Stepped, OthersStayButOut, Kind
<1>2. CASE Running(q) /\ proc[q].cmd \in Lists
  <2>1. /\ since'[q].kept = since[q].kept \cap Stored'
        /\ since'[q].stored = since[q].stored \cup Stored'
      BY <1>1, <1>2, WatchEffect
  <2> QED BY <1>1, <1>2, <2>1 DEF ListProc, Running
<1>3. CASE ~Running(q) /\ proc[q].cmd \in Lists
  <2>1. proc[q].pc \in {"exited", "killed"}
      BY <1>3 DEF ListProc, Running
  <2>2. since'[q] = since[q]
      BY <1>1, <1>3, <2>1, WatchEffect
  <2> QED BY <1>1, <1>3, <2>1, <2>2 DEF ListProc, Running
<1>4. CASE proc[q].cmd \notin Lists
    BY <1>1, <1>4 DEF ListProc
<1> QED BY <1>2, <1>3, <1>4

LEMMA ListOwn ==
    ASSUME Watch, NEW p \in Procs, Stepped(p), ListProc(p)
    PROVE  ListProc(p)'
<1> SUFFICES ASSUME proc'[p].cmd \in Lists PROVE ListProc(p)'
    BY DEF ListProc
<1>1. CASE Quiet /\ (Starts(p) \/ StartsMisused(p))
  <2>1. proc[p].pc = "idle" /\ proc'[p].pc = "open" /\ proc'[p].seen = {}
      BY <1>1 DEF Starts, StartsMisused, Lists, Reading
  <2>2. since'[p].kept = Stored /\ Stored' = Stored
      BY <1>1, <2>1, WatchEffect DEF Quiet, storeVars, Stored
  <2> QED BY <2>1, <2>2 DEF ListProc
<1>2. ASSUME proc[p].cmd \in Lists, Running(p)
      PROVE  /\ since'[p].kept = since[p].kept \cap Stored'
             /\ since'[p].stored = since[p].stored \cup Stored'
             /\ since[p].kept \subseteq Stored /\ proc[p].seen \subseteq since[p].stored
    BY <1>2, WatchEffect DEF ListProc
<1>3. CASE Quiet /\ Scans(p)
  <2>1. proc[p].cmd \in Lists /\ proc'[p].cmd = proc[p].cmd /\ proc[p].pc \in {"work", "scan"}
      BY <1>3 DEF Scans, ScanPcs, ListProc
  <2>2. Running(p) /\ Stored' = Stored
      BY <1>3, <2>1 DEF Running, Quiet, storeVars, Stored
  <2>3. CASE proc[p].pc = "work"
    <3>1. /\ proc'[p].pc = "scan" /\ proc'[p].seen = {}
          /\ Stored \cap Kind(proc[p].cmd) \subseteq proc'[p].todo
        BY <1>3, <2>1, <2>3 DEF Scans, ListProc
    <3> QED BY <1>2, <2>1, <2>2, <3>1 DEF ListProc
  <2>4. CASE proc[p].pc = "scan"
    <3>1. PICK id \in Entities :
              /\ proc'[p].todo = proc[p].todo \ {id}
              /\ IF id \in Stored THEN proc'[p].seen = proc[p].seen \cup {id}
                                  ELSE proc'[p].seen = proc[p].seen
        BY <1>3, <2>1, <2>4 DEF Scans
    <3>2. proc'[p].pc = "scan"
        BY <1>3, <2>1, <2>4 DEF Scans
    <3>3. since[p].kept \cap Kind(proc[p].cmd) \subseteq proc[p].seen \cup proc[p].todo
        BY <2>1, <2>4 DEF ListProc
    <3>4. since'[p].kept \cap Kind(proc[p].cmd) \subseteq proc'[p].seen \cup proc'[p].todo
        BY <1>2, <2>1, <2>2, <3>1, <3>3
    <3>5. proc'[p].seen \subseteq since'[p].stored
        BY <1>2, <2>1, <2>2, <3>1
    <3>6. since'[p].kept \subseteq Stored'
        BY <1>2, <2>1, <2>2
    <3> QED BY <2>1, <3>2, <3>4, <3>5, <3>6 DEF ListProc
  <2> QED BY <2>1, <2>3, <2>4
<1>4. CASE Quiet /\ Advances(p)
  <2>1. /\ proc[p].cmd \in Lists /\ proc'[p].cmd = proc[p].cmd /\ Running(p)
        /\ proc'[p].seen = proc[p].seen /\ proc'[p].todo = proc[p].todo
    <3>1. proc'[p].cmd = proc[p].cmd /\ proc'[p].seen = proc[p].seen /\ proc'[p].todo = proc[p].todo
        BY <1>4 DEF Advances, Moves, Exits, Keeps
    <3> QED BY <1>4, <3>1 DEF Advances, Running, At
  <2>2. \/ proc[p].pc = "open" /\ proc'[p].pc = "work"
        \/ proc'[p].pc = "exited" /\ proc'[p].code # 0
        \/ proc[p].pc = "scan" /\ proc[p].todo = {} /\ proc'[p].pc = "exited"
        \/ proc'[p].pc = "killed"
      BY <1>4, <2>1, Codes DEF Advances, Moves, Exits, At, Lists, Mutating, ListProc
  <2> QED BY <1>2, <2>1, <2>2 DEF ListProc, Running
<1>5. CASE \/ Refuses(p) \/ Mutates(p) \/ Makes(p) \/ Journals(p, "commit", "Committed", 0)
           \/ Journals(p, "rollback", "RolledBack", 1)
  <2>1. proc'[p].cmd = proc[p].cmd
      BY <1>5 DEF Refuses, Mutates, Makes, Journals, Moves, Exits, Keeps
  <2>2. proc[p].pc \in {"open", "work", "scan", "exited", "killed"}
      BY <2>1 DEF ListProc
  <2> QED BY <1>5, <2>1, <2>2 DEF Refuses, Mutates, Makes, Journals, At, Lists, Mutating
<1> QED BY <1>1, <1>3, <1>4, <1>5 DEF Stepped

LEMMA ListStep ==
    ASSUME ListInv, Next
    PROVE  ListInv'
<1>1. Watch /\ HonestInv'
    BY StepsOne DEF ListInv
<1>2. PICK p \in Procs : Stepped(p)
    BY StepsOne DEF ListInv
<1>3. ASSUME NEW q \in Procs PROVE ListProc(q)'
    BY <1>1, <1>2, ListOther, ListOwn DEF ListInv
<1> QED BY <1>1, <1>3 DEF ListInv

\* A listing that ends well has every record that was there all the while and none that
\* was not, though list_all (object_store.cpp) holds no lock while it reads the files.
THEOREM ListingsTellTruth == Spec => []ListsTellTruth
<1>1. ASSUME Init PROVE ListInv
  <2>1. \A p \in Procs : proc[p].cmd = "none"
      BY <1>1 DEF Init, Idle
  <2> QED BY <1>1, <2>1, HonestInit DEF ListInv, ListProc, Lists
<1>2. ASSUME ListInv, UNCHANGED vars PROVE ListInv'
  <2>1. HonestInv'
      BY <1>2, HonestStutters DEF ListInv
  <2>2. \A p \in Procs : ListProc(p)'
      BY <1>2 DEF ListInv, ListProc, Running, Kind, Stored, vars
  <2> QED BY <2>1, <2>2 DEF ListInv
<1>3. ListInv /\ [Next]_vars => ListInv'
    BY <1>2, ListStep
<1>4. ListInv => ListsTellTruth
    BY DEF ListInv, ListProc, ListsTellTruth, Exited, Lists, Reading
<1> QED BY <1>1, <1>3, <1>4, PTL DEF Spec

-----------------------------------------------------------------------------
(* Validation, whatever runs beside it.                                    *)

\* Why a validation may complain: it saw something dangle or go, or the repository
\* is not the one that was there from the start.
Excused(p) == since[p].ever # {} \/ since[p].removed \/ file # Given

Watched(p) == since[p].broken \subseteq Dangling /\ Dangling \subseteq since[p].ever

\* A missing end point that is to be loaded, or an entry whose file has gone, is an excuse.
NeedsExcuse(p) == \A o \in proc[p].need : o \in objects \/ Excused(p)
GoneExcused(p) == \A id \in proc[p].todo : id \in Stored \/ id \notin issued \/ Excused(p)

\* A relationship that dangled all along is still to be read, or a missing end of it is
\* still to be loaded.
BrokenToRead(p) == \A r \in since[p].broken : r \in proc[p].todo \/ EndsOf(r) \subseteq proc[p].need
BrokenToLoad(p) == \A r \in since[p].broken : (EndsOf(r) \ objects) \cap proc[p].todo # {}

ValidPc(p) ==
    /\ proc[p].pc \in {"open", "work"} => proc[p].need = {}
    /\ proc[p].pc \in {"scan", "scan relationships"} => GoneExcused(p)
    /\ proc[p].pc = "scan relationships" => BrokenToRead(p)
    /\ proc[p].pc = "ends" => proc[p].todo \subseteq proc[p].need
    /\ proc[p].pc = "ends" /\ ~proc[p].bad => BrokenToLoad(p)
    /\ proc[p].pc \in ScanPcs /\ proc[p].bad => Excused(p)

ValidExit(p) ==
    /\ proc[p].code = 0 => since[p].broken = {}
    /\ proc[p].code = 1 => Excused(p)

ValidProc(p) ==
    proc[p].cmd = "validate" =>
        /\ proc[p].pc \in {"open", "work", "exited", "killed"} \cup ScanPcs
        /\ Running(p) => Watched(p) /\ NeedsExcuse(p) /\ ValidPc(p)
        /\ proc[p].pc = "exited" => ValidExit(p)

ValidInv ==
    /\ HonestInv /\ tmp # Given
    /\ \A p \in Procs : ValidProc(p)

\* What one step may do to the stores and to repository.json: an id that was given out
\* does not come back, what stays keeps its end points, and no init makes the
\* repository that was there from the start.
Evolves ==
    /\ \A o \in objects' : o \in objects \/ o \notin issued
    /\ \A r \in RelIds : r \in Stored /\ r \in Stored' => rels'[r] = rels[r]
    /\ issued \subseteq issued' /\ issued' \ issued \subseteq Stored'
    /\ file' = Given => file = Given

LEMMA StepEvolves ==
    ASSUME HonestInv, tmp # Given, NEW p \in Procs, Stepped(p)
    PROVE  Evolves /\ tmp' # Given
<1>0. p # Given /\ Absent # Given /\ Torn # Given
    BY CommandLineAssumption
<1>1. rels \in [RelIds -> Ends \cup {Absent}] /\ Stored \subseteq issued
    BY DEF HonestInv, TypeOK
<1>2. CASE Makes(p)
  <2>1. tmp' # Given /\ (file' = Given => file = Given)
      BY <1>0, <1>2 DEF Makes
  <2> QED BY <1>2, <2>1 DEF Makes, Evolves, storeVars
<1>3. CASE \/ Quiet \/ Refuses(p) \/ Journals(p, "commit", "Committed", 0)
           \/ Journals(p, "rollback", "RolledBack", 1)
    BY <1>3 DEF Quiet, Refuses, Journals, Evolves, initVars, storeVars
<1>4. CASE Mutates(p)
  <2>1. file' = file /\ tmp' = tmp
      BY <1>4 DEF Mutates, initVars
  <2>2. CASE /\ rels' = rels
             /\ \E id \in ObjectIds \ issued : objects' = objects \cup {id} /\ issued' = issued \cup {id}
      BY <2>1, <2>2 DEF Evolves, Stored
  <2>3. CASE /\ objects' = objects
             /\ \E id \in RelIds \ issued : rels' = [rels EXCEPT ![id] = proc[p].ends]
                                            /\ issued' = issued \cup {id}
             /\ At(p, {"create relationship"}, "write")
    <3>1. PICK id \in RelIds \ issued : rels' = [rels EXCEPT ![id] = proc[p].ends]
                                        /\ issued' = issued \cup {id}
        BY <2>3
    <3>2. proc[p].ends \in Ends
        BY <2>3 DEF HonestInv, HonestProc, At
    <3>3. proc[p].ends # Absent
        BY <3>2, CommandLineAssumption DEF Ends
    <3>4. rels'[id] = proc[p].ends /\ \A r \in RelIds \ {id} : rels'[r] = rels[r]
        BY <1>1, <3>1
    <3>5. issued' \ issued \subseteq Stored'
        BY <3>1, <3>3, <3>4 DEF Stored
    <3>6. \A r \in RelIds : r \in Stored => rels'[r] = rels[r]
        BY <1>1, <3>1, <3>4
    <3> QED BY <2>1, <2>3, <3>1, <3>5, <3>6 DEF Evolves
  <2>4. CASE /\ issued' = issued /\ objects' = objects \ {proc[p].id}
             /\ rels' = [r \in RelIds |-> IF r = proc[p].id THEN Absent ELSE rels[r]]
    <3>1. \A r \in RelIds : r \in Stored' => rels'[r] = rels[r]
      <4>1. \A r \in RelIds : r \in Stored' => r \in objects' \/ rels'[r] # Absent
          BY DEF Stored
      <4>2. objects' \cap RelIds = {}
          BY <2>4, CommandLineAssumption DEF HonestInv, TypeOK
      <4> QED BY <2>4, <4>1, <4>2
    <3> QED BY <2>1, <2>4, <3>1 DEF Evolves
  <2> QED BY <1>4, <2>1, <2>2, <2>3, <2>4 DEF Mutates
<1> QED BY <1>2, <1>3, <1>4 DEF Stepped

LEMMA WatchFull ==
    ASSUME Watch, NEW p \in Procs, proc'[p].cmd = "validate"
    PROVE  /\ Running(p) => /\ since'[p].broken = since[p].broken \cap Dangling'
                            /\ since'[p].ever = since[p].ever \cup Dangling'
                            /\ since[p].removed => since'[p].removed
                            /\ ~(Stored \subseteq Stored') => since'[p].removed
           /\ proc[p].pc = "idle" /\ proc'[p].pc # "idle" =>
                since'[p].broken = Dangling /\ since'[p].ever = Dangling
           /\ proc[p].pc \in {"exited", "killed"} => since'[p] = since[p]
<1>1. proc'[p].cmd \in Reading
    BY DEF Reading
<1>2. CASE Running(p)
  <2>1. since'[p] = [kept |-> since[p].kept \cap Stored', stored |-> since[p].stored \cup Stored',
                     broken |-> since[p].broken \cap Dangling',
                     ever |-> since[p].ever \cup Dangling',
                     removed |-> since[p].removed \/ ~(Stored \subseteq Stored')]
      BY <1>1, <1>2 DEF Watch, Running
  <2>2. (since[p].removed \/ ~(Stored \subseteq Stored')) \in BOOLEAN
      OBVIOUS
  <2>3. PICK removed \in BOOLEAN : removed = (since[p].removed \/ ~(Stored \subseteq Stored'))
      BY <2>2, Zenon
  <2>4. since'[p] = [kept |-> since[p].kept \cap Stored', stored |-> since[p].stored \cup Stored',
                     broken |-> since[p].broken \cap Dangling',
                     ever |-> since[p].ever \cup Dangling', removed |-> removed]
      BY <2>1, <2>3, Zenon
  <2>5. /\ since'[p].removed = removed
        /\ since'[p].broken = since[p].broken \cap Dangling'
        /\ since'[p].ever = since[p].ever \cup Dangling'
      BY <2>4
  <2>6. /\ since[p].removed => since'[p].removed
        /\ ~(Stored \subseteq Stored') => since'[p].removed
      BY <2>3, <2>5, Zenon
  <2> QED BY <1>2, <2>5, <2>6 DEF Running
<1>3. CASE ~Running(p)
    BY <1>1, <1>3 DEF Watch, Running
<1> QED BY <1>2, <1>3

\* What a running validation relies on outlasts any step.
LEMMA ValidLasts ==
    ASSUME HonestInv, Evolves, Watch, NEW q \in Procs, Running(q), proc'[q].cmd = "validate",
           Watched(q), NeedsExcuse(q)
    PROVE  /\ Watched(q)' /\ (Excused(q) => Excused(q)')
           /\ \A o \in proc[q].need : o \in objects' \/ Excused(q)'
           /\ \A id \in Entities : id \in Stored \/ id \notin issued \/ Excused(q) =>
                    id \in Stored' \/ id \notin issued' \/ Excused(q)'
           /\ \A r \in since'[q].broken : /\ r \in since[q].broken /\ EndsOf(r)' = EndsOf(r)
                                          /\ EndsOf(r) \ objects \subseteq EndsOf(r) \ objects'
           /\ \A r \in Dangling : Excused(q)'
<1>1. /\ since'[q].broken = since[q].broken \cap Dangling'
      /\ since'[q].ever = since[q].ever \cup Dangling'
      /\ since[q].removed => since'[q].removed
      /\ ~(Stored \subseteq Stored') => since'[q].removed
    BY WatchFull
<1>2. Watched(q)'
    BY <1>1 DEF Watched
<1>3. Excused(q) => Excused(q)'
  <2>1. since[q].ever # {} => since'[q].ever # {}
      BY <1>1
  <2>2. file # Given => file' # Given
      BY DEF Evolves
  <2> QED BY <1>1, <2>1, <2>2 DEF Excused
<1>4. ~(Stored \subseteq Stored') => Excused(q)'
    BY <1>1 DEF Excused
<1>5. ASSUME NEW o \in proc[q].need PROVE o \in objects' \/ Excused(q)'
  <2>1. CASE o \in objects
    <3>1. o \notin RelIds
        BY <2>1, CommandLineAssumption DEF HonestInv, TypeOK
    <3>2. o \in Stored /\ (o \in Stored' => o \in objects')
        BY <2>1, <3>1 DEF Stored
    <3> QED BY <1>4, <3>2
  <2>2. CASE Excused(q)
      BY <1>3, <2>2
  <2> QED BY <2>1, <2>2 DEF NeedsExcuse
<1>6. ASSUME NEW id \in Entities, id \in Stored \/ id \notin issued \/ Excused(q)
      PROVE  id \in Stored' \/ id \notin issued' \/ Excused(q)'
    BY <1>3, <1>4, <1>6 DEF Evolves
<1>7. ASSUME NEW r \in since'[q].broken
      PROVE  /\ r \in since[q].broken /\ EndsOf(r)' = EndsOf(r)
             /\ EndsOf(r) \ objects \subseteq EndsOf(r) \ objects'
  <2>1. r \in since[q].broken /\ r \in Dangling /\ r \in Dangling'
      BY <1>1 DEF Watched
  <2>2. r \in RelIds /\ r \in Stored /\ r \in Stored'
      BY <2>1 DEF Dangling, Stored
  <2>3. rels'[r] = rels[r]
      BY <2>2 DEF Evolves
  <2>4. EndsOf(r) \subseteq issued
      BY <2>1 DEF HonestInv, NeverToNowhere, Dangling, EndsOf
  <2>5. EndsOf(r) \ objects \subseteq EndsOf(r) \ objects'
      BY <2>4 DEF Evolves
  <2> QED BY <2>1, <2>3, <2>5 DEF EndsOf
<1>8. ASSUME NEW r \in Dangling PROVE Excused(q)'
  <2>1. since[q].ever # {}
      BY DEF Watched
  <2> QED BY <1>3, <2>1 DEF Excused
<1> QED BY <1>2, <1>3, <1>5, <1>6, <1>7, <1>8

LEMMA ValidOther ==
    ASSUME HonestInv, Evolves, Watch, NEW p \in Procs, Stepped(p), NEW q \in Procs \ {p},
           ValidProc(q)
    PROVE  ValidProc(q)'
<1>1. /\ proc'[q].cmd = proc[q].cmd /\ proc'[q].pc = proc[q].pc /\ proc'[q].code = proc[q].code
      /\ proc'[q].todo = proc[q].todo /\ proc'[q].need = proc[q].need
      /\ proc'[q].bad = proc[q].bad
    BY DEF Stepped, OthersStayButOut
<1>2. CASE Running(q) /\ proc[q].cmd = "validate"
  <2>1. Watched(q) /\ NeedsExcuse(q) /\ ValidPc(q) /\ proc[q].todo \subseteq Entities
      BY <1>2 DEF ValidProc, HonestInv, ProcsType, Processes
  <2>2. /\ Watched(q)' /\ (Excused(q) => Excused(q)')
        /\ \A o \in proc[q].need : o \in objects' \/ Excused(q)'
        /\ \A id \in Entities : id \in Stored \/ id \notin issued \/ Excused(q) =>
                id \in Stored' \/ id \notin issued' \/ Excused(q)'
        /\ \A r \in since'[q].broken : /\ r \in since[q].broken /\ EndsOf(r)' = EndsOf(r)
                                       /\ EndsOf(r) \ objects \subseteq EndsOf(r) \ objects'
      BY <1>1, <1>2, <2>1, ValidLasts
  <2>3. NeedsExcuse(q)'
      BY <1>1, <2>2 DEF NeedsExcuse
  <2>4. GoneExcused(q) => GoneExcused(q)'
      BY <1>1, <2>1, <2>2 DEF GoneExcused
  <2>5. BrokenToRead(q) => BrokenToRead(q)'
      BY <1>1, <2>2 DEF BrokenToRead
  <2>6. BrokenToLoad(q) => BrokenToLoad(q)'
      BY <1>1, <2>2 DEF BrokenToLoad
  <2>7. ValidPc(q)'
      BY <1>1, <2>1, <2>2, <2>4, <2>5, <2>6 DEF ValidPc
  <2> QED BY <1>1, <1>2, <2>2, <2>3, <2>7 DEF ValidProc, Running
<1>3. CASE ~Running(q) /\ proc[q].cmd = "validate"
  <2>1. proc[q].pc \in {"exited", "killed"}
      BY <1>3 DEF ValidProc, Running, ScanPcs
  <2>2. since'[q] = since[q]
      BY <1>1, <1>3, <2>1, WatchFull
  <2>3. Excused(q) => Excused(q)'
      BY <2>2 DEF Excused, Evolves
  <2> QED BY <1>1, <1>3, <2>1, <2>2, <2>3 DEF ValidProc, ValidExit, Running, ScanPcs
<1>4. CASE proc[q].cmd # "validate"
    BY <1>1, <1>4 DEF ValidProc
<1> QED BY <1>2, <1>3, <1>4

\* The step of a scan keeps what the validation relies on.
LEMMA ValidScan ==
    ASSUME HonestInv, Evolves, Watch, NEW p \in Procs, Quiet, Scans(p), ValidProc(p),
           proc[p].cmd = "validate"
    PROVE  Watched(p)' /\ NeedsExcuse(p)' /\ ValidPc(p)'
<1>1. proc'[p].cmd = "validate" /\ proc[p].pc \in {"work"} \cup ScanPcs /\ Running(p) /\ Scanned(p)
    BY DEF Scans, ScanPcs, Running
<1>2. Watched(p) /\ NeedsExcuse(p) /\ ValidPc(p) /\ proc[p].todo \subseteq Entities
    BY <1>1 DEF ValidProc, HonestInv, ProcsType, Processes
<1>3. /\ objects' = objects /\ rels' = rels /\ issued' = issued /\ Stored' = Stored
      /\ file' = file /\ Dangling' = Dangling
    BY DEF Quiet, initVars, storeVars, Stored, Dangling
<1>4. /\ Watched(p)' /\ (Excused(p) => Excused(p)')
      /\ \A o \in proc[p].need : o \in objects \/ Excused(p)'
      /\ \A id \in Entities : id \in Stored \/ id \notin issued \/ Excused(p) =>
                id \in Stored \/ id \notin issued \/ Excused(p)'
      /\ \A r \in since'[p].broken : r \in since[p].broken /\ EndsOf(r)' = EndsOf(r)
      /\ \A r \in Dangling : Excused(p)'
    BY <1>1, <1>2, <1>3, ValidLasts
<1>5. CASE proc[p].pc = "work"
  <2>1. /\ proc'[p].pc = "scan" /\ proc'[p].need = proc[p].need
        /\ \A id \in proc'[p].todo : id \in Stored \/ id \notin issued
        /\ proc'[p].bad => ~MetadataLoads
      BY <1>1, <1>5 DEF Scanned, ScanPcs
  <2>2. ~MetadataLoads => Excused(p)'
      BY <1>3, CommandLineAssumption DEF MetadataLoads, Excused
  <2>3. NeedsExcuse(p)' /\ GoneExcused(p)'
      BY <1>3, <1>4, <2>1 DEF NeedsExcuse, GoneExcused
  <2> QED BY <1>4, <2>1, <2>2, <2>3 DEF ValidPc
<1>6. CASE proc[p].pc \in {"scan", "scan relationships"} /\ proc'[p].pc = proc[p].pc
  <2>1. PICK id \in proc[p].todo :
            /\ proc'[p].todo = proc[p].todo \ {id}
            /\ proc'[p].need = IF id \in Stored /\ id \in RelIds THEN proc[p].need \cup EndsOf(id)
                                                                ELSE proc[p].need
            /\ proc'[p].bad => proc[p].bad \/ (id \notin Stored /\ id \in issued)
      BY <1>1, <1>6 DEF Scanned
  <2>2. GoneExcused(p) /\ (proc[p].bad => Excused(p)')
      BY <1>2, <1>4, <1>6 DEF ValidPc, ScanPcs
  <2>3. GoneExcused(p)'
      BY <1>3, <1>4, <2>1, <2>2 DEF GoneExcused
  <2>4. proc'[p].bad => Excused(p)'
    <3>1. id \in Stored \/ id \notin issued \/ Excused(p)'
        BY <1>4, <2>2 DEF GoneExcused
    <3> QED BY <2>1, <2>2, <3>1
  <2>5. NeedsExcuse(p)'
    <3>1. ASSUME id \in Stored, id \in RelIds, NEW o \in EndsOf(id), o \notin objects
          PROVE  Excused(p)'
      <4>1. rels[id] # Absent
        <5>1. id \notin objects
            BY <3>1, CommandLineAssumption DEF HonestInv, TypeOK
        <5> QED BY <3>1, <5>1 DEF Stored
      <4>2. id \in Dangling
          BY <3>1, <4>1 DEF Dangling, EndsOf
      <4> QED BY <1>4, <4>2
    <3> QED BY <1>3, <1>4, <2>1, <3>1 DEF NeedsExcuse
  <2>6. ASSUME proc[p].pc = "scan relationships" PROVE BrokenToRead(p)'
    <3>1. BrokenToRead(p)
        BY <1>2, <2>6 DEF ValidPc
    <3>2. ASSUME NEW r \in since'[p].broken
          PROVE  r \in proc'[p].todo \/ EndsOf(r) \subseteq proc'[p].need
      <4>1. r \in proc[p].todo \/ EndsOf(r) \subseteq proc[p].need
          BY <1>4, <3>1 DEF BrokenToRead
      <4>2. r \in Stored /\ r \in RelIds
          BY <1>2, <1>4 DEF Watched, Dangling, Stored
      <4>3. CASE r = id
          BY <2>1, <4>2, <4>3
      <4>4. CASE r # id
          BY <2>1, <4>1, <4>4
      <4> QED BY <4>3, <4>4
    <3> QED BY <1>4, <3>2 DEF BrokenToRead
  <2> QED BY <1>4, <1>6, <2>3, <2>4, <2>5, <2>6 DEF ValidPc
<1>7. CASE proc[p].pc = "scan" /\ proc'[p].pc = "scan relationships"
  <2>1. /\ proc'[p].need = proc[p].need /\ proc'[p].bad = proc[p].bad
        /\ \A id \in proc'[p].todo : id \in Stored \/ id \notin issued
        /\ Stored \cap RelIds \subseteq proc'[p].todo
      BY <1>7, <1>1 DEF Scanned
  <2>2. NeedsExcuse(p)' /\ GoneExcused(p)'
      BY <1>3, <1>4, <2>1 DEF NeedsExcuse, GoneExcused
  <2>3. BrokenToRead(p)'
      BY <1>2, <1>4, <2>1 DEF BrokenToRead, Watched, Dangling, Stored
  <2>4. proc'[p].bad => Excused(p)'
      BY <1>2, <1>4, <1>7, <2>1 DEF ValidPc, ScanPcs
  <2> QED BY <1>4, <1>7, <2>2, <2>3, <2>4 DEF ValidPc
<1>8. CASE proc[p].pc = "scan relationships" /\ proc'[p].pc = "ends"
  <2>1. /\ proc[p].todo = {} /\ proc'[p].todo = proc[p].need
        /\ proc'[p].need = proc[p].need /\ proc'[p].bad = proc[p].bad
      BY <1>8, <1>1 DEF Scanned
  <2>2. NeedsExcuse(p)'
      BY <1>3, <1>4, <2>1 DEF NeedsExcuse
  <2>3. proc'[p].bad => Excused(p)'
      BY <1>2, <1>4, <1>8, <2>1 DEF ValidPc, ScanPcs
  <2>4. BrokenToLoad(p)'
    <3>1. ASSUME NEW r \in since'[p].broken PROVE (EndsOf(r) \ objects) \cap proc'[p].todo # {}
      <4>1. EndsOf(r) \subseteq proc[p].need
          BY <1>2, <1>4, <1>8, <2>1 DEF ValidPc, BrokenToRead
      <4>2. r \in Dangling
          BY <1>2, <1>4 DEF Watched
      <4>3. ~(EndsOf(r) \subseteq objects)
          BY <4>2 DEF Dangling, EndsOf
      <4> QED BY <2>1, <4>1, <4>3
    <3> QED BY <1>3, <1>4, <3>1 DEF BrokenToLoad
  <2> QED BY <1>4, <1>8, <2>1, <2>2, <2>3, <2>4 DEF ValidPc
<1>9. CASE proc[p].pc = "ends" /\ proc'[p].pc = "ends"
  <2>1. PICK o \in proc[p].todo :
            /\ proc'[p].todo = proc[p].todo \ {o}
            /\ proc'[p].bad => proc[p].bad \/ o \notin objects
            /\ proc[p].bad \/ o \notin objects => proc'[p].bad
      BY <1>1, <1>9 DEF Scanned
  <2>2. proc'[p].need = proc[p].need
      BY <1>1, <1>9 DEF Scanned
  <2>3. proc[p].todo \subseteq proc[p].need /\ (proc[p].bad => Excused(p)')
      BY <1>2, <1>4, <1>9 DEF ValidPc, ScanPcs
  <2>4. NeedsExcuse(p)' /\ proc'[p].todo \subseteq proc'[p].need
      BY <1>3, <1>4, <2>1, <2>2, <2>3 DEF NeedsExcuse
  <2>5. proc'[p].bad => Excused(p)'
      BY <1>4, <2>1, <2>3
  <2>6. ASSUME ~proc'[p].bad PROVE BrokenToLoad(p)'
    <3>1. ~proc[p].bad /\ o \in objects
        BY <2>1, <2>6
    <3>2. BrokenToLoad(p)
        BY <1>2, <1>9, <3>1 DEF ValidPc
    <3> QED BY <1>3, <1>4, <2>1, <3>1, <3>2 DEF BrokenToLoad
  <2> QED BY <1>4, <1>9, <2>4, <2>5, <2>6 DEF ValidPc
<1> QED BY <1>1, <1>5, <1>6, <1>7, <1>8, <1>9 DEF Scanned

LEMMA ValidOwn ==
    ASSUME HonestInv, Evolves, Watch, NEW p \in Procs, Stepped(p), ValidProc(p)
    PROVE  ValidProc(p)'
<1> SUFFICES ASSUME proc'[p].cmd = "validate" PROVE ValidProc(p)'
    BY DEF ValidProc
<1>1. CASE Quiet /\ (Starts(p) \/ StartsMisused(p))
  <2>1. proc[p].pc = "idle" /\ proc'[p].pc = "open" /\ proc'[p].need = {}
      BY <1>1 DEF Starts, StartsMisused, Reading
  <2>2. since'[p].broken = Dangling /\ since'[p].ever = Dangling /\ Dangling' = Dangling
      BY <1>1, <2>1, WatchFull DEF Quiet, storeVars, Dangling
  <2>3. Watched(p)'
      BY <2>2 DEF Watched
  <2> QED BY <2>1, <2>3 DEF ValidProc, NeedsExcuse, ValidPc, ScanPcs
<1>2. CASE Quiet /\ Scans(p)
  <2>1. proc[p].cmd = "validate" /\ proc'[p].pc \in ScanPcs
      BY <1>2 DEF Scans
  <2>2. Watched(p)' /\ NeedsExcuse(p)' /\ ValidPc(p)'
      BY <1>2, <2>1, ValidScan
  <2> QED BY <2>1, <2>2 DEF ValidProc, ScanPcs
<1>3. CASE Quiet /\ Advances(p)
  <2>1. /\ proc[p].cmd = "validate" /\ Running(p)
        /\ proc'[p].todo = proc[p].todo /\ proc'[p].need = proc[p].need
    <3>1. /\ proc'[p].cmd = proc[p].cmd /\ proc'[p].todo = proc[p].todo
          /\ proc'[p].need = proc[p].need
        BY <1>3 DEF Advances, Moves, Exits, Keeps
    <3> QED BY <1>3, <3>1 DEF Advances, Running, At
  <2>2. Watched(p) /\ NeedsExcuse(p) /\ ValidPc(p)
      BY <2>1 DEF ValidProc
  <2>3. /\ Watched(p)' /\ (Excused(p) => Excused(p)')
        /\ \A o \in proc[p].need : o \in objects' \/ Excused(p)'
        /\ \A r \in since'[p].broken : r \in since[p].broken
      BY <2>1, <2>2, ValidLasts
  <2>4. \/ proc[p].pc = "open" /\ proc'[p].pc = "work"
        \/ /\ proc[p].pc = "open" /\ proc'[p].pc = "exited"
           /\ proc'[p].code # 0 /\ (proc'[p].code = 1 => ~MetadataLoads)
        \/ /\ proc[p].pc = "ends" /\ proc[p].todo = {} /\ proc'[p].pc = "exited"
           /\ proc'[p].code = 1 <=> proc[p].bad
           /\ proc'[p].code = 0 => ~proc[p].bad
        \/ proc'[p].pc = "killed"
    <3>1. proc[p].cmd \notin {"open", "status", "create relationship", "delete", "show", "init"}
                             \cup Lists \cup Mutating
        BY <2>1 DEF Lists, Mutating
    <3> QED BY <1>3, <3>1, Codes DEF Advances, Moves, Exits, At
  <2>5. CASE proc[p].pc = "open" /\ proc'[p].pc = "work"
      BY <2>1, <2>2, <2>3, <2>5 DEF ValidProc, ValidPc, NeedsExcuse, ScanPcs
  <2>6. CASE proc[p].pc = "open" /\ proc'[p].pc = "exited" /\ proc'[p].code # 0
             /\ (proc'[p].code = 1 => ~MetadataLoads)
    <3>1. ~MetadataLoads => Excused(p)'
      <4>1. file' = file
          BY <1>3 DEF Quiet, initVars
      <4> QED BY <4>1, CommandLineAssumption DEF MetadataLoads, Excused
    <3> QED BY <2>6, <3>1 DEF ValidProc, ValidExit, Running
  <2>7. CASE /\ proc[p].pc = "ends" /\ proc[p].todo = {} /\ proc'[p].pc = "exited"
             /\ proc'[p].code = 1 <=> proc[p].bad
             /\ proc'[p].code = 0 => ~proc[p].bad
    <3>1. proc[p].bad => Excused(p)'
        BY <2>2, <2>3, <2>7 DEF ValidPc, ScanPcs
    <3>2. ~proc[p].bad => since[p].broken = {}
        BY <2>2, <2>7 DEF ValidPc, BrokenToLoad
    <3>3. ~proc[p].bad => since'[p].broken = {}
        BY <2>3, <3>2
    <3> QED BY <2>7, <3>1, <3>3 DEF ValidProc, ValidExit, Running
  <2>8. CASE proc'[p].pc = "killed"
      BY <2>8 DEF ValidProc, Running
  <2> QED BY <2>4, <2>5, <2>6, <2>7, <2>8
<1>4. CASE \/ Refuses(p) \/ Mutates(p) \/ Makes(p) \/ Journals(p, "commit", "Committed", 0)
           \/ Journals(p, "rollback", "RolledBack", 1)
  <2>1. proc'[p].cmd = proc[p].cmd
      BY <1>4 DEF Refuses, Mutates, Makes, Journals, Moves, Exits, Keeps
  <2>2. proc[p].pc \in {"open", "work", "exited", "killed"} \cup ScanPcs
      BY <2>1 DEF ValidProc
  <2> QED BY <1>4, <2>1, <2>2 DEF Refuses, Mutates, Makes, Journals, At, Mutating, ScanPcs
<1> QED BY <1>1, <1>2, <1>3, <1>4 DEF Stepped

LEMMA ValidStep ==
    ASSUME ValidInv, Next
    PROVE  ValidInv'
<1>1. Watch /\ HonestInv'
    BY StepsOne DEF ValidInv
<1>2. PICK p \in Procs : Stepped(p)
    BY StepsOne DEF ValidInv
<1>3. Evolves /\ tmp' # Given
    BY <1>2, StepEvolves DEF ValidInv
<1>4. ASSUME NEW q \in Procs PROVE ValidProc(q)'
    BY <1>1, <1>2, <1>3, ValidOther, ValidOwn DEF ValidInv
<1> QED BY <1>1, <1>3, <1>4 DEF ValidInv

\* However commands race, `oep validate` misses no relationship that dangled all along, and
\* when it complains of a repository that was there from the start, something dangled or was
\* removed while it ran: what repository_validator.cpp reads with nothing locked is enough.
THEOREM ValidationsTellTruth == Spec => []ValidateTellsTruth
<1>1. ASSUME Init PROVE ValidInv
  <2>1. \A p \in Procs : proc[p].cmd = "none"
      BY <1>1 DEF Init, Idle
  <2>2. tmp # Given
      BY <1>1, CommandLineAssumption DEF Init
  <2> QED BY <1>1, <2>1, <2>2, HonestInit DEF ValidInv, ValidProc
<1>2. ASSUME ValidInv, UNCHANGED vars PROVE ValidInv'
  <2>1. HonestInv' /\ tmp' # Given
      BY <1>2, HonestStutters DEF ValidInv, vars
  <2>2. ASSUME NEW p \in Procs PROVE ValidProc(p)'
    <3>1. ValidProc(p)
        BY <1>2 DEF ValidInv
    <3> QED BY <1>2, <3>1
            DEF ValidProc, Running, Watched, NeedsExcuse, ValidPc, GoneExcused, BrokenToRead,
                BrokenToLoad, ValidExit, Excused, Dangling, Stored, EndsOf, vars
  <2> QED BY <2>1, <2>2 DEF ValidInv
<1>3. ValidInv /\ [Next]_vars => ValidInv'
    BY <1>2, ValidStep
<1>4. ValidInv => ValidateTellsTruth
    BY DEF ValidInv, ValidProc, ValidExit, Excused, ValidateTellsTruth, Exited
<1> QED BY <1>1, <1>3, <1>4, PTL DEF Spec
=============================================================================
