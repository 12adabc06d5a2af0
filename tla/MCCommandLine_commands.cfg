\* Every command, one at a time, killed anywhere, writes that fail.
CONSTANTS
    Procs = {p1, p2, p3}
    ObjectIds = {o1, o2}
    RelIds = {r1}
    Absent = Absent
    Torn = Torn
    Given = Given
    Commands = {"init", "open", "status", "validate", "create object", "create relationship", "delete", "show", "list objects", "list relationships"}
    Outcomes = {"ok", "failed"}
    Serial = TRUE
    Kills = TRUE
SPECIFICATION Spec
SYMMETRY Symmetry
CHECK_DEADLOCK FALSE
INVARIANTS
    ExitTellsTruth
    ListsTellTruth
    ValidateTellsTruth
    NeverPartial
PROPERTIES
    BetweenStored
    IdentityIsKept
