\* Long call sequences on a disk that works, no crash.
CONSTANTS
    ObjectIds = {o1, o2}
    RelIds = {r1}
    Contents = {c1, c2}
    Absent = Absent
    Torn = Torn
    WriteOutcomes = {"ok"}
    AuditOutcomes = {"ok"}
    JournalOutcomes = {"ok"}
    Crashes = FALSE
    MaxTransactions = 2
    MaxLog = 3
    MaxBatch = 2
SPECIFICATION Spec
SYMMETRY Symmetry
INVARIANTS
    NoStrandedTransaction
    UndoFailsOnlyOnMissingEndpoint
    ObjectsAlwaysRestored
    JournalComplete
PROPERTIES
    FailedBatchLeavesNothing
