\* Is every rollback exact, on a disk that works?
CONSTANTS
    ObjectIds = {o1, o2}
    RelIds = {r1}
    Contents = {c1}
    Absent = Absent
    Torn = Torn
    WriteOutcomes = {"ok"}
    AuditOutcomes = {"ok"}
    JournalOutcomes = {"ok"}
    Crashes = FALSE
    MaxTransactions = 1
    MaxLog = 2
    MaxBatch = 0
SPECIFICATION Spec
INVARIANT
    RollbackIsExact
