\* A batch whose journal record cannot be written.
CONSTANTS
    ObjectIds = {o1, o2}
    RelIds = {r1}
    Contents = {c1}
    Absent = Absent
    Torn = Torn
    WriteOutcomes = {"ok"}
    AuditOutcomes = {"ok"}
    JournalOutcomes = {"ok", "failed"}
    Crashes = FALSE
    MaxTransactions = 1
    MaxLog = 2
    MaxBatch = 1
SPECIFICATION Spec
PROPERTY
    FailedBatchLeavesNothing
