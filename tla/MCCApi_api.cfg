\* Calls, batches and transactions of one handle, in any order, until it is destroyed.
CONSTANTS
    ObjectIds = {o1, o2}
    RelIds = {r1}
    Contents = {c1}
    Absent = Absent
    Torn = Torn
    WriteOutcomes = {"ok"}
    AuditOutcomes = {"ok"}
    JournalOutcomes = {"ok"}
    Crashes = FALSE
    MaxTransactions = 2
    MaxLog = 2
    MaxBatch = 2
SPECIFICATION ApiFairSpec
INVARIANTS
    LedgerRight
    IndexMeansRolledBack
    QueriesAgree
PROPERTIES
    ApiCallsReturn
