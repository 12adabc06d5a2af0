\* Batch files and validations among runtime calls, transactions and crashes on a disk
\* that works.
CONSTANTS
    ObjectIds = {o1, o2}
    RelIds = {r1}
    Contents = {c1}
    Absent = Absent
    Torn = Torn
    WriteOutcomes = {"ok"}
    AuditOutcomes = {"ok"}
    JournalOutcomes = {"ok"}
    Crashes = TRUE
    MaxTransactions = 1
    MaxLog = 2
    MaxBatch = 0
    Refs = {a, b}
    NoRef = NoRef
    MaxFileObjects = 2
    MaxFileRels = 1
SPECIFICATION ValSpec
SYMMETRY Symmetry
INVARIANTS
    ValidationHolds
    RollbackSparesOnlyFiles
    ReportIsExplained
