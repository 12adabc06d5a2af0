\* Every file write, audit event and journal record may fail and the process may
\* die between any two steps.
CONSTANTS
    ObjectIds = {o1, o2}
    RelIds = {r1}
    Contents = {c1, c2}
    Absent = Absent
    Torn = Torn
    WriteOutcomes = {"ok", "failed"}
    AuditOutcomes = {"ok", "failed"}
    JournalOutcomes = {"ok", "failed"}
    Crashes = TRUE
    MaxTransactions = 2
    MaxLog = 2
    MaxBatch = 1
SPECIFICATION Spec
SYMMETRY Symmetry
INVARIANTS
    RollbackInv
    RolledBackMeansRestored
PROPERTIES
    AtomicSpec
