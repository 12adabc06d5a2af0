\* Installs, user mutations, crashes and retries: what an install leaves in the stores,
\* what the registry answers and what the views show afterwards.
CONSTANTS
    ObjectIds = {o1, o2}
    RelIds = {r1}
    Contents = {c1}
    Absent = Absent
    Torn = Torn
    WriteOutcomes = {"ok"}
    RegistryOutcomes = {"ok", "failed", "torn"}
    AuditOutcomes = {"ok"}
    JournalOutcomes = {"ok"}
    Crashes = TRUE
    MaxTransactions = 3
    MaxLog = 2
    MaxBatch = 0
    Packages = {p1, p2}
    Generated = Generated
    Nobody = Nobody
    Unbuilt = Unbuilt
    Titles <- NoTitles
SPECIFICATION ViewsSpec
SYMMETRY Symmetry
VIEW InstallView
INVARIANTS
    InstallInv
    FailedInstallLeavesNothing
    RegistryTellsTruth
    InstalledIsIndexed
    AbsentIsAudited
PROPERTIES
    RegisteredWhole
    RollbackKeepsViewsTrue
