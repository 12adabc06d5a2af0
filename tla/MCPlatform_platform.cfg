\* Archives, trust and the caller's lists, with writes that fail or are cut short, crashes,
\* and allocations that fail; records and journal over a clock, directories that change
\* while they are listed, and an index the records move on under.
CONSTANTS
    ObjectIds = {o1, o2}
    RelIds = {r1}
    Contents = {c1}
    Absent = Absent
    Invalid = Invalid
    AuditOutcomes = {"ok"}
    Packages = {p1}
    TemplateIds = {t1}
    MaxForeign = 2
    Publishers = {pub1, pub2}
    Keys = {k1, k2}
    Signed = {q1}
    Torn = Torn
    WriteOutcomes = {"ok", "failed", "torn"}
    Crashes = TRUE
    MaxTime = 1
    Structs = {s1, s2}
    Arrays = {a1, a2, a3}
    Null = Null
    MayThrow = TRUE
    TxIds = {x1, x2}
    Names = {n1, n2}
    FreshIds = TRUE
    MaxClock = 2
    MaxClosed = 2
    MaxLog = 2
    Dirs = {1, 2}
    PackageIds = {o1, o2}
    NoId = NoId
    MaxChanges = 2
    RecordIds = {i1, i2}
    Queries = {ask}
    Fields <- FiveFields
SPECIFICATION PlatformSpec
SYMMETRY Symmetry
INVARIANTS
    RebuildsAreFaithful
    TrustIsRight
    OwnershipIsRight
    TransactionRecordsAreRight
    PackageListsAreRight
    SearchIsRight
PROPERTIES
    TrustOnlyByAdding
