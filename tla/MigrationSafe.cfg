SPECIFICATION Spec
CONSTANTS
    Symbol = {s1, s2}
    Runner = {r1, r2}
    Producer = {p1, p2}
    Guarded = {p1, p2}
    Backfiller = {p1, p2}
    MaxVersion = 2
    MaxDay = 2
    SampleSize = 1
    PreflightSize = 1
    ChunkSize = 1
    Explored = {"blind"}
SYMMETRY Symmetry
CHECK_DEADLOCK FALSE
INVARIANTS
    TypeOK
    NoSymbolBelowStamp
    AcceptedAppendFits
    NoAppendLost
    SuccessMeansMigrated
    ProbeNeverShadows
PROPERTIES
    StampAdvancesByOne
    ImplementsLibrary
