SPECIFICATION Spec
CONSTANTS
    Symbol = {s1, s2}
    Runner = {r1, r2}
    Producer = {p1, p2}
    Guarded = {}
    Backfiller = {}
    MaxVersion = 2
    MaxDay = 2
    SampleSize = 1
    PreflightSize = 2
    ChunkSize = 1
    Explored = {"beside"}
SYMMETRY Symmetry
CHECK_DEADLOCK FALSE
INVARIANTS
    RowsStay
