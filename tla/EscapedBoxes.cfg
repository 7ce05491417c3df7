SPECIFICATION FairSpec
CONSTANTS
    a = a
    b = b
    c = c
    Unit <- MCSingle
    UnitsOf <- MCSingleOf
    Verified <- MCSingle
    Waited <- MCSingle
    Ends = {"ok", "short", "empty", "failed", "noop"}
    Earlier = {"ok"}
    Escapes = {"abandoned", "unanswered"}
    Box = {b1, b2}
    NoBox = NoBox
    Cap = 1
    Lag = 0
CHECK_DEADLOCK FALSE
PROPERTIES
    FailedTwiceIsFinal
    GoSeesThisCycle
    CollectionEnds
    WaitEnds
