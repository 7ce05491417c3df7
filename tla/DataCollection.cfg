SPECIFICATION BudgetSpec
CONSTANTS
    a = a
    b = b
    c = c
    Unit <- MCUnit
    UnitsOf <- MCUnitsOf
    Verified <- MCNamed
    Waited <- MCNamed
    Ends = {"ok", "failed", "noop"}
    Earlier = {"ok", "failed"}
    Escapes = {}
    Box = {b1}
    NoBox = NoBox
    Cap = 1
    Lag = 1
CHECK_DEADLOCK FALSE
INVARIANTS
    TypeOK
    SuccessMeansPublished
    BudgetCoversFirstAttempts
PROPERTIES
    FailedTwiceIsFinal
