SPECIFICATION FairSpec
CONSTANTS
    MaxExecution = 2
    Run = {r1, r2}
    None = None
CHECK_DEADLOCK FALSE
INVARIANTS
    TypeOK
    OneBoxPerLane
    OneCycleLaunches
PROPERTIES
    ImplementsTurns
    DeathIsClosed
    CycleEnds
    BoxEnds
