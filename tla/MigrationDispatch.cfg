SPECIFICATION FairSpec
CONSTANTS
    Invocation = {i1, i2}
    Box = {b1, b2}
    NoBox = NoBox
    MaxDispatch = 2
    MaxGeneration = 2
    MaxKill = 2
CHECK_DEADLOCK FALSE
INVARIANTS
    TypeOK
    RefusalIsRechecked
PROPERTIES
    ChainEnds
    UnstartedBoxEnds
