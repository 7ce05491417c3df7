SPECIFICATION Spec
CONSTANTS
    Invocation = {i1, i2}
    Box = {b1, b2, b3}
    NoBox = NoBox
    MaxDispatch = 2
    MaxGeneration = 3
    MaxKill = 1
SYMMETRY Symmetry
CHECK_DEADLOCK FALSE
INVARIANTS
    OneBoxPerHead
