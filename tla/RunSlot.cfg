SPECIFICATION RerunSpec
CONSTANTS
    Execution = {e1, e2, e3}
    Rerun = {k1}
    Attended = TRUE
    Free = Free
SYMMETRY Symmetry
CHECK_DEADLOCK FALSE
INVARIANTS
    RerunTypeOK
    MutualExclusion
PROPERTIES
    LiveHolderKeepsSlot
    SucceededSlotRefuses
    ImplementsRunSlot
