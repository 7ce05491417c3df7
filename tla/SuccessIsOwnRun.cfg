SPECIFICATION Spec
CONSTANTS
    MaxExecution = 2
    Run = {r1, r2}
    None = None
CHECK_DEADLOCK FALSE
INVARIANTS
    SuccessIsOwnRun
