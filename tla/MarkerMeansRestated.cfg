SPECIFICATION Spec

CONSTANTS
    MaxDay = 4
    Ex = 3
    Lookahead = 2
    Window = 1

INVARIANTS
    MarkerMeansRestated
