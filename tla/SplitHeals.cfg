SPECIFICATION FairSpec

CONSTANTS
    MaxDay = 3
    Ex = 2
    Lookahead = 2
    Window = 1

PROPERTIES
    Heals
