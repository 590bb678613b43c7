SPECIFICATION Spec
CONSTANTS
    a = a
    b = b
    c = c
    Ids <- MCIds
    NoId = NoId
    MaxCalls = 3
    MaxVisits = 2
SYMMETRY Symmetry
INVARIANTS
    
    SavedIsLatest
    AppFollows
    OwnStatesSilent
CHECK_DEADLOCK FALSE
