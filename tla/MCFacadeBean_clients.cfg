SPECIFICATION Spec
CONSTANTS
    c1 = c1
    c2 = c2
    c3 = c3
    c4 = c4
    Clients <- FourClients
    MaxRedeployments = 2
SYMMETRY ClientSymmetry
INVARIANTS
    AllOrNothing
    DuplicatesOverlapped
    NullOnlyAfterDrop
CHECK_DEADLOCK FALSE
