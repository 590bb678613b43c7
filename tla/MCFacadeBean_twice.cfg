SPECIFICATION Spec
CONSTANTS
    c1 = c1
    c2 = c2
    c3 = c3
    c4 = c4
    Clients <- TwoClients
    MaxRedeployments = 0
INVARIANTS
    FindsOneOrNull
CHECK_DEADLOCK FALSE
