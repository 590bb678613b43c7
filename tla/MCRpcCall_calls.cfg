SPECIFICATION Spec
CONSTANTS
    s1 = s1
    s2 = s2
    a1 = a1
    t1 = t1
    w1 = w1
    w2 = w2
    Calls <- MixedCalls
    SyncCalls <- MixedSync
    Clients <- MCClients
    Workers <- MCWorkers
    NoThread = NoThread
    NoReply = NoReply
    HasTimeout = TRUE
SYMMETRY MixedSymmetry
INVARIANTS
    NotifiedAtMostOnce
    SyncReturnGenuine
    ConnectionReleased
    EveryEndAccounted
