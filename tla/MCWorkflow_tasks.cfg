SPECIFICATION Spec
CONSTANTS
    Process = "process"
    None = "none"
    End = "end"
    Definitions <- MCDefinitions
    MaxRestarts = 2
INVARIANTS
    TypeOK
    OneAtATime
    
PROPERTIES
    FollowsDefinition
    LoopEnds
CHECK_DEADLOCK FALSE
