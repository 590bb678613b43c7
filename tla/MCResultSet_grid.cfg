SPECIFICATION Spec
CONSTANTS
    Rows <- MCRows
    c1 = c1
    c2 = c2
    Criteria <- MCCriteria
    none = none
    NoCriteria = none
    Servers <- MCServers
    Empty = empty
    Loading = loading
    Unknown = unknown
    PageSize = 2
    UnknownLength = 6
    MaxEvents = 4
SYMMETRY Symmetry
INVARIANTS
    
    LoadingIsComing
    CountIsExact
    
CHECK_DEADLOCK FALSE
