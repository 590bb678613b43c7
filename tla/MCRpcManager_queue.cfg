SPECIFICATION Spec
CONSTANTS
    Kinds <- MCKinds
    MaxRequests = 2
    MaxDisturbances = 2

    
    
    
    
    
PROPERTIES
    
    NoAnswerAfterClear
