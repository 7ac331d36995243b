SPECIFICATION FairSpec
CONSTANTS
    MaxAttempts = 3
    Types <- ReqTypes
    Statuses <- AllStatuses
    MaxParts = 2
INVARIANTS
    TypeOK
    OneResponse
    RetriesBounded
PROPERTIES
    ImplementsView
    Settles
CHECK_DEADLOCK FALSE
