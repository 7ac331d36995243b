SPECIFICATION FairSpec
CONSTANTS
    Responses <- MCResponses
    Extras <- SomeExtras
    Damage = TRUE
    MaxResponse = 24
    MaxRead = 8
INVARIANTS
    ResponseAsSent
    NeverOverAsks
PROPERTY ResponseReceived
CHECK_DEADLOCK FALSE
