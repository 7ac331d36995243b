SPECIFICATION FairSpec
CONSTANTS
    NoToken = NoToken
    TokenLives = {1, 4}
    Second = 2
    MaxTime = 7
    EvictionPeriod = 1
    MaxAttempts = 1
    Ctxs = {c1}
    Providers = {"local", "aws", "azure", "kmip"}
    MaxNow = 3
    PatientDriver = TRUE
INVARIANTS
    TypeOK
    KmipFlowFollowed
    ReadyWithWrappedKey
    RequestHandedOut
PROPERTY EveryDatakeyFinishes
CHECK_DEADLOCK FALSE
