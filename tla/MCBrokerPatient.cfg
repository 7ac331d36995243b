SPECIFICATION FairSpec
CONSTANTS
    k1 = k1
    k2 = k2
    a = a
    KeyIds = {k1, k2}
    AltNames = {}
    KmsIds = {"azure", "aws"}
    NoId = NoId
    NoToken = NoToken
    Expiration = 1
    TokenLives <- LivesWide
    Second = 2
    MaxTime = 7
    EvictionPeriod = 1
    Provider <- ProviderDef
    Configured = {"azure", "aws"}
    DirectToken = {}
    MaxAttempts = 1
    Ctxs = {c1}
    c1 = c1
    c2 = c2
    Docs <- DocsRetried
    MaxNow = 2
    MaxRounds = 1
    PatientDriver = TRUE
INVARIANTS
    NoKmsSkipped
    OnlyLifetimesAbort
PROPERTY EveryContextFinishes
CHECK_DEADLOCK FALSE
