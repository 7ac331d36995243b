SPECIFICATION Spec
CONSTANTS
    k1 = k1
    k2 = k2
    a = a
    KeyIds = {k1, k2}
    AltNames = {a}
    KmsIds = {"local"}
    NoId = NoId
    NoToken = NoToken
    Expiration = 0
    TokenLives = {1}
    Second = 2
    MaxTime = 7
    EvictionPeriod = 1
    Provider <- ProviderDef
    Configured = {"local"}
    DirectToken = {}
    MaxAttempts = 1
    Ctxs = {c1}
    c1 = c1
    c2 = c2
    Docs <- DocsMoved
    MaxNow = 0
    MaxRounds = 0
    PatientDriver = TRUE
INVARIANTS
    AnyModeKeepsKeys
