SPECIFICATION Spec
CONSTANTS
    k1 = k1
    k2 = k2
    a = a
    KeyIds = {k1, k2}
    AltNames = {a}
    KmsIds = {"local","aws","kmip"}
    NoId = NoId
    NoToken = NoToken
    Expiration = 0
    TokenLives = {1}
    Second = 2
    MaxTime = 7
    EvictionPeriod = 1
    Provider <- ProviderDef
    Configured = {"local","aws","kmip"}
    DirectToken = {}
    MaxAttempts = 0
    Ctxs = {c1, c2}
    c1 = c1
    c2 = c2
    Docs <- DocsShared
    MaxNow = 0
    MaxRounds = 0
    PatientDriver = TRUE
INVARIANTS
    KeysAvailable
    CacheUnambiguous
SYMMETRY CtxSymmetry
VIEW FailedAlike
