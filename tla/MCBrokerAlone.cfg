SPECIFICATION Spec
CONSTANTS
    k1 = k1
    k2 = k2
    a = a
    KeyIds = {k1, k2}
    AltNames = {a}
    KmsIds = {"local", "azure", "azure2", "aws", "kmip"}
    NoId = NoId
    NoToken = NoToken
    Expiration = 1
    TokenLives = {1}
    Second = 2
    MaxTime = 7
    EvictionPeriod = 1
    Provider <- ProviderDef
    Configured = {"local", "azure", "aws", "kmip"}
    DirectToken = {}
    MaxAttempts = 1
    Ctxs = {c1}
    c1 = c1
    c2 = c2
    Docs <- DocsAlone
    MaxNow = 1
    MaxRounds = 1
    PatientDriver = FALSE
INVARIANTS
    TypeOK
    ReturnedKeysDistinct
    FilterCoversRequests
    OneAuthPerKms
PROPERTY StaysSatisfied
CHECK_DEADLOCK FALSE
VIEW FailedAlike
