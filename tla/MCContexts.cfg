SPECIFICATION FairSpec
CONSTANTS
    c1 = c1
    c2 = c2
    Ctxs = {c1, c2}
    KeyIds = {"k1", "k2", "k3"}
    AltNames = {"n1", "n2"}
    KmsIds = {"aws", "azure", "gcp", "local", "kmip"}
    NoId = NoId
    NoToken = NoToken
    Expiration = 0
    TokenLives = {1}
    Second = 2
    MaxTime = 7
    EvictionPeriod = 1
    Provider <- ProviderDef
    Configured = {"aws", "azure", "local", "kmip"}
    DirectToken = {}
    MaxAttempts = 1
    Scenarios <- AllScenarios
    Server <- ServerDef
    Vault <- VaultDef
    MaxFaults = 1
    MaxExpiries = 1
INVARIANTS
    TypeOK
    FieldsEncrypted
    DecryptedAll
    RewrappedOnce
    NoKmsForgotten
    NeverAborts
    ErrorHasCause
PROPERTY EveryContextEnds
CHECK_DEADLOCK FALSE
