\* Decimals with the coefficient at which normalisation stops early.
SPECIFICATION Spec
CONSTANTS
    Fields <- MCDecimalFields
    MaxDocs = 2
    UserKey = 101
    IndexKeyId = 102
    OtherKey = 103
    CtrBlocks = 9
    Bits32 = 3
    Bits64 = 6
    Bits128 = 7
    Ten = 3
    UnitDigits = 1
    MantissaBits = 5
    DecDigits = 2
    DecExpMax = 4
    Int128MaxDec = 63
    ExpLimit = 3
    SparsityDefault = 2
    TrimFactorDefault = 2
    Alphabet <- MCAlphabet
    Width <- MCWidth
    Lower <- MCLower
    Strip <- MCStrip
    BadChar = 0
    CipherBlock = 4
    OverheadBytes = 2
    MaxEncodeBytes = 6
    BlockLen = 4
    ByteValues = 3
    CounterBytes = 2
    RandBits = 3
    Int64Max = 7
    Int32Max = 1
INVARIANT RhoIsGreatest
