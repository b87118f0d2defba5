CONSTANTS
    sk1 = sk1
    sk2 = sk2
    NullKey = NullKey
    NoEntry = NoEntry
    SecretKeys <- OneSecretKey
    Kinds = {"LWE"}
    SetBases <- MCSetBases
    LogQs <- MCLogQs
    MaxGenerate = 2
    MaxLoads = 2
SPECIFICATION Spec
PROPERTIES
    BaseRestored
    PowersKept
CHECK_DEADLOCK FALSE
