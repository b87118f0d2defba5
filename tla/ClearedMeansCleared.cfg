CONSTANTS
    sk1 = sk1
    sk2 = sk2
    NullKey = NullKey
    NoEntry = NoEntry
    SecretKeys <- MCSecretKeys
    Kinds = {"LWE", "MNTRU", "MKLWE"}
    SetBases <- MCSetBases
    LogQs <- MCLogQs
    MaxGenerate = 2
    MaxLoads = 2
SPECIFICATION Spec
SYMMETRY Symm
INVARIANT ClearedMeansCleared
CHECK_DEADLOCK FALSE
