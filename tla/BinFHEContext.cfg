CONSTANTS
    sk1 = sk1
    sk2 = sk2
    NullKey = NullKey
    NoEntry = NoEntry
    SecretKeys <- MCSecretKeys
    Kinds = {"LWE", "MNTRU", "MKLWE"}
    SetBases <- MCSetBases
    LogQs <- MCLogQs
    MaxGenerate = 2
    MaxLoads = 0
SPECIFICATION Spec
SYMMETRY Symm
INVARIANTS
    TypeOK
    KeyForItsBase
    EvalSound
CHECK_DEADLOCK FALSE
