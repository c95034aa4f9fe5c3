CONSTANTS
    Lists <- LocalLists
    ValidKeys = {"key1", "key2"}
    KmsKeys = {"kms1", "kms2"}
    MaxMoves = 0
    Curve <- Points
    Digests = {"d1", "d2"}
SPECIFICATION Spec
INVARIANTS
    PoolSlotsDistinctKeys
