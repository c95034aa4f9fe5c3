CONSTANTS
    Lists <- AllLists
    ValidKeys = {"key1", "key2"}
    KmsKeys = {"kms1", "kms2"}
    MaxMoves = 1
    Curve <- Points
    Digests = {"d1", "d2"}
SPECIFICATION Spec
INVARIANTS
    TypeOK
    ListIsTakenOrRefusedWhole
    OneIdentityPerSlot
    ClaimsRecover
