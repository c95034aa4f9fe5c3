CONSTANTS
    MaxSent = 4
    MaxRecv = 3
    Claims <- AllClaims
    Faults = {"death", "cancel", "error"}
SPECIFICATION Spec
INVARIANTS
    IInv
    AcceptWalksOnlyTheSession
    OnlyAJoinDetaches
    GoodbyeFindsEstablished
    OkIsAgreed
    HandlePolledOnce
    ProgressInOrder
PROPERTIES
    ImplementsNotarization
