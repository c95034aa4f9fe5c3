CONSTANTS
    MaxSent = 4
    MaxRecv = 3
    Claims <- AllClaims
    Faults = {"death", "cancel"}
SPECIFICATION FairSpec
PROPERTIES
    FaultFreeSessionEnds
    EarlyDeathReported
    DriverEndsAfterExit
