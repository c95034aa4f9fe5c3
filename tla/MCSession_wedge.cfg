CONSTANTS
    MaxSent = 4
    MaxRecv = 3
    Claims <- HonestOnly
    Faults = {"death"}
SPECIFICATION FairSpec
PROPERTIES
    DriverEndReturns
CHECK_DEADLOCK FALSE
