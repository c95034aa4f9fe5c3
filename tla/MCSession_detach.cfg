CONSTANTS
    MaxSent = 4
    MaxRecv = 3
    Claims <- HonestOnly
    Faults = {"death", "cancel"}
SPECIFICATION Spec
INVARIANTS
    ExitAbortsTasks
