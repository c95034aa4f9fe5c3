CONSTANTS
    Codes <- SomeCodes
    Visits = 2
SPECIFICATION Spec
INVARIANTS
    NeverWritten
