CONSTANT
    MaxLen = 6
SPECIFICATION Spec
INVARIANTS
    LayoutInv
    Tiles
    SpansAreProper
    SecretIsOneCommitment
