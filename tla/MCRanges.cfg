CONSTANTS
    Responses <- AllResponses
    Size <- SizeDigits
    MaxChunk = 17
SPECIFICATION Spec
INVARIANTS
    RangesAreWholeMembers
    UnsplitMemberIsFound
    TruncatedBodyYieldsNothing
