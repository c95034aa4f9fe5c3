CONSTANTS
    Sessions <- AllSessions
    MaxOffset = 6
    MaxLen = 6
    Recvs = {5, 6}
    Requests <- SmallRequests
    Pipe = 3
    Buf = 2
    Answer = 2
SPECIFICATION CeremonySpec
INVARIANTS
    TypeOK
    RefusesOnlyTheIndescribable
    BlocksHoldTheirDirection
    ExchangeReturnsTheRequest
    LaidOutSessionIsRecorded
    OpeningFoundByRanges
    FixtureIsReproducible
    ForwardPassDecodes
    RecordFitsTheResponse
    ServiceRefusesOnlyCredentials
