CONSTANTS
    Codes <- SomeCodes
    Visits = 2
SPECIFICATION FairSpec
INVARIANTS
    CodeIsTheConsents
    NoExitUnderALiveSession
    FileIsOneCeremony
    CredentialsAreNotWritten
PROPERTIES
    CaptureEnds
