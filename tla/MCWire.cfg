CONSTANTS
    Sizes = {1, 2, 3, 4}
    PrefixLen = 2
    MaxPrefix = 3
    MAX_MSG_SIZE = 2
    MaxMessages = 3
    Faults = {"cut", "cancel"}
SPECIFICATION FairSpec
INVARIANTS
    ReadsAreWritesInOrder
PROPERTIES
    WrittenIsRead
    ReaderSeesTheEnd
