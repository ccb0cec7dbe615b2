SPECIFICATION TreeSpec
CONSTANTS
    Paths <- TreePaths
    Contents <- MCContents
    EmptyContent <- NoBytes
    MaxVersion = 4
    MaxInt = 7
    Handlers = {h1, h2}
    Requests <- TreeRequests
    Rank <- TreeRank
    MaxCopies = 1
    UntrackedData <- TreeUntracked
    MaxRequests = 3
    MaxFaults = 1
    Nobody = Nobody
INVARIANTS
    DiskMatchesDatabase
    BaseStillCurrentAtCommit
    NoCircularWait
    HistoryContiguous
    MetaIsNewestSnapshot
PROPERTIES
    AcknowledgedIsOnDisk
    ConflictCopyKept
    HistoryPreserved
    VersionsAdvance
    ImplementsRegister
SYMMETRY HandlerSymmetry
