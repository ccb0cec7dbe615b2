SPECIFICATION EmptySpec
CONSTANTS
    Paths <- FlatPaths
    Contents <- MCContents
    EmptyContent <- NoBytes
    MaxVersion = 5
    MaxInt = 7
    Handlers = {h1}
    Requests <- ClobberRequests
    Rank <- FlatRank
    MaxCopies = 1
    UntrackedData <- NothingUntracked
    MaxRequests = 3
    MaxFaults = 0
    Nobody = Nobody
INVARIANT MetaDescribesDisk
