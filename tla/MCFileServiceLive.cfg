SPECIFICATION LiveSpec
CONSTANTS
    Paths <- FlatPaths
    Contents <- MCContents
    EmptyContent <- NoBytes
    MaxVersion = 5
    MaxInt = 7
    Handlers = {h1, h2, h3}
    Requests <- CrossingRequests
    Rank <- FlatRank
    MaxCopies = 1
    UntrackedData <- NothingUntracked
    MaxRequests = 4
    MaxFaults = 1
    Nobody = Nobody
PROPERTY EveryRequestEnds
