SPECIFICATION FairSpec
CONSTANTS
    Interval = 0
    MaxDelay = 1
    MaxSince = 1
    MaxLag = 1
    None = None
    Units = {u1, u2}
    Workers = 1
    JobTTL = 1
    MaxRetainedJobs = 1
    MaxRetainedBytes = 1
    Outcomes <- MCOutcomes
    MaxJobs = 2
    MaxFaults = 1
    NoJob = NoJob
INVARIANTS BuildsApart LiveBuildKept KnownProductReadable LimitsHold
PROPERTIES EveryJobEnds
CHECK_DEADLOCK FALSE
