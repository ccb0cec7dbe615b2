SPECIFICATION FairSpec
CONSTANTS
    Interval = 2
    MaxDelay = 2
    MaxSince = 2
    MaxLag = 1
    None = None
    OwnLines = TRUE
    Retention = 1
    MaxBytes = 2
    Sizes = {1, 2}
    MaxFiles = 2
    MaxWrites = 3
    MaxFaults = 1
INVARIANTS DueHonoured OldestGoAndLimitHolds
PROPERTIES TriggerServed CloseReturns ExpiredRemoved
CHECK_DEADLOCK FALSE
