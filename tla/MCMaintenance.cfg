SPECIFICATION FairSpec
CONSTANTS
    Interval = 0
    MaxDelay = 2
    MaxSince = 2
    MaxLag = 1
    None = None
    Callers = {c1}
    CheckpointInterval = 2
    BackupInterval = 1
    KeepLatest = 1
    MaxFiles = 9
    MaxFaults = 2
    MaxCalls = 1
    Never = Never
    Runner = Runner
INVARIANT LimitAfterBackup
PROPERTY OverdueIsRun
