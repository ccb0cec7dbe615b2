SPECIFICATION Spec
CONSTANTS
    Interval = 0
    MaxDelay = 2
    MaxSince = 2
    MaxLag = 1
    None = None
    Callers = {c1, c2}
    CheckpointInterval = 2
    BackupInterval = 1
    KeepLatest = 1
    MaxFiles = 9
    MaxFaults = 1
    MaxCalls = 2
    Never = Never
    Runner = Runner
PROPERTY NewestBackupKept
