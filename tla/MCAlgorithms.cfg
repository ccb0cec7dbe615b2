SPECIFICATION Spec
CONSTANTS
    MaxInt = 7
    Bytes = {0, 1}
    MaxData = 2
    HotPaths = {1, 2}
    Threshold = 4
    Window = 1
    BurstMinimum = 2
    SampleSize = 3
    Durations = {1, 2, 3, 4}
    MaxWrites = 5
    MaxSamples = 6
    Marker <- TruncationMarker
    LogLimit = 4
    DefaultNumber = 7
    DefaultCopies = 5
    DefaultList <- MCDefaultList
    MaxLog = 7
    MaxComponents = 5
INVARIANTS
    CopyShowsTheEdit
    SnapshotIsExact
    PathsHaveOneForm
    ConfigurationsSettle
    PathsLieInBase
    TargetsAsAsked
    BundlesConnect
    LogEndsRight
CHECK_DEADLOCK FALSE
