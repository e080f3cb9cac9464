SPECIFICATION Spec
CONSTANTS
    None = None
    Duration = 6
    Intervals = {1, 2, 3}
    ChunkSeconds = 3
    Concurrency = 2
    Flaky = {3}
    MergeGap = 2
    MinDuration = 2
    VerifyPad = 1
    VerifyMaxPad = 3
    MaxCrashes = 2
INVARIANTS TypeOK OnlyFirstSkipped GapsAreShort CheckpointFitsStamp ClusteringIsExact SceneIsWhole
PROPERTY ScanIsDone
CHECK_DEADLOCK FALSE
