SPECIFICATION Spec
CONSTANTS
    None = None
    Duration = 5
    Intervals = {1, 2}
    ChunkSeconds = 4
    Concurrency = 2
    Flaky = {3}
    MergeGap = 2
    MinDuration = 2
    VerifyPad = 1
    VerifyMaxPad = 3
    MaxCrashes = 2
INVARIANT NothingSkipped
CHECK_DEADLOCK FALSE
