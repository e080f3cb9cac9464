SPECIFICATION FairSpec
CONSTANTS
    Duration = 6
    Videos <- SixCells
    Requests <- Approved
    MaxTracks = 2
    MaxDrift = 1
    MaxTries = 4
    MayMiss = FALSE
    MaxLives = 3
    NoFile = NoFile
CHECK_DEADLOCK FALSE
INVARIANTS TypeOK PlanIsExact PiecesFitFingerprint EditIsRight
PROPERTY JobEnds
