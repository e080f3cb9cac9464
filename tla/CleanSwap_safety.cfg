SPECIFICATION FairSpec
CONSTANTS
    r1 = r1
    r2 = r2
    o1 = o1
    o2 = o2
    Clean = Clean
    Free = Free
    Runs <- TwoRuns
    Paths <- OneUpgrade
    Originals <- Tracks
    TagsStick = TRUE
    BackupSettings = {TRUE, FALSE}
    MayCrash = TRUE
    MaxLives = 2
INVARIANTS TypeOK KeepsOriginals NoStackedTracks Recoverable DoneMeansClean
PROPERTY VideoComesBack
CHECK_DEADLOCK FALSE
