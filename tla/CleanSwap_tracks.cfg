SPECIFICATION Spec
CONSTANTS
    r1 = r1
    r2 = r2
    o1 = o1
    o2 = o2
    Clean = Clean
    Free = Free
    Runs <- TwoRuns
    Paths <- OneUpgrade
    Originals <- Tracks
    TagsStick = TRUE
    BackupSettings = {TRUE, FALSE}
    MayCrash = FALSE
    MaxLives = 1
INVARIANT EveryFileKeepsOriginals
CHECK_DEADLOCK FALSE
