SPECIFICATION Spec
CONSTANTS
    r1 = r1
    r2 = r2
    o1 = o1
    o2 = o2
    Clean = Clean
    Free = Free
    Runs <- OneRun
    Paths <- OneFile
    Originals <- Tracks
    TagsStick = TRUE
    BackupSettings = {TRUE, FALSE}
    MayCrash = FALSE
    MaxLives = 2
INVARIANT VideoNeverMissing
CHECK_DEADLOCK FALSE
