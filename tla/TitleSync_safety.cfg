SPECIFICATION Spec
CONSTANTS
    e1 = e1 e2 = e2 mp4 = mp4 mkv = mkv ep2 = ep2
    None = None
    t1 = t1 t2 = t2
    Items = {e1, e2}
    Files = {mp4, mkv, ep2}
    Mkv = {mkv, ep2}
    Subtitled = {mkv}
    Tasks = {t1, t2}
    Holds <- MCHolds
    Library <- MCLibrary
    FirstFile <- MCFirstFile
    Audio = {TRUE}
    MaxRows = 3
    MaxPolls = 1
    MaxSyncs = 1
    MaxAsks = 1
    MaxLives = 2
SYMMETRY MCSymmetry
INVARIANTS TypeOK UpgradeKeepsTitle WaitingIsWatched
PROPERTY QuietSyncRepairs
CHECK_DEADLOCK FALSE
