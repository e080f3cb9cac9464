SPECIFICATION FairSpec
CONSTANTS
    j1 = j1
    j2 = j2
    t1 = t1
    h1 = h1
    h2 = h2
    Jobs <- TwoJobs
    Titles <- OneTitle
    Handlers <- OneHandler
    ConcurrencyCap = 2
    MaxLives = 2
    MaxFailures = 1
    Free = Free
    Nobody = Nobody
CHECK_DEADLOCK FALSE
PROPERTY EveryJobEnds
