SPECIFICATION Spec
CONSTANTS
    s1 = s1
    s2 = s2
    h1 = h1
    h2 = h2
    Free = Free
    Scenes <- OneScene
    Handlers <- OneRequest
    MaxJobs = 2
    Cap = 2
    MaxLives = 2
    MaxFailures = 1
CHECK_DEADLOCK FALSE
INVARIANTS TypeOK BusyStatusHasScan AutoIsBaked
