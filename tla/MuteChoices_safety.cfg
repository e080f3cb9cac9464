SPECIFICATION Spec
CONSTANTS
    w1 = w1
    w2 = w2
    e1 = e1
    Words = {w1, w2}
    MaxCues = 2
    Says <- TwoCues
    Editors = {e1}
    MaxJobs = 3
    MaxVersion = 2
    MaxBlock = 1
INVARIANTS TypeOK UpToDateIsCurrent KeepsAreHonoured
CHECK_DEADLOCK FALSE
