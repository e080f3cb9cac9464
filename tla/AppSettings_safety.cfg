SPECIFICATION Spec
CONSTANTS
    s1 = s1 s2 = s2
    Absent = Absent
    Savers = {s1, s2}
    Forms <- MCForms
    Files <- MCFiles
    MaxStarts = 3
    MaxActs = 2
SYMMETRY MCSymmetry
INVARIANTS TypeOK ChoicesAreKept UpgradeIsCarriedOver WizardIsForNewcomers SettledIsUsable
CHECK_DEADLOCK FALSE
