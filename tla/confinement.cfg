SPECIFICATION Spec
CONSTANTS
    Platforms = {"darwin", "other"}
    Resources <- MCResources
    Cap <- MCCap
    Inherited <- MCInherited
    Privileges = {TRUE, FALSE}
    MaxRuns = 2
CHECK_DEADLOCK FALSE
INVARIANTS
    ContainmentIsHonest
    CapsHold
    OverrunIsNamed
    NothingLeftBehind
