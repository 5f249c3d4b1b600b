SPECIFICATION MortalSpec
CONSTANTS
    MaxCapture = 2
    PipeChunks = 2
    MaxWrites = 4
    Grandchildren = {TRUE, FALSE}
    Interrupts = TRUE
    KillsRefused = TRUE
INVARIANTS
    ReportIsTrue
    SignalsOnlyItsChild
    NothingLeftAlive
    WatchdogKnows
    CaptureIsHonest
PROPERTIES
    FullPipeIsDrained
    UnhinderedHostReturns
