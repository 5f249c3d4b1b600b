SPECIFICATION FairLockSpec
CONSTANTS
    MaxCapture = 1
    PipeChunks = 1
    MaxWrites = 1
    Grandchildren = {FALSE}
    Interrupts = TRUE
    KillsRefused = FALSE
PROPERTIES
    HostReturns
