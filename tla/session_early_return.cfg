SPECIFICATION Spec
CONSTANTS
    PipeFrames = 1
    MaxOrders = 2
    Journals <- MCJournals
    Strategies <- MCStrategies
INVARIANTS
    EarlyReturnIsNotFailure
