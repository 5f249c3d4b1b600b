SPECIFICATION Spec
CONSTANTS
    PipeFrames = 2
    MaxOrders = 2
    Journals <- MCJournals
    CellFrames <- MCCellFrames
INVARIANTS
    TypeOK
    NoLookAhead
    NextTradeFills
    OrdersAccounted
    FillsNotBackdated
    ExhaustedMeansWhole
PROPERTIES
    ImplementsTimeGate
    HostFinishes
