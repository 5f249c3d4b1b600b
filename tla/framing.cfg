SPECIFICATION Spec
CONSTANTS
    MAX_FRAME_BYTES = 2
    Messages <- MCMessages
    Noise <- MCNoise
    MaxStream = 12
CHECK_DEADLOCK FALSE
INVARIANTS
    StreamIsCut
    VerdictIsTrue
    MessagesArrive
PROPERTY
    ReaderEnds
