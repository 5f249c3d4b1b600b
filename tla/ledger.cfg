SPECIFICATION Spec
CONSTANTS
    Appenders = {a1, a2}
    Readers = {r1}
    LineBytes = 2
    MaxRecords = 3
    Faults = {"short", "crash", "power"}
    NoOne = NoOne
INVARIANTS
    NeverBricked
    AcknowledgedSurvives
    ReadsAreSnapshots
PROPERTIES
    LockIsReleased
    AppendOnly
