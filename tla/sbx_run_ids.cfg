SPECIFICATION Spec
CONSTANTS
    Procs = {p1, p2}
    Journals = {j1, j2}
    Strategies = {s1, s2}
    MaxEntries = 3
    MaxMishaps = 2
    NoResult = None
INVARIANTS
    RunIdsUnique
SYMMETRY Symmetry
