SPECIFICATION Spec
CONSTANTS
    Procs = {p1, p2}
    Journals = {j1, j2}
    Strategies = {s1, s2}
    MaxEntries = 2
    MaxMishaps = 2
    NoResult = None
INVARIANTS
    KeptUnderTheirHashes
    RegisteredUnlessOrphaned
    ListingIsTrue
    BlameHasACause
    ReproducedIsGenuine
SYMMETRY Symmetry
