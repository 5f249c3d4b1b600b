SPECIFICATION Spec
CONSTANTS
    PREC = 3
    MAX_DECIMAL_PLACES = 1
    MAX_MAGNITUDE_DIGITS = 1
    Sizes <- MCSizes
    Prices <- MCPrices
    MaxTicks = 2
INVARIANTS
    ExactWithinPrecision
    ReproducedBooksAgree
    DivergenceIsFirst
CHECK_DEADLOCK FALSE
