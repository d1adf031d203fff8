SPECIFICATION Spec
CONSTANTS
    MaxIndex = 50
    Parties = {p, q}
    Kinds = {46}
    Ids = {0, 2, 3}
    Paths <- AllPaths
    MaxLoads = 2
    MaxUpdates = 1
    MaxSigned = 2
INVARIANTS
    IterationIsInfinite
CHECK_DEADLOCK FALSE
SYMMETRY Symmetry
