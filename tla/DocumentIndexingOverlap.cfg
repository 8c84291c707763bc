SPECIFICATION Spec
CONSTANTS
    Indexers = {i1, i2}
    Reconcilers = {}
    OneIndexer = FALSE
    CleanupApart = FALSE
    MaxVersion = 2
    MaxDeaths = 0
INVARIANTS
    ActiveIsComplete
CHECK_DEADLOCK FALSE
