SPECIFICATION RetriedSpec
CONSTANTS
    Indexers = {i1, i2}
    Reconcilers = {r1}
    OneIndexer = TRUE
    CleanupApart = FALSE
    MaxVersion = 3
    MaxDeaths = 2
INVARIANTS
    TypeOK
    ActiveIsComplete
    SearchableIsNotFailed
PROPERTIES
    GenerationsSpec
    IndexingEnds
CHECK_DEADLOCK FALSE
