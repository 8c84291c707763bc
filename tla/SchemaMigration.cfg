\* Two migrations, any database, both backends, one URL or a relative one.
SPECIFICATION RetriedSpec
CONSTANTS
    Migrators = {m1, m2}
    MaxCrashes = 2
INVARIANTS ServingIsAtHead NothingIsStranded RecordedIsBuilt
PROPERTIES RefusedIsUntouched MigratedInTheEnd
