\* Two requests in flight; only extractions are kept apart from the others.
SPECIFICATION FairSpec
CONSTANTS
    Requests = {s1, s2}
    Findings = {f1}
    HighConfidence = {f1}
    Detectable = {f1}
    ExtractionApart = TRUE
    MaxExtractions = 2
    MaxDecisions = 3
    MaxDeaths = 1
INVARIANTS TypeOK ServedTextIsMasked ReadyMeansDecided
PROPERTIES ExtractionEnds
CHECK_DEADLOCK FALSE
