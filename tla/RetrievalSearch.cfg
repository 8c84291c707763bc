\* One query at a time, against an index request and a cleanup request.
SPECIFICATION SearchSpec
CONSTANTS
    Indexers = {i1}
    Reconcilers = {r1}
    OneIndexer = TRUE
    CleanupApart = TRUE
    MaxVersion = 3
    MaxDeaths = 2
    Queries = {q1}
    Chunks = {c1, c2}
    Refused = Refused
    Invented = Invented
    K = 60
    Unit = 238266
    MaxTopK = 2
INVARIANTS
    SearchMissesNothing RankingRespectsTheLists AnswersAreGrounded ImagesAreOfServedVersions
    EligibleIsSearchable StaleGenerationsAreMarked
CHECK_DEADLOCK FALSE
