\* Requests one at a time, with one event or two.
SPECIFICATION Spec
CONSTANTS
    Tenants = {t1}
    LegacyTenant = t1
    NoTenant = NoTenant
    Writers = {w1}
    EventCounts <- OneOrTwoEvents
    OneAtATime = TRUE
    Advances <- DistinctTimes
    MaxEvents = 4
SYMMETRY Interchangeable
INVARIANTS ChainStaysValid
CHECK_DEADLOCK FALSE
