\* Requests of one event, one at a time in each tenant.
SPECIFICATION Spec
CONSTANTS
    Tenants = {t1, t2}
    LegacyTenant = t1
    NoTenant = NoTenant
    Writers = {w1, w2}
    EventCounts <- OneEvent
    OneAtATime = TRUE
    Advances <- DistinctTimes
    MaxEvents = 5
SYMMETRY Interchangeable
INVARIANTS ChainStaysValid ModificationIsDetected
CHECK_DEADLOCK FALSE
