\* Requests that overlap, with one event or two.
SPECIFICATION Spec
CONSTANTS
    Tenants = {t1, t2}
    LegacyTenant = t1
    NoTenant = NoTenant
    Writers = {w1, w2}
    EventCounts <- OneOrTwoEvents
    OneAtATime = FALSE
    Advances <- AnyTimes
    MaxEvents = 4
SYMMETRY Interchangeable
INVARIANTS OnlyForksAndTiesBreakTheChain
CHECK_DEADLOCK FALSE
