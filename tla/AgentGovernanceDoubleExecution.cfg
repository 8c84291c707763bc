SPECIFICATION Spec
CONSTANTS
    Runs = {r1}
    Sessions = {s1, s2}
    asha = asha
    bala = bala
    chitra = chitra
    report = report
    foreign = foreign
    Users <- MCOneTenant
    Docs <- MCOneDoc
    Requesters <- MCOneTenant
    Approvers <- MCOneTenant
    Executors <- MCOneTenant
    TenantOf <- MCTenantOf
    NoRun = NoRun
    NoUser = NoUser
    NoDoc = NoDoc
    RowLocks = FALSE
    Ttl = 1
    MaxTime = 0
    MaxDocVersion = 1
    MaxEpoch = 0
INVARIANTS AtMostOneToolCall
CHECK_DEADLOCK FALSE
