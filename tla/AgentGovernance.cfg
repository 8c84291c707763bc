\* One run, two handlers in flight, both tenants, row locks (PostgreSQL).
SPECIFICATION FairSpec
CONSTANTS
    Runs = {r1}
    Sessions = {s1, s2}
    asha = asha
    bala = bala
    chitra = chitra
    report = report
    foreign = foreign
    Users <- MCUsers
    Docs <- MCDocs
    Requesters <- MCRequesters
    Approvers <- MCApprovers
    Executors <- MCExecutors
    TenantOf <- MCTenantOf
    NoRun = NoRun
    NoUser = NoUser
    NoDoc = NoDoc
    RowLocks = TRUE
    Ttl = 1
    MaxTime = 2
    MaxDocVersion = 2
    MaxEpoch = 1
INVARIANTS TypeOK AtMostOneToolCall CallsWereAuthorised RunMatchesApproval ReviewerOnRecordApproved
PROPERTIES ApprovalsFollowTheTable DoomedRunsNeverStart GateSpec CallsAreResolved
CHECK_DEADLOCK FALSE
