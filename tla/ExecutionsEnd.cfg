CONSTANTS
    p1 = p1
    k1 = k1
    k2 = k2
    a1 = a1
    a2 = a2
    r1 = r1
    r2 = r2
    Plans = {p1}
    Keys = {k1, k2}
    Addresses = {a1, a2}
    PlanRows <- MCPlanRows
    Runs = {r1, r2}
    Invocations <- RaceInvocations
    WalletQuant = 2
    TrustedAtStart = 22
    MaxConcurrentRuns = 2
    MaxFailures = 2
SPECIFICATION FairSpec
CHECK_DEADLOCK FALSE
INVARIANT RecordInv
PROPERTY ImplementsPaymentOrder
PROPERTY RunsEnd
