\* Two write-draft commands, with and without the same correction.
SPECIFICATION FairSpec
CONSTANTS
    w1 = w1  w2 = w2  c1 = c1  c2 = c2  n1 = n1  n2 = n2  x1 = x1
    Writers = {w1, w2}
    Checks = {}
    Keys = {k1}
    CreditRuns = {c1, c2}
    Nodes = {n1, n2}
    Addresses = {a1, a2}
    NoAddress = NoAddress
    Credits <- TwoRuns
    Corrections = {x1}
    NoCorrection = NoCorrection
    AnyRun = AnyRun
    CorrectionOf <- OneCorrection
    Requests <- AllRequests
    Limits <- SomeLimits
CHECK_DEADLOCK FALSE
INVARIANT CorrectionDeductedOnce
INVARIANT PlanIsWhole
PROPERTY PlansMoveOn
PROPERTY WritersEnd
INVARIANT PlanTablesSound
