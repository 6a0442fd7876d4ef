\* One plan, addresses that move between its nodes, two preflight commands.
SPECIFICATION RehearsalSpec
CONSTANTS
    w1 = w1  w2 = w2  c1 = c1  c2 = c2  n1 = n1  n2 = n2  x1 = x1
    Writers = {w1}
    Checks = {f1, f2}
    Keys = {k1, k2}
    CreditRuns = {c1}
    Nodes = {n1, n2}
    Addresses = {a1, a2}
    NoAddress = NoAddress
    Credits <- OneRun
    Corrections = {}
    NoCorrection = NoCorrection
    AnyRun = AnyRun
    CorrectionOf <- NoCorrections
    Requests <- PlainRequests
    Limits <- WalletLimits
    TargetSingle = 6
    FallbackChunk = 3
    SomeInputs = 2
    ManyInputs = 8
    ManyCoins = 50
    Advisors = {v1}
    Trials = {t1, t2}
    Wallets <- SomeWallets
    Options <- SomeOptions
CHECK_DEADLOCK FALSE
SYMMETRY Symmetry
INVARIANT RehearsalsSound
