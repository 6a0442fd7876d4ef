CONSTANTS
    r1 = r1
    r2 = r2
    r3 = r3
    timer = timer
    tick = tick
    writer = writer
    Rewards <- MCRewards
    Time <- MCTime
    Amount <- MCAmount
    Id <- MCId
    Ticks <- MCTicks
    Timer = timer
    Writers <- MCWriters
    Casts <- MCCasts
    Windows <- MCWindows
    Baseline = 1
    FirstBalances <- MCFirstBalances
    MaxFaults = 1
SPECIFICATION Spec
CONSTRAINT SecondInOrder
INVARIANT CountsWhatItLinks
INVARIANT NothingLeftBehind
PROPERTY AffordableIsCredited
INVARIANT CreditRunsSound
