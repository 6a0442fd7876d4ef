SPECIFICATION Spec
CONSTANTS
    Users <- MCUsers
    Blocks <- MCBlocks
    Captured <- MCCaptured
    Finds <- MCFinds
    Reward <- MCReward
    Counter <- MCCounter
    Sampled <- MCSampled
    Interval = 1
    Maturity = 1
    Tolerance = 0
    MaxNow = 3
    Forced = {1, 2}
    MaxTroubles = 1
INVARIANT MaturesOnce
PROPERTY CompletedStays
PROPERTY CatchesUp
INVARIANT WindowsAbut
INVARIANT AccountsSound
