\* As Templates.cfg: a pool that reserves again after its setup.
SPECIFICATION FairSpec
CONSTANTS
    a = a  b = b
    Sessions = {1}
    Mempools <- ThreeMempools
    Fee <- Fees
    FeeThreshold = 2
    MaxTransactions = 1
    ChannelDepth = 1
    MaxChanges = 2
    NoSnapshot = NoSnapshot
    Reserves <- TwoReserves
    TxSize <- Ones
    TxSigops <- Ones
    SizeLimit = 2
    SigopLimit = 2
    CacheCap = 2
    NoFrame = NoFrame
CHECK_DEADLOCK FALSE
PROPERTY LatestReserveCounts
