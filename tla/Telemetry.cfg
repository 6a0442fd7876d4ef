\* Three collectors on two pools that restart once, one fault.
SPECIFICATION FairSpec
CONSTANTS
    ch1 = ch1  ch2 = ch2  p1 = p1  p2 = p2  n1 = n1  n2 = n2
    worker1 = worker1  native2 = native2
    Collectors = {1, 2, 3}
    Pools = {p1, p2}
    Channels = {ch1, ch2}
    PoolOf <- OneEach
    PollOrder <- InOrderOfPools
    FirstIdentity <- Owners
    Registries <- AllOrNone
    EnvPools = {}
    Nodes = {n1, n2}
    NoNode = NoNode
    Identities = {worker1, native2}
    NativeNode <- Native
    Mappings <- Mapped
    MaxWork = 2
    MaxRestarts = 1
    MaxFaults = 1
CONSTRAINT FewAtOnce
CONSTRAINT LastIsWell
CHECK_DEADLOCK FALSE
INVARIANT CreditedWorkWasDone
INVARIANT NothingLost
PROPERTY CollectorsEnd
INVARIANT RunsSound
