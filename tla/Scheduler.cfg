CONSTANTS
    Requests = {r1, r2, r3}
    Hosts = {hA, hB}
    Loops = {l1, l2}
    NoLoop = NoLoop
    GlobalConcurrency = 2
    PerHostConcurrency = 1
    MinInterval = 2
    HostHistoryLimit = 1
    ClockResolution = 1
SPECIFICATION FairSpec
INVARIANTS CapacityAccounting PacingMemory WorkConserving
PROPERTIES StartsPaced ArrivalOrderPerHost EveryWaiterResolves
CHECK_DEADLOCK FALSE
