SPECIFICATION PoolFairSpec
CONSTANTS
    w1 = w1
    w2 = w2
    p1 = p1
    p2 = p2
    Workers <- MCWorkers
    Proxies <- MCProxies
    Scheduler = Scheduler
    Threshold = 1
    FallbackDirect = FALSE
    BootReadMayFail = FALSE
    MaxOps = 3
INVARIANTS
    PoolTypeOK
    CopyWasTheTable
    DirectOnlyWithoutProxies
PROPERTY Converges
