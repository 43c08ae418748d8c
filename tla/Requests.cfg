SPECIFICATION Spec
CONSTANTS
    r1 = r1
    r2 = r2
    a1 = a1
    a2 = a2
    p1 = p1
    p2 = p2
    Requests <- MCRequests
    Accounts <- MCAccounts
    Proxies <- MCProxies
    Direct = Direct
    None = None
    Mode = "auto"
    FallbackDirect = FALSE
    FallbackAnon = TRUE
    PerIPConcurrent = 2
    RetryAttempts = 1
    MaxProxySwitches = 1
    MaxCookieTries = 2
    MaxCookieAuthFailures = 3
    Jobs <- TwoJobs
SYMMETRY Sym
INVARIANTS
    TypeOK
    SlotBalance
    ChargedOnce
CHECK_DEADLOCK FALSE
