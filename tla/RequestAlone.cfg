SPECIFICATION FairSpec
CONSTANTS
    r1 = r1
    r2 = r2
    a1 = a1
    a2 = a2
    p1 = p1
    p2 = p2
    Requests <- OneRequest
    Accounts <- MCAccounts
    Proxies <- MCProxies
    Direct = Direct
    None = None
    Mode = "auto"
    FallbackDirect = TRUE
    FallbackAnon = TRUE
    PerIPConcurrent = 2
    RetryAttempts = 2
    MaxProxySwitches = 3
    MaxCookieTries = 2
    MaxCookieAuthFailures = 3
    Jobs <- AllJobs
INVARIANTS
    NeverBackToAnExit
    CreditAndCookieAgree
PROPERTIES
    NoRetryAfterEmission
    Terminates
CHECK_DEADLOCK FALSE
