SPECIFICATION Spec
CONSTANTS
    r1 = r1
    r2 = r2
    p1 = p1
    u1 = u1
    u2 = u2
    Requests <- MCRequests
    Static <- MCStatic
    Urls <- MCUrls
    UrlOf <- MCUrlOf
    Direct = Direct
    None = None
    Settings <- MCSettings
    PerIPConcurrent = 1
    RetryAttempts = 2
    MaxSwitches = 1
    MaxFetches = 2
SYMMETRY Alike
INVARIANTS
    TypeOK
    OneSlotPerUrl
PROPERTY GivenAFreshExit
