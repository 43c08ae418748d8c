CONSTANTS
    h1 = h1  h2 = h2
    c1 = c1  c2 = c2  c3 = c3  c4 = c4
    e1 = e1  e2 = e2
    Handlers <- HandlersDef
    Convs <- ConvsDef
    Messages = {m}
    Replies = {call, other}
    Silent = {call, other}
    NoText = NoText
    Accounts = {a}
    Exits <- ExitsDef
    None = None
    RetryAttempts = 2
    MaxProxySwitches = 1
    ConvMax = 2
    MaxRequests = 4
    MaxHistory = 4
    MaxUpstream = 6
SYMMETRY Symmetric
SPECIFICATION Spec
INVARIANT HitIsContinuation
