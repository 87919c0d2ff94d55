SPECIFICATION MCSpec
CONSTANTS
    MaxCalls = 3
    MaxFailures = 1
    Sessions = {s1, s2}
    Workers = {w1, w2}
    Keys = {k1, k2}
    Values = {a, b}
    Unset = unset
    Backends = {"memory", "redis"}
    MaxOps = 5
    HttpCalls = 2
    Redirects = 1
    HttpTimeouts = 1
    MaxMessages = 3
    McpTimeouts = 1
    Top = 1
    MaxHandles = 3
    MaxLength = 2
INVARIANTS
    TypesOK
    CallsExact
    ClaimsKept
    McpExact
    HandlesIntact
PROPERTIES
    EveryCallReturns
    ExpiredLeaves
CHECK_DEADLOCK FALSE
