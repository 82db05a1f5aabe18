SPECIFICATION NonceSpec
CONSTANTS
    Requests = {r1, r2}
    Handlers = {h1, h2}
    NoRequest = NoRequest
    Skew = 1
    Ttl = 4
    Latency = 1
    MaxTime = 6
INVARIANTS
    AcceptedAtMostOnce
CHECK_DEADLOCK FALSE
