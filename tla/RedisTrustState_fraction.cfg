SPECIFICATION Spec
CONSTANTS
    Requests = {"r1", "r2"}
    Admins = {}
    Crews = {{"r1", "r2"}}
    TokenIds = {"t1"}
    Agents = {"a1"}
    Nonces = {"n1"}
    Token <- FractionToken
    AdminCalls <- NoCalls
    Buckets <- OneBucket
    TicksPerSecond = 3
    Leeway = 0
    MaxTime = 6
    Horizon <- SixTicks
    MaxFailures = 0
INVARIANTS NoReplayBeforeExpiry
CHECK_DEADLOCK FALSE
