SPECIFICATION FairSpec
CONSTANTS
    Requests = {"r1", "r2"}
    Admins = {"m1", "m2"}
    Crews <- Pairs
    TokenIds = {"t1", "t2"}
    Agents = {"a1"}
    Nonces = {"n1"}
    Token <- WholeSecondToken
    AdminCalls <- StoreCalls
    Buckets <- TwoBuckets
    TicksPerSecond = 2
    Leeway = 0
    MaxTime = 5
    Horizon <- PairTimes
    MaxFailures = 1
INVARIANTS AcknowledgedHolds
PROPERTIES ClearIsComplete ImplementsGate EveryCallReturns
CHECK_DEADLOCK FALSE
