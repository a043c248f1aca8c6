CONSTANTS
    Clients = {c1, c2}
    TokenIds = {"t1"}
    Agents = {"alice"}
    Nonces = {"n1"}
    Calls = {}
    MaxAttempts = 1
    MaxTime = 1
    Commands <- MCCommands
    Proposals = {"req1", "req2"}
    MaxCommands = 2
SPECIFICATION FairControlSpec
INVARIANTS ControlTypeOK ReceiptsAreTrue AllowedAfterAsking
PROPERTIES EveryCommandEnds
CHECK_DEADLOCK FALSE
