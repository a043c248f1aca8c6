CONSTANTS
    Requests = {r1, r2, r3}
    TokenIds = {"short", "long"}
    Agents = {"alice"}
    Nonces = {"n1", "n2"}
    Token <- MCToken
    Submissions <- MCReplays
    Revocable = {"short"}
    Deniable = {}
    BulkLists = {}
    Leeway = 0
    MaxTime = 2
SYMMETRY RequestSymmetry
SPECIFICATION Spec
INVARIANTS AllowedNonceRemembered NonceConsumedOnce NoPromptReplay
PROPERTIES NoncesKeptUntilExpiry ImplementsGate
CHECK_DEADLOCK FALSE
