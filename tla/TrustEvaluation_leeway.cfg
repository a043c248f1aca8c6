CONSTANTS
    Requests = {r1, r2, r3}
    TokenIds = {"short", "long"}
    Agents = {"alice"}
    Nonces = {"n1", "n2"}
    Token <- MCToken
    Submissions <- MCReplays
    Revocable = {}
    Deniable = {}
    BulkLists = {}
    Leeway = 2
    MaxTime = 2
SPECIFICATION Spec
INVARIANT NoPromptReplay
CHECK_DEADLOCK FALSE
