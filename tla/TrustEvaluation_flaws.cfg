CONSTANTS
    Requests = {r1}
    TokenIds = {"short", "long"}
    Agents = {"alice", "mallory"}
    Nonces = {"n1", "n2"}
    Token <- MCToken
    Submissions <- MCFlawed
    Revocable = {"short"}
    Deniable = {"alice", "mallory"}
    BulkLists = {{"short", "long"}, {"long"}}
    Leeway = 0
    MaxTime = 2
SPECIFICATION FairSpec
INVARIANTS TypeOK OnlyAuthenticRequestsConsume DeniedAgentNeverAllowed RevokedNeverAllowed AnswersAreAudited BulkRevokeComplete
PROPERTIES EveryRequestAnswered
CHECK_DEADLOCK FALSE
