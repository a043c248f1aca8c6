CONSTANTS
    Calls = {c1, c2}
    Nonces = {"n1"}
    Tuples = {"alice", "unknown"}
    Messages <- MCMessages
    LibraryMessages <- MCLibraryMessages
    MaxInflight = 1
SPECIFICATION FairClientSpec
INVARIANTS ReachedOnlyWhenEntitled UnauditedRefusalsAreFree OneAllowPerNonce AnswersMatchAudit LeasesMatchEvaluations ConclusionsAgreeWithAudit
PROPERTIES EveryPostConcludes
CHECK_DEADLOCK FALSE
