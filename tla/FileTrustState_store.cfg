CONSTANTS
    Clients = {c1, c2}
    TokenIds = {"t1"}
    Agents = {"alice"}
    Nonces = {"n1", "n2"}
    Calls <- MCCalls
    MaxAttempts = 1
    MaxTime = 2
SYMMETRY ClientSymmetry
SPECIFICATION Spec
INVARIANTS MutualExclusion AcknowledgedIsDurable FreshOnce
