CONSTANTS
    Writers = {w1, w2}
    Readers = {r}
    Events = {"e1", "e2", "e3"}
    Text <- MCText
    OccurredAt <- MCOccurredAt
    Lead = {"lead"}
    Continuation = {"continuation"}
    Faults = TRUE
    Queries <- MCQueries
SPECIFICATION Spec
SYMMETRY WriterSymmetry
INVARIANTS NewestFirstIsExact OldestFirstIsExact
CHECK_DEADLOCK FALSE
