CONSTANTS
    Writers = {w1, w2}
    Readers = {}
    Events = {"e1", "e2", "e3"}
    Text <- MCText
    OccurredAt <- MCOccurredAt
    Lead = {"lead"}
    Continuation = {"continuation"}
    Faults = FALSE
    Queries <- NoQueries
SPECIFICATION Spec
INVARIANTS AcknowledgedIsReadable
CHECK_DEADLOCK FALSE
