SPECIFICATION Spec
CONSTANTS
    HttpsUrls = {"https_issuer"}
    SpiffeUris = {}
    Threads = {t1, t2}
    Keys = {"k1", "k2"}
    TokenOrders <- MCTokenOrders
    DocumentOrders <- MCDocumentOrders
    Presentations <- MCPresentations
    Metadata <- MCMetadata
    SevenDays = 2
    MaxTime = 1
    MaxCount = 2
    MaxTokens = 1
    MaxDocuments = 2
SYMMETRY ThreadSymmetry
INVARIANTS UniqueIds AllowedIsGranted BuiltIsAccepted DiscoveryAgrees
CHECK_DEADLOCK FALSE
