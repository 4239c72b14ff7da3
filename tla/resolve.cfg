SPECIFICATION FairSpec
CONSTANTS
    Nodes <- GateNodes
    ParentReported = {}
    Deps <- GateDeps
    SuccessState <- GateSuccess
    Docs = {"CERTIFICATE"}
    RequiredDocs <- GateRequired
    Outputs <- GateOutputs
    InitiallyMissing = {}
    Statuses = {"SUBMITTED", "CLEARED", "DOCUMENT_MISSING"}
    MaxAttempts = 2
    MaxCopies = 1
    OfficerAsksEarly = FALSE
    RetryOverlaps = FALSE
INVARIANT
    NoStrandedRelease
PROPERTY
    EveryReleaseResolves
CHECK_DEADLOCK FALSE
