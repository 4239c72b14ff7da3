SPECIFICATION Spec
CONSTANTS
    Nodes <- GateNodes
    ParentReported = {}
    Deps <- GateDeps
    SuccessState <- GateSuccess
    Docs = {"CERTIFICATE"}
    RequiredDocs <- GateRequired
    Outputs <- GateOutputs
    InitiallyMissing = {}
    Statuses = {"SUBMITTED", "CLEARED"}
    MaxAttempts = 2
    MaxCopies = 2
    OfficerAsksEarly = FALSE
    RetryOverlaps = TRUE
INVARIANT
    NoStrandedRelease
CHECK_DEADLOCK FALSE
