SPECIFICATION Spec
CONSTANTS
    Nodes <- GateNodes
    ParentReported = {}
    Deps <- GateDeps
    SuccessState <- GateSuccess
    Docs = {"CERTIFICATE"}
    RequiredDocs <- GateRequired
    Outputs <- GateOutputs
    InitiallyMissing = {}
    Statuses = {"SUBMITTED", "CLEARED", "DOCUMENT_MISSING"}
    MaxAttempts = 2
    MaxCopies = 2
    OfficerAsksEarly = TRUE
    RetryOverlaps = TRUE
INVARIANTS
    TypeOK
    GateHasApproval
    FiledUnderApproval
    DoneIsEarned
PROPERTY
    
    PassesGate
CHECK_DEADLOCK FALSE
