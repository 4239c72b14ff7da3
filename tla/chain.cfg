SPECIFICATION FairSpec
CONSTANTS
    Nodes <- ChainNodes
    ParentReported = {"CONSULATE"}
    Deps <- ChainDeps
    SuccessState <- ChainSuccess
    Docs = {"PASSPORT"}
    RequiredDocs <- ChainRequired
    Outputs <- ChainOutputs
    InitiallyMissing = {}
    Statuses = {"SUBMITTED", "CLEARED"}
    MaxAttempts = 1
    MaxCopies = 1
    OfficerAsksEarly = FALSE
    RetryOverlaps = TRUE
INVARIANT
    NoLostUnlock
PROPERTIES
    UnlockedStarts
    ImplementsCasePromise
CHECK_DEADLOCK FALSE
