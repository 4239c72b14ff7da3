SPECIFICATION FairSpec
CONSTANTS
    MaxEvents = 2
    NumConsumers = 2
    MaxTries = 2
    Durable = TRUE
    MaxLog = 3
    MaxFaults = 2
INVARIANTS
    TypeOK
    NoEventLost
PROPERTIES
    ImplementsPromise
    EveryEventHandled
CHECK_DEADLOCK FALSE
