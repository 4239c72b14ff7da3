SPECIFICATION Spec
CONSTANTS
    MaxCalls = 2
    MaxFaults = 1
    MaxFlight = 1
INVARIANTS
    ActiveIsAccountedFor
    ShownActiveIsActive
    NoConsoleWithoutCall
    NeverStuck
PROPERTY EndedStaysEnded
CHECK_DEADLOCK FALSE
