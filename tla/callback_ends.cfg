SPECIFICATION FairSpec
CONSTANTS
    Callbacks = {c1}
    Clients = {a, b}
    Requests = {"request", "capture", "revoke", "opt_out", "opt_in", "answer", "decline", "finish"}
    Telephony = {"SIMULATED"}
    MaxRows = 3
    MaxFaults = 0
INVARIANT ConsentsBounded
PROPERTIES
    ScheduledIsDecided
    UnansweredIsSwept
CHECK_DEADLOCK FALSE
