SPECIFICATION Spec
CONSTANTS
    Callbacks = {c1, c2}
    Clients = {a, b}
    Requests = {"request", "opt_out", "answer", "decline", "transfer", "post_call"}
    Telephony = {"SIMULATED", "ELEVENLABS"}
    MaxRows = 2
    MaxFaults = 1
SYMMETRY Symmetry
INVARIANTS
    TypeOK
    NoSecondCall
    DialledOnce
    DialingHasLiveCall
CHECK_DEADLOCK FALSE
