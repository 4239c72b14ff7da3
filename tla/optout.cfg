SPECIFICATION Spec
CONSTANTS
    Callbacks = {c1}
    Clients = {a}
    Requests = {"request", "capture", "revoke", "opt_out", "opt_in", "answer", "decline", "finish", "transfer", "post_call"}
    Telephony = {"SIMULATED"}
    MaxRows = 2
    MaxFaults = 0
INVARIANT NoRingingAfterOptOut
CHECK_DEADLOCK FALSE
