SPECIFICATION Spec
CONSTANTS
    a = a
    b = b
    Clients = {a, b}
    MaxApprovals = 3
    Occurring = {"SUBMITTING", "REJECTED", "DOCUMENT_MISSING", "STALLED"}
SYMMETRY Symmetry
INVARIANTS TypeOK GateIsDecidable OneRequestPerApproval PendingIsAtGate
PROPERTY UncrossedIsSerial
CHECK_DEADLOCK FALSE
