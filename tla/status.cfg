SPECIFICATION Spec
CONSTANTS
    Nodes = {"filing", "consulate"}
    Clients = {a, b}
    Occurring = {"done", "parent", "other"}
    MaxOpened = 1
SYMMETRY Symmetry
INVARIANTS AnnouncedOnce StatusHeals CompletionIsSeen
CHECK_DEADLOCK FALSE
