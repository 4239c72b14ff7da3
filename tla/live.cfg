SPECIFICATION Spec
CONSTANTS
    Cases = {"mine", "other"}
    Mine = {"mine"}
    Views = {"polled", "listed"}
    Polled = {"polled"}
    Everything = FALSE
    QueueLimit = 1
    MaxCommits = 2
    MaxFaults = 1
INVARIANTS TypeOK NothingForgotten
PROPERTIES NewsArrives PolledConverge NeverGoesBack
CHECK_DEADLOCK FALSE
