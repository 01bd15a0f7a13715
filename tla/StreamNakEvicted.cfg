SPECIFICATION Spec
CONSTANTS
    Workers = {w1, w2}
    MaxPosted = 3
    MaxMsgs = 2
    MaxConcurrent = 2
    Faults <- RaiseOnly
    MaxFaults = 1
INVARIANTS NakComesBack
CHECK_DEADLOCK FALSE
