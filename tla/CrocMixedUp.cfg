SPECIFICATION Spec
CONSTANTS
    Files <- TwoFiles
    Silent <- NoFile
    Faults <- NoFaults
    MaxFaults = 0
INVARIANTS OwnTranscript
CHECK_DEADLOCK FALSE
