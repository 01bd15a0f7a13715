SPECIFICATION Spec
CONSTANTS
    Files <- TwoFiles
    Silent <- Second
    Faults <- AllFaults
    MaxFaults = 2
INVARIANTS TranscribedByService ResumesPolling
PROPERTIES NothingSubmittedOnceCached
CHECK_DEADLOCK FALSE
