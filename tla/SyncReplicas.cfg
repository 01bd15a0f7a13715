SPECIFICATION FairStreamingSpec
CONSTANTS
    Jobs = {j1}
    Replicas = {r1, r2}
    MaxActive = 1
    MaxChunks = 2
    Faults <- AllFaults
    MaxFaults = 2
    None = None
INVARIANTS ActiveCounts OneStreamPerJob ResponsesInOrder CompletedMeansOver
PROPERTIES StreamsEnd RowCompletes
CHECK_DEADLOCK FALSE
