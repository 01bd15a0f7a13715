SPECIFICATION FairPipelineSpec
CONSTANTS
    Jobs = {j1}
    Workers = {w1, w2}
    MaxFaults = 1
    Faults <- WorkerRepeats
    GatewayFaults <- GatewayReads
    MaxGatewayFaults = 1
    Polled = {j1}
    LockTTL = 15
    AckWait = 60
    Done = Done
    Audio = Audio
    StoredAs <- AnyName
    None = None
PROPERTIES CompletedStaysVisible EveryPostCompletes
CHECK_DEADLOCK FALSE
