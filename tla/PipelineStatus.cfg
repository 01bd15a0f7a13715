SPECIFICATION PipelineSpec
CONSTANTS
    Jobs = {j1}
    Workers = {w1, w2}
    MaxFaults = 1
    Faults <- WorkerRetries
    GatewayFaults <- AnyGatewayFault
    MaxGatewayFaults = 1
    Polled = {}
    LockTTL = 15
    AckWait = 60
    Done = Done
    Audio = Audio
    StoredAs <- AnyName
    None = None
INVARIANTS SettledRowIsVerdict NoMissedHook CompletedHookIsReal
SYMMETRY Symmetry
CHECK_DEADLOCK FALSE
