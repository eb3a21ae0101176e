CONSTANTS
    Limit = 1
    MaxHead = 2
    MaxFailures = 1
    MaxCrashes = 1
    Id = {"va", "initiator"}
    Idle = idle
    MaxCommands = 4
    MaxTime = 1
    MaxQueueCrashes = 1
SPECIFICATION PipelineSpec
INVARIANTS SavedLogsAreHandled ExecutedInChainOrder
CHECK_DEADLOCK FALSE
PROPERTIES ImplementsFifo EveryLogExecuted
