SPECIFICATION Spec
CONSTANTS
    TTL = 1
    MaxPendingItems = 2
    MaxPendingBytes = 9
    MaxItemBytes = 4
    MaxQuarantineItems = 1
    MaxQuarantineBytes = 4
    Radix = 10
    BatchNames <- MCBatchNames
    TempNames <- MCTempNames
    BodySizes <- MCBodySizes
    MaxAttempt = 2
    Horizon = 1
    MaxFaults = 1
    MaxBackoff = 1
INVARIANTS PipelineInv NoSilentLoss NoLostWakeup AnsweredNotResent
PROPERTY ImplementsOutbox
