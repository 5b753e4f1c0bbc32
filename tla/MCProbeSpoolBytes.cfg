SPECIFICATION SpoolSpec
CONSTANTS
    TTL = 1
    MaxPendingItems = 2
    MaxPendingBytes = 4
    MaxItemBytes = 4
    MaxQuarantineItems = 2
    MaxQuarantineBytes = 4
    Radix = 2
    BatchNames <- MCBatchNames
    TempNames <- MCTempNames
    BodySizes <- MCBodySizes
    MaxAttempt = 2
    Horizon = 1
    MaxFaults = 0
INVARIANT PendingBytesBounded
