SPECIFICATION FairSpec
CONSTANTS
    TTL = 3
    MaxPendingItems = 2
    MaxPendingBytes = 9
    MaxItemBytes = 4
    MaxQuarantineItems = 1
    MaxQuarantineBytes = 4
    Radix = 10
    BatchNames <- MCBatchNames
    TempNames <- MCTempNames
    BodySizes <- MCBodySizes
    MaxAttempt = 1
    Horizon = 1
    MaxFaults = 0
    MaxBackoff = 1
PROPERTY EventuallySettled
