SPECIFICATION SpoolSpec
CONSTANTS
    TTL = 1
    MaxPendingItems = 1
    MaxPendingBytes = 8
    MaxItemBytes = 7
    MaxQuarantineItems = 2
    MaxQuarantineBytes = 6
    Radix = 2
    BatchNames <- MCBatchNames
    TempNames <- MCTempNames
    BodySizes <- MCBodySizes
    MaxAttempt = 2
    Horizon = 1
    MaxFaults = 1
INVARIANTS SpoolInv PendingItemsBounded QuarantineItemsBounded QuarantineBytesBounded
PROPERTY NoResurrection
