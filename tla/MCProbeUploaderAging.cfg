SPECIFICATION FairSpec
CONSTANTS
    TTL = 1
    MaxPendingItems = 2
    MaxPendingBytes = 9
    MaxItemBytes = 4
    MaxQuarantineItems = 1
    MaxQuarantineBytes = 4
    Radix = 10
    BatchNames = {1}
    TempNames <- MCTempNames
    BodySizes <- MCBodySizes
    MaxAttempt = 2
    Horizon = 2
    MaxFaults = 2
    MaxBackoff = 1
INVARIANT DeferralBounded
PROPERTIES AttemptsAdvanceByOne EventuallySettled
