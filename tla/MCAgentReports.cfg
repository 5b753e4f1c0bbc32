SPECIFICATION ReportsFairSpec
CONSTANTS
    Interfaces = {"eth0", "eth1"}
    Monitored = {"eth0", "eth1"}
    MaxTotal = 1
    Word = 4
    LegacyWord = 1
    MaxCounter = 1
    MaxTicks = 2
    MaxLoad = 3
    IdentityTTL = 3
    DiscoverTimeout = 1
    Focuses <- MCFocuses
    InitialBackoff = 4
    MaxBackoff = 12
    Stable = 3
    DialTimeout = 2
    StopLimit = 2
    MaxStreak = 3
    MaxCrashes = 1
INVARIANTS ReportsTypeOK ReceiptProven CleanExit BackoffGrows KnownIdentityKept
PROPERTIES TrafficCounted ProcessorShare ProvidersSpared ReceiptWritten StopEnds
