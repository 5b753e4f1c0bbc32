SPECIFICATION ReportsSpec
CONSTANTS
    Interfaces = {"eth0", "lo"}
    Monitored = {"eth0"}
    MaxTotal = 3
    Word = 4
    LegacyWord = 2
    MaxCounter = 2
    MaxTicks = 2
    MaxLoad = 3
    IdentityTTL = 3
    DiscoverTimeout = 1
    Focuses <- MCNetwork
    InitialBackoff = 4
    MaxBackoff = 12
    Stable = 3
    DialTimeout = 2
    StopLimit = 2
    MaxStreak = 3
    MaxCrashes = 0
PROPERTY NoSyntheticSpike
