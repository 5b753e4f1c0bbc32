SPECIFICATION CycleFairSpec
CONSTANTS
    MaxTargets = 3
    MaxCount = 4
    DefaultTimeout = 1
    MinTimeout = 1
    MaxTimeout = 2
    DefaultInterval = 3
    MinInterval = 2
    MaxInterval = 3
    PingGrace = 1
    TargetBudget = 4
    NodeBudget = 5
    MaxSamples = 4
    RunGrace = 1
    Slots = 2
    MaxRedirects = 3
    URLs <- MCURLs
    Public <- MCPublic
    Loopback <- MCLoopback
    Unsafe <- MCUnsafe
    Answers <- MCAnswers
    Configs <- MCConfigs
    LoopTimeout = 6
    AgeCap = 30
    MaxFailures = 1
INVARIANTS CycleTypeOK RoundsComplete DeadlineLeavesRoom ConnectionsPinned RedirectChains OnTime
PROPERTIES SelectionSound RunsEnd
