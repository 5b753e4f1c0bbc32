SPECIFICATION ConfigSpec
CONSTANTS
    Background = {"poller"}
    Contents <- MCContents
    MaxVersion = 2
    MaxPublications = 0
    MaxGeneration = 2
    MaxNotices = 1
    MaxRestarts = 0
    AnyAnswer = TRUE
INVARIANTS ConfigInv VersionsAdvance AckedIsApplied ResultsMatchConfig CompletionsCurrent
