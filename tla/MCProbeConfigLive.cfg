SPECIFICATION ConfigFairSpec
CONSTANTS
    Background = {"poller"}
    Contents <- MCContents
    MaxVersion = 1
    MaxPublications = 2
    MaxGeneration = 3
    MaxNotices = 1
    MaxRestarts = 1
    AnyAnswer = FALSE
PROPERTY NeverOlder
PROPERTY EventuallyCurrent
