CONSTANTS
    Requests = {1, 2}
    Threads = {w1}
    None = None
    MaxContext = 2
    MaxHistory = 1
    MaxTokens = 2
    MaxFaults = 1
    MaxCrashes = 1
SPECIFICATION FairSpec
PROPERTY EveryStreamEnds
CHECK_DEADLOCK FALSE
