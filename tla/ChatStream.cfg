CONSTANTS
    Requests = {1, 2, 3}
    Threads = {w1, w2}
    None = None
    MaxContext = 2
    MaxHistory = 1
    MaxTokens = 1
    MaxFaults = 1
    MaxCrashes = 1
SPECIFICATION Spec
INVARIANTS TypeOK FrameOrder TokensWhole ExchangesPaired HistoryMatchesStreams
CHECK_DEADLOCK FALSE
