CONSTANTS
    Ids = {1, 2, 3}
    CandidateK = 2
    RerankPool = 3
    TopK = 2
    RrfK = 60
    Scale = 238266
    Scores = {0, 1}
    Modes <- MCModes
    Words <- MCWords
    Mark <- MCMark
    MaxRounds = 2
    KeptTurns = 2
    Histories <- MCHistories
    Said <- MCSaid
    Calls <- MCCalls
    Deltas <- MCDeltas
    MaxParts = 2
SPECIFICATION Spec
INVARIANT SilentLoopApologises
CHECK_DEADLOCK FALSE
