CONSTANTS
    Ids = {1, 2, 3}
    CandidateK = 2
    RerankPool = 3
    TopK = 2
    RrfK = 60
    Scale = 238266
    Scores = {0, 1}
    Modes <- MCModes
    Words <- MCWords
    Mark <- MCMark
    MaxRounds = 2
    KeptTurns = 2
    Histories <- MCHistories
    Said <- MCSaid
    Calls <- MCCalls
    Deltas <- MCDeltas
    MaxParts = 2
    ExpectedArticles = 2
    Amended = {1}
    NoAvg = NoAvg
    Paragraphs <- MCParagraphs
    MaxPage = 6
    MaxText = 6
    ChunkSizes = {1, 3, 4, 5}
    Overlaps = {0, 1, 2}
    Service <- MCService
    Salaries <- MCSalaries
    Averages = {1, 2, 3}
SPECIFICATION MCSpec
INVARIANTS HitsSound FusionAgrees ToolCallsAnswered AnswerIsLastSaid  PageFaithful ChunksFaithful CompensationSound
CHECK_DEADLOCK FALSE
