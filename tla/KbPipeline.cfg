CONSTANTS
    Kbs = {k1}
    Docs = {d1, d2}
    a = a
    b = b
    Pieces <- MCPieces
    Texts <- MCTexts
    Unreadable = Unreadable
    MaxRuns = 3
    MaxFaults = 2
    MaxCrashes = 1
SPECIFICATION MCSpec
INVARIANTS TypeOK WholeVersion NoOrphans ChunkCountExact ReadyIsIndexed InFlightHasJob DriftOnlyByOverlap SnapshotCurrent
PROPERTIES ImplementsIndex EveryUploadSettles TempFileReclaimed
CHECK_DEADLOCK FALSE
