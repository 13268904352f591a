CONSTANTS
    Uploads = {d1, d2}
    Laws = {l1}
    Threads = {t1, t2}
    NoThread = NoThread
    a = a
    b = b
    Contents <- MCContents
    Texts <- MCTexts
    MaxClock = 7
    MaxId = 6
SPECIFICATION MCSpec
INVARIANTS TypeOK CurrentWhenMatched ExactUnlessRaced SeesSettled
SYMMETRY Symmetry
CHECK_DEADLOCK FALSE
