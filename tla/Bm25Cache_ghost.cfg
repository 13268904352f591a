CONSTANTS
    Uploads = {d1, d2}
    Laws = {}
    Threads = {t1}
    NoThread = NoThread
    a = a
    b = b
    Contents <- MCContents
    Texts <- MCTexts
    MaxClock = 4
    MaxId = 4
SPECIFICATION Spec
INVARIANT NoGhosts
CHECK_DEADLOCK FALSE
