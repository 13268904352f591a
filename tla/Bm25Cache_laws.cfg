CONSTANTS
    Uploads = {d1}
    Laws = {l1}
    Threads = {t1}
    NoThread = NoThread
    a = a
    b = b
    Contents <- MCContents
    Texts <- MCTexts
    MaxClock = 3
    MaxId = 3
SPECIFICATION Spec
INVARIANT MigrationShows
CHECK_DEADLOCK FALSE
