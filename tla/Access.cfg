CONSTANTS
    Boss = boss
    Users = {boss, u1, u2}
    Nobody = Nobody
    Kbs = {1, 2}
    DefaultKb = 1
    NoKb = NoKb
    Least <- MCLeast
    Chats = {c1}
    Requests = {r1, r2, r3}
SPECIFICATION Spec
INVARIANTS TypeOK AdminRemains VisibilityAgrees ScopeEntitled SubjectLostByDeletion
SYMMETRY Symmetry
CHECK_DEADLOCK FALSE
