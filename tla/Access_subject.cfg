CONSTANTS
    Boss = boss
    Users = {boss}
    Nobody = Nobody
    Kbs = {1, 2, 3}
    DefaultKb = 1
    NoKb = NoKb
    Least <- MCLeast
    Chats = {c1}
    Requests = {r1, r2, r3}
SPECIFICATION Spec
INVARIANT ScopeStays
SYMMETRY Symmetry
CHECK_DEADLOCK FALSE
