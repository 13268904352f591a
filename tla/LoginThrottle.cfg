CONSTANTS
    Requests = {r1, r2, r3}
    Capacity = 4
    Cost = 2
    MaxFailures = 2
    Window = 3
    NoBucket = NoBucket
    From = 4
    To = 5
    MaxClock = 5
SPECIFICATION Spec
INVARIANTS TypeOK RateBound FailureBound DebtBound
SYMMETRY Symmetry
CHECK_DEADLOCK FALSE
