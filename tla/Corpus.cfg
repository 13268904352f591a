CONSTANTS
    Laws = {l1, l2}
    a = a
    b = b
    Versions <- MCVersions
    NoVector = NoVector
    Jobs = {j1}
    MaxDocs = 2
SPECIFICATION Spec
INVARIANTS VectorsExplained MigrationComplete
SYMMETRY Symmetry
CHECK_DEADLOCK FALSE
