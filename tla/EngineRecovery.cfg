SPECIFICATION RecoverySpec
CONSTANTS
    Items = {i1, i2, i3}
    Actors = {a1}
    MaxAmount = 2
    MaxBatches = 3
    MaxReceivables = 2
SYMMETRY Symmetry
CHECK_DEADLOCK FALSE
INVARIANTS
    TypeOK
    DebtsConserved
