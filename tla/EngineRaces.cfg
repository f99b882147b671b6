SPECIFICATION Spec
CONSTANTS
    Items = {i1}
    Actors = {a1, a2}
    MaxAmount = 3
    MaxBatches = 2
    MaxReceivables = 1
SYMMETRY Symmetry
CHECK_DEADLOCK FALSE
INVARIANTS
    PaidOnce
    BoundItemsAccountedFor
    PaidWhatRemained
    LiveBatchIsWhole
    ClosesConsistently
PROPERTIES
    StepsAreLawful
