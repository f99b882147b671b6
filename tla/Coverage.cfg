SPECIFICATION MCSpec
CONSTANTS
    RateBp = 1500
    Charge = 4
    Amounts = {2, 3}
    References = {r1, r2}
    Actors = {a1, a2}
    MaxCrashes = 1
    MaxCharge = 60
    MaxParts = 6
CHECK_DEADLOCK FALSE
INVARIANTS
    CoverageIsEarned
    ReversalIsSound
