SPECIFICATION FairSpec
CONSTANTS
    RateBp = 1500
    Charge = 4
    Amounts = {2, 3}
    References = {r1, r2}
    Actors = {a1}
    MaxCrashes = 2
CHECK_DEADLOCK FALSE
PROPERTIES
    CoverageCompletes
