SPECIFICATION MCSpec
SYMMETRY MCSymmetry
CONSTANTS
    NAddresses = 2
    OwnerCalls = {owner}
    NAttempts = 1
    Gifts = {g1, g2}
    Parties = {c1, c2}
    Bodies = {b1, b2}
    Covered = {2}
    Fast = {g1}
    Surprise = {g1}
    Orders = {o1}
    Requests = {c1, c2}
    NLegs = 3
    MaxCrashes = 2
    Fans = {f1, f2}
    Receiver = f1
    Taps = {c1, c2}
    Presents = {b1, b2}
    MaxTaps = 6
    Buckets = {"received", "sent"}
    MaxFeed = 4
    Reminders = {"before"}
    DaysBefore <- MCDays
    Runners = {c1, c2}
    Period = 2
    LastDay = 2
    Cap = 1
    MaxRows = 3
    MaxDown = 1
CHECK_DEADLOCK FALSE
INVARIANTS
    GiftsAreOrderly
    SurpriseKept
    OrderAndMoneyAgree
    WallAgrees
    WallCollapsesByProduct
    ToldAsDecided
PROPERTIES
    AcceptedNotCancelled
