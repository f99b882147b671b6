SPECIFICATION MCSpec
CONSTANTS
    b1 = b1
    b2 = b2
    n1 = n1
    n2 = n2
    Batches = {b1, b2}
    ZeroNet <- MCZeroNet
    Notes = {n1, n2}
    Recovers <- MCRecovers
    Actors = {a1, a2}
    Evidence = {e1, e2}
    NoEvidence = none
    MaxCrashes = 2
    NAddresses = 2
    OwnerCalls = {owner}
    NAttempts = 1
    Gifts = {g1, g2}
    Parties = {p1}
    Bodies = {body}
    Covered = {2}
    Fast = {g1}
    Surprise = {g1}
    Contacts = {k1}
    Workers = {w1, w2}
    Visits = {v1}
    MaxAttempts = 2
    MaxTokens = 4
    MaxDeaths = 0
    Users = {maker, checker}
    Creator = maker
    OrgCalls = {u1}
    MaxOptions = 1
CHECK_DEADLOCK FALSE
INVARIANTS
    ChainIsEarned
PROPERTIES
    AttachedOnce
    EventuallyCompleted
    SilentReceiverServed
    WaveEnds
