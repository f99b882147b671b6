SPECIFICATION Spec
CONSTANTS
    ann = ann
    sue = sue
    bob = bob
    b1 = b1
    b2 = b2
    Users = {ann, sue, bob}
    Seniors <- MCSeniors
    Batches = {b1, b2}
    Actors = {a1}
    Proposer <- MCProposer
    Magnitude <- SplitMagnitude
    ZeroNet <- SplitZeroNet
    T2 = 1
    TTL = 2
    MaxAge = 2
    MaxSkew = 0
    DayLength = 2
    MaxTime = 2
    MaxVotes = 2
CHECK_DEADLOCK FALSE
INVARIANTS
    AggregateGoverns
