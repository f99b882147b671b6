SPECIFICATION Spec
CONSTANTS
    ann = ann
    sue = sue
    bob = bob
    b1 = b1
    b2 = b2
    Users = {ann, sue, bob}
    Seniors <- MCSeniors
    Batches = {b1}
    Actors = {a1, a2}
    Proposer <- MCProposer
    Magnitude <- LargeMagnitude
    ZeroNet <- NoZeroNet
    T2 = 1
    TTL = 1
    MaxAge = 0
    MaxSkew = 0
    DayLength = 2
    MaxTime = 2
    MaxVotes = 3
CHECK_DEADLOCK FALSE
INVARIANTS
    ClosesAreAuthorised
