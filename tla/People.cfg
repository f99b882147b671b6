SPECIFICATION MCSpec
SYMMETRY MCSymmetry
CONSTANTS
    Phones = {p1, p2}
    Emails = {e1}
    Requests = {a1, a2}
    MaxVerifyAttempts = 2
    MaxTargetAttempts = 3
    SendLimit = 2
    MaxCodes = 2
    MaxLost = 1
    Users = {u1, u2, b1, b2}
    Admins = {u1, u2}
    Legacy = {u1}
    OldPhone = p1
    MaxUses = 1
    People = {u1, b1, b2}
    MaxEdits = 3
    Staff = {u1, b1, b2}
    Founder = u1
    Desks = {a1, a2}
    MaxDecisions = 7
    Handlers = {a1, a2}
    MaxShop = 6
CHECK_DEADLOCK FALSE
INVARIANTS
    CodesHold
    AccountsHold
    ReadsKeepPrivacy
    DecisionsHold
    OffersHold
