SPECIFICATION MCSpec
SYMMETRY MCSymmetry
CONSTANTS
    Contacts = {k1}
    Workers = {a1, a2}
    Visits = {b1, b2}
    MaxAttempts = 2
    MaxTokens = 3
    MaxDeaths = 1
    Users = {maker, checker}
    Creator = maker
    OrgCalls = {u1, u2}
    Second = u2
    MaxOptions = 1
    Deals = {b1, b2}
    Approvals = {a1, a2}
    Clerks = {a1, a2}
    Numbers = {b1, b2}
    MaxPrice = 2
    MaxFaults = 1
    Events = {1, 2}
    MaxAttested = 2
    Days = {1, 2}
    BankRefs = {b1, b2}
    Runs = {b1, b2}
    Staff = {a1, a2, teller}
    Attester = teller
CHECK_DEADLOCK FALSE
INVARIANTS
    CampaignAgrees
    DocumentsAgree
    BooksAgree
PROPERTIES
    DecidedForGood
    ResolvedOnce
