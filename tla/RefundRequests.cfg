SPECIFICATION FairSpec
CONSTANTS
    RefundIds = {q1, q2}
    Amount <- MCAmount
    Operators = {u1, u2}
    Evidence = {e1}
    Actors = {a1, a2}
    Nobody = nobody
    NoRefund = norefund
    MaxCrashes = 2
CHECK_DEADLOCK FALSE
INVARIANTS
    TypeOK
    DutiesSeparated
    EvidenceSpentOnce
PROPERTIES
    EndsStay
    LatchReleased
