SPECIFICATION Spec
CONSTANTS
    RefundIds = {q1}
    Amount <- MCAmount
    Operators = {u1, u2}
    Evidence = {e1, e2}
    Actors = {a1}
    Nobody = nobody
    NoRefund = norefund
    MaxCrashes = 1
CHECK_DEADLOCK FALSE
INVARIANTS
    ApprovalPaysOnce
