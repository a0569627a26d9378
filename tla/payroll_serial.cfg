SPECIFICATION FairSpec
CONSTANTS
    None = None
    c1 = c1
    c2 = c2
    c3 = c3
    w1 = w1
    w2 = w2
    x1 = x1
    x2 = x2
    Chains = {c1, c2, c3}
    Workers = {w1}
    Overlap = FALSE
    MaxFailures = 1
    MaxEdits = 2
    Extras = {}
INVARIANT PaidHoursWereApproved
INVARIANT RunAgreesWithLedger
PROPERTY ApprovedIsFrozen
PROPERTY ApprovalsArrive
CHECK_DEADLOCK FALSE
