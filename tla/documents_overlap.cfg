SPECIFICATION Spec
CONSTANTS
    None = None
    c1 = c1
    c2 = c2
    w1 = w1
    w2 = w2
    req = req
    fin = fin
    Chains = {c1}
    Workers = {w1, w2}
    Overlap = TRUE
    MayRefuse = TRUE
    MaxFailures = 1
    People = {req, fin}
    Requester = req
    Advance = 2
    Kinds = {"requisition", "travel", "withdrawal"}
    Unspent <- MCUnspent
INVARIANT TypeOK
INVARIANT ApprovedFirst
INVARIANT RefundsArePaidFor
INVARIANT HandlersFounded
CONSTRAINT Bounded
SYMMETRY Interchangeable
CHECK_DEADLOCK FALSE
