SPECIFICATION FairSpec
CONSTANTS
    None = None
    c1 = c1
    c2 = c2
    w1 = w1
    w2 = w2
    req = req
    fin = fin
    Chains = {c1, c2}
    Workers = {w1}
    Overlap = FALSE
    MayRefuse = FALSE
    MaxFailures = 1
    People = {req, fin}
    Requester = req
    Advance = 2
    Kinds = {"requisition", "travel", "withdrawal"}
    Unspent <- MCUnspent
INVARIANT SubmittedIsAwaited
INVARIANT BooksAgree
PROPERTY PaidIsFinal
PROPERTY OutcomeArrives
PROPERTY FundsAreFound
PROPERTY ImplementsPayment
CHECK_DEADLOCK FALSE
