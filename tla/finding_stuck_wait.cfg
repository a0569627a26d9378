SPECIFICATION Spec
CONSTANTS
    None = None
    c1 = c1
    w1 = w1
    w2 = w2
    w3 = w3
    u1 = u1
    u2 = u2
    b1 = b1
    b2 = b2
    l1 = l1
    l2 = l2
    x1 = x1
    x2 = x2
    i1 = i1
    i2 = i2
    n1 = n1
    n2 = n2
    n3 = n3
    Chains = {c1}
    Overlap = TRUE
    MaxFailures = 1
    Author = u1
    MaxTokens = 4
    Nodes = {n1, n2, n3}
    Weights = {0, 1}
    Reports = {10000}
    BoardIds = {b1, b2}
    ListIds = {l1, l2}
    CardIds = {x1, x2}
    Directors = {u1}
    MaxPosition = 1
    MaxNotices = 1
    Items = {i1, i2}
    SubmitAfter = {i1}
    Cells = {x1, x2}
    MaxEdits = 2
    MaxLost = 1
    Workers = {w1, w2, w3}
    People = {u1}
    MaxAlerts = 1
    Parts = {"sessions"}
INVARIANT WaitEndsWithTheMutex
CHECK_DEADLOCK FALSE
