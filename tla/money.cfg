SPECIFICATION Spec
CONSTANTS
    None = None
    c1 = c1
    c2 = c2
    w1 = w1
    w2 = w2
    u1 = u1
    u2 = u2
    b1 = b1
    b2 = b2
    e1 = e1
    e2 = e2
    x1 = x1
    x2 = x2
    r1 = r1
    r2 = r2
    s1 = s1
    s2 = s2
    Chains = {c1, c2}
    Workers = {w1, w2}
    Overlap = TRUE
    MaxFailures = 1
    People = {u1, u2}
    Author = u1
    Budgets = {b1, b2}
    Employees = {e1, e2}
    Assignments = {x1, x2}
    MonthEnds <- TwoMonths
    MinDays = 1
    Receipts = {r1, r2}
    Claims = {r2}
    Sites = {s1, s2}
    MaxMoney = 2
    LastDay = 4
    Backfill = 2
    ClosingDay = 2
    Books <- MCBooks
    LastImportDay = 2
    MaxRows = 2
    Parts = {"petty", "budgets", "backPay", "acting", "receipts", "returns", "loan", "debt", "health", "import"}
INVARIANT MoneyTypeOK
INVARIANT MoneyAuthorised
INVARIANT MoneyAgrees
PROPERTY MoneyKept
CONSTRAINT Bounded
SYMMETRY Interchangeable
CHECK_DEADLOCK FALSE
