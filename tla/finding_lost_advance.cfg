SPECIFICATION Spec
CONSTANTS
    None = None
    ann = ann
    bob = bob
    cat = cat
    ops = ops
    fin = fin
    dir = dir
    north = north
    south = south
    usd = usd
    zwl = zwl
    par1 = par1
    par2 = par2
    any1 = any1
    any2 = any2
    top = top
    c1 = c1
    w1 = w1
    w2 = w2
    dan = dan
    Users = {ann, bob, cat}
    Roles = {ops, fin, dir}
    Sites = {north, south}
    Currencies = {usd, zwl}
    Rules = {par1, par2, any1, any2, top}
    Rule <- MCRule
    Assignments <- MCAssignments
    Delegations <- BobForCat
    Requests <- NorthHigh
    Chains = {c1}
    Workers = {w1, w2}
    MaxTime = 0
    MaxFailures = 0
    EditableRules = {}
INVARIANT StillWaiting
CHECK_DEADLOCK FALSE
