SPECIFICATION FairSpec
CONSTANTS
    None = None
    ann = ann
    bob = bob
    cat = cat
    dan = dan
    ops = ops
    fin = fin
    dir = dir
    north = north
    south = south
    usd = usd
    zwl = zwl
    par1 = par1
    par2 = par2
    any1 = any1
    any2 = any2
    top = top
    c1 = c1
    w1 = w1
    Users = {ann, bob, cat, dan}
    Roles = {ops, fin, dir}
    Sites = {north, south}
    Currencies = {usd, zwl}
    Rules = {par1, par2, any1, any2, top}
    Rule <- MCRule
    Assignments <- MCAssignments
    Delegations <- MCDelegations
    Requests <- AllRequests
    Chains = {c1}
    Workers = {w1}
    MaxTime = 1
    MaxFailures = 1
    EditableRules = {top}
INVARIANT StillWaiting
INVARIANT InboxAndAudienceAgree
PROPERTY ImplementsOutcomes
PROPERTY OutcomesDelivered
CHECK_DEADLOCK FALSE
