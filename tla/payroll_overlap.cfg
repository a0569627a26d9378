SPECIFICATION Spec
CONSTANTS
    None = None
    c1 = c1
    c2 = c2
    c3 = c3
    w1 = w1
    w2 = w2
    x1 = x1
    x2 = x2
    Chains = {c1, c2}
    Workers = {w1, w2}
    Overlap = TRUE
    MaxFailures = 0
    MaxEdits = 1
    Extras = {x1}
INVARIANT TypeOK
INVARIANT WagesAreFounded
INVARIANT ExtrasAreTaken
INVARIANT HandlersFounded
CONSTRAINT Bounded
SYMMETRY Interchangeable
CHECK_DEADLOCK FALSE
