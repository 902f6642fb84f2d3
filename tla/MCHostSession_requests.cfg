\* Two operations over a bound of one, a mutation and an observation.
SPECIFICATION Spec
CONSTANTS
    i1 = i1
    i2 = i2
    w1 = w1
    w2 = w2
    r1 = r1
    r2 = r2
    o1 = o1
    m1 = m1
    x1 = x1
    c1 = c1
    None = None
    Connections = {c1}
    Requests = {i1, w1, w2, o1, m1}
    Method <- MCMethod
    MaxActive = 1
    MaxCompleted = 1
    MaxProgress = 1
    Calls = {"shutdown"}
    TaskPerMessage = TRUE
CHECK_DEADLOCK FALSE
INVARIANTS NoProtocolFault SettledTruthfully
PROPERTIES SettledForGood
