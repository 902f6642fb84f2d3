\* Restores against operations and a shutdown.
SPECIFICATION FairSpec
CONSTANTS
    i1 = i1
    i2 = i2
    w1 = w1
    w2 = w2
    r1 = r1
    r2 = r2
    o1 = o1
    m1 = m1
    x1 = x1
    c1 = c1
    None = None
    Connections = {c1}
    Requests = {i1, r1, r2}
    Method <- MCMethod
    MaxActive = 2
    MaxCompleted = 1
    MaxProgress = 0
    Calls = {"drain", "shutdown"}
    TaskPerMessage = TRUE
CHECK_DEADLOCK FALSE
INVARIANTS RestoreAlone DrainedIdle
PROPERTIES EverySettled ShutdownEnds RestoreEnds
