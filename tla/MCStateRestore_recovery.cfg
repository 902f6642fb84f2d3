\* One Host on a profile without its database, one crash.
SPECIFICATION Spec
CONSTANTS
    None = None  Own = Own
    h1 = h1  h2 = h2  r1 = r1  r2 = r2
    Hosts = {h1}
    Restores = {r1, r2}
    MaxCrashes = 1
    MaxFaults = 0
    MaxEdits = 0
CHECK_DEADLOCK FALSE
INVARIANTS RecoveryCanRestore
