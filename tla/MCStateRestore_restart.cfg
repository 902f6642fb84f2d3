\* Two Hosts, two restores, crashes and a storage error anywhere.
SPECIFICATION FairSpec
CONSTANTS
    None = None  Own = Own
    h1 = h1  h2 = h2  r1 = r1  r2 = r2
    Hosts = {h1, h2}
    Restores = {r1, r2}
    MaxCrashes = 2
    MaxFaults = 1
    MaxEdits = 1
CHECK_DEADLOCK FALSE
INVARIANTS NeverStranded ServesSettled ArchivesReachable
PROPERTIES ReplacedAsAUnit StartsServe
