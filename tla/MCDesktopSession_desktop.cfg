\* An old and a new process, one control request, any number of restarts.
SPECIFICATION FairSpec
CONSTANTS
    None = None
    Hosts = {h1, h2}
    Requests = {q1}
CHECK_DEADLOCK FALSE
INVARIANTS OneHost ReadyHasBooted QuitLeavesNoHost
PROPERTIES StartupEnds QuitEnds ReadyAccepts StoppedIsReceipt
