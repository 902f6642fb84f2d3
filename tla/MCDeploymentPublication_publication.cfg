\* Trees and files are replaced or removed while their user edits them.
SPECIFICATION FairSpec
CONSTANTS
    old1 = old1  new1 = new1
    old2 = old2  new2 = new2
    user1 = user1  user2 = user2
    Absent = Absent  Torn = Torn
    Bytes = {old1, new1, old2, new2, user1, user2}
    N = 2
    Kind <- TreeAndFile
    Plans <- MCPlans
    Edited <- MCEdited
    MaxId = 8
    MaxFaults = 2
    MaxTorn = 1
    MaxEdits = 2
CHECK_DEADLOCK FALSE
INVARIANTS TypeOK WantedTreeKept ReceiptsAccepted
PROPERTIES UserBytesKept ResolvedToOneSide EventuallyResolved
