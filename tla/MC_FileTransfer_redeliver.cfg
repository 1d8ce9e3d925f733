\* The broker redelivers a control message (QoS 1).
CONSTANTS
    p1 = p1
    p2 = p2
    f1 = f1
    f2 = f2
    r1 = r1
    r2 = r2
    r3 = r3
    Paths = {p1, p2}
    FileIds = {f1, f2}
    ReqIds = {r1, r2, r3}
    Requests <- MCRequests
    Malformed = Malformed
    MaxSize = 3
    MaxInodes = 3
    MaxWrites = 1
    MaxSubmit = 3
    MaxRedeliver = 1
    LockMayFail = FALSE
    WriterUsesFlock = TRUE
    PublishMayFail = FALSE
    AllocMayFail = FALSE

SPECIFICATION Spec
CHECK_DEADLOCK FALSE
INVARIANT AtMostOneResult
