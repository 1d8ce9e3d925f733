\* Whether the client holds memory across requests it has finished.
CONSTANTS
    p1 = p1
    p2 = p2
    f1 = f1
    f2 = f2
    r1 = r1
    r2 = r2
    r3 = r3
    Paths = {p1, p2}
    FileIds = {f1, f2}
    ReqIds = {r1, r2, r3}
    Requests <- MCRequests
    Malformed = Malformed
    MaxSize = 3
    MaxInodes = 3
    MaxWrites = 1
    MaxSubmit = 3
    MaxRedeliver = 0
    LockMayFail = FALSE
    WriterUsesFlock = TRUE
    PublishMayFail = TRUE
    AllocMayFail = TRUE

SPECIFICATION MSpec
CHECK_DEADLOCK FALSE
INVARIANT NoLeakBetweenRequests
