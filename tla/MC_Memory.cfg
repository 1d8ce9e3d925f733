\* Safety of the transfer engine under publish and allocation failures, a
\* producer that rewrites and recreates files, and locks that always work;
\* the engine refines the stream protocol of TransferStream; and every
\* control message is freed on each return of process_msg.
CONSTANTS
    p1 = p1
    p2 = p2
    f1 = f1
    f2 = f2
    r1 = r1
    r2 = r2
    r3 = r3
    Paths = {p1, p2}
    FileIds = {f1, f2}
    ReqIds = {r1, r2, r3}
    Requests <- MCRequests
    Malformed = Malformed
    MaxSize = 3
    MaxInodes = 3
    MaxWrites = 1
    MaxSubmit = 3
    MaxRedeliver = 0
    LockMayFail = FALSE
    WriterUsesFlock = TRUE
    PublishMayFail = TRUE
    AllocMayFail = TRUE

SPECIFICATION MSpec
CHECK_DEADLOCK FALSE
INVARIANT TypeOK FinMatchesChunks FailFast ResultReflectsBatch MessageFreedPerRequest
PROPERTY ImplementsStream
