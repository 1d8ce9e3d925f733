CONSTANTS
    q1 = q1
    q2 = q2
    Requests <- MCRequests
    Malformed <- MCMalformed
    MaxOutages = 2
SPECIFICATION Spec
\* The main thread blocks in nng_recvmsg when no request comes.
CHECK_DEADLOCK FALSE

PROPERTIES
    RequestsServed
