\* The topic snprintf calls of send_file against the size of their buffer.
CONSTANTS
    FidLens <- MCFidLens
    Sizes <- MCSizes
    Chunks <- MCChunks
SPECIFICATION Spec
\* A transfer ends (done or failed) and the thread moves on.
CHECK_DEADLOCK FALSE
INVARIANT TopicFitsBuffer
