\* The reader has room for two images; seven images, one frame may be queued.
SPECIFICATION FairReaderSpec
CONSTANTS
    Room = 2
    HandlerQueueSize = 1
    Buffers = 4
    MaxImages = 7
INVARIANTS
    LateOnlyAfterLeak
PROPERTIES
    StopCompletes
CHECK_DEADLOCK FALSE
