\* A rear and a front camera; the surface comes up to twice.
SPECIFICATION FairSpec
CONSTANTS
    Cameras = {"0", "1"}
    Layout = "MonoAndFront"
    QueueSize = 2
    MaxOpens = 2
INVARIANTS
    OneFrameAfterStop
    StartsOnce
PROPERTIES
    StrandedForever
    RunEnds
CHECK_DEADLOCK FALSE
