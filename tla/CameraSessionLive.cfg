\* A rear and a front camera, started once; a failure of one stops both contexts.
SPECIFICATION FairSpec
CONSTANTS
    Cameras = {"0", "1"}
    Rear = {"0"}
    UseRenderScript = TRUE
    MaxAttempts = 1
    MaxStarts = 1
INVARIANTS AnswerComes NoWaitingRing
PROPERTIES StartReturns StopReturns
