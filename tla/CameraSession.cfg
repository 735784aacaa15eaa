\* One camera, opened up to three times.
SPECIFICATION Spec
CONSTANTS
    Cameras = {"0"}
    Rear = {"0"}
    UseRenderScript = TRUE
    MaxAttempts = 3
    MaxStarts = 3
INVARIANTS NoPermitLost CreatesOnItsDevice
PROPERTIES ClosesOwnSession
