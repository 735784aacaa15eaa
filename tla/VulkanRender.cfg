\* Swapchains of three or four images, five frames.
SPECIFICATION FairSpec
CONSTANTS
    Lens = {3, 4}
    MaxFrames = 5
INVARIANTS
    FenceGuardsSlot
    OnePictureInFlight
    SemaphoreFree
PROPERTIES
    StuckForever
    RenderReturns
CHECK_DEADLOCK FALSE
