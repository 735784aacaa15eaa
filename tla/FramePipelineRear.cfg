\* The rear route with the tag detector; four frames, three of them routed.
SPECIFICATION FairSpec
CONSTANTS
  QueueSize = 2
  MaxFrames = 4
  MaxClears = 1
  Rendered = TRUE
  DetectorType = "APRILTAGS"
INVARIANTS
  NoOrphanFrame
  ConsumersFindTheirFrame
  EnqueueNeverFails
  InFlightBound
  GatesUncontended
PROPERTIES
  LeakOnlyByOvertaking
  RenderLossWindow
  FramesInOrder
  StoreSpec
  FramesLeave
CHECK_DEADLOCK FALSE
