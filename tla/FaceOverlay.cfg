SPECIFICATION Spec
CONSTANTS
  MaxSeq = 6
  ScanLimit = 3
  Width = 16
INVARIANTS
  RendererServed
  NoOverlayLost
PROPERTIES
  HandoverSpec
CHECK_DEADLOCK FALSE
