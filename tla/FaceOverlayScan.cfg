SPECIFICATION Spec
CONSTANTS
  MaxSeq = 5
  ScanLimit = 3
  Width = 16
INVARIANTS
  ScanOnLiveNode
CHECK_DEADLOCK FALSE
