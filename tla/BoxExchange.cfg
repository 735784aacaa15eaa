SPECIFICATION Spec
CONSTANTS
  MaxSeq = 4
  MaxTime = 9
  Hold = 2
  Fresh = 4
INVARIANTS
  OneOwner
  QueueMatchesMap
PROPERTIES
  RewindBounded
CHECK_DEADLOCK FALSE
