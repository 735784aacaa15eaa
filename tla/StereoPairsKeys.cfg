\* Pairs 1 and 3 have the same two keys.
SPECIFICATION Spec
CONSTANTS
  Id1 = 0
  Id2 = 2
  Routers = {"router1", "router2"}
  MaxFrames = 4
INVARIANTS
  TwinOnOtherCamera
CHECK_DEADLOCK FALSE
