\* Cameras 0 and 2, three routed pairs; pair 3 has the keys of pair 1.
SPECIFICATION Spec
CONSTANTS
  Id1 = 0
  Id2 = 2
  Routers = {router1, router2}
  router1 = router1
  router2 = router2
  MaxFrames = 4
SYMMETRY RouterSymmetry
CONSTRAINT KeysKeptApart
INVARIANTS
  TwinsLeaveTogether
  NoOrphanPair
PROPERTIES
  RenderLossByTwin
  HalvesSpec
CHECK_DEADLOCK FALSE
