SPECIFICATION Spec
CONSTANTS
  Layers <- MCLayers
  Frames <- MCFrames
  MaxCaptured = 2
  MaxDecoded = 3
  MaxTasks = 1
INVARIANTS
  TypeOK
  EveryFrameOnce
  BestMatch
  FramesAccounted
  CacheFresh
CHECK_DEADLOCK FALSE
