SPECIFICATION Spec
CONSTANTS
  RxQueueSize = 3
  MaxPoll = 2
  RateCap = 2
  MaxFrames = 3
  MaxReplay = 1
INVARIANTS
  CountsAddUp
  BusesTakeTurns
PROPERTIES
  FramesInOrder
  DropsNeedAFullBurst
