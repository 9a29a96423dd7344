SPECIFICATION ReplaySpec
CONSTANTS
  MaxReplayFrames = 3
  Logs <- MCLogs
  Deltas <- MCDeltas
  LoopModes = {"PLAY_ONCE", "LOOP_RAW", "LOOP_WITH_COUNTER_CONTINUATION"}
  TimeModulus = 4
INVARIANTS
  UndisturbedReplayInOrder
  StopsWithinOneFrame
