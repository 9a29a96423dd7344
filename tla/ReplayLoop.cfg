SPECIFICATION ReplaySpec
CONSTANTS
  MaxReplayFrames = 1
  Logs <- MCOneLog
  Deltas <- MCSingleDeltas
  LoopModes = {"LOOP_RAW"}
  TimeModulus = 4
PROPERTIES
  TickReturns
