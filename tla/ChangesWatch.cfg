SPECIFICATION Spec
CONSTANTS
  key1 = key1
  key2 = key2
  MaxEntries = 2
  Keys <- MCKeys
  Bytes <- MCBytes
  Values = {0, 1}
  Frames <- MCFrames
  MaxFrames = 3
  MaxSessions = 3
INVARIANTS
  StableBytesStood
  DroppedBytesMoved
