SPECIFICATION Spec
CONSTANTS
  key1 = key1
  key2 = key2
  key3 = key3
  MaxEntries = 2
  Keys <- MCKeys
  Home <- MCHome
  Bytes <- MCBytes
  Values <- MCValues
  TimeModulus = 7
  Millisecond = 2
  Frames <- MCFrames
  MaxUpdates = 3
INVARIANTS
  NoTornRow
  OneEntryPerKey
  SettledRowsListed
  EntriesAreTrue
