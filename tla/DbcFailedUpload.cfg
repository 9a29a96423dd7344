SPECIFICATION Spec
CONSTANTS
  small = small
  large = large
  broken = broken
  key1 = key1
  key2 = key2
  Files <- MCFiles
  Signals <- MCSignals
  Packaged <- MCPackaged
  MaxSignals = 2
  Keys <- MCKeys
  Requests <- MCRequests
  Prefixes = FALSE
  MaxLoads = 1
  MaxBoots = 0
INVARIANTS
  LoadedDbcParsed
