SPECIFICATION Spec
CONSTANTS
  small = small
  large = large
  broken = broken
  key1 = key1
  key2 = key2
  Files <- MCFiles
  Signals <- MCSignals
  Packaged <- MCPackaged
  MaxSignals = 2
  Keys <- MCKeys
  Requests <- MCRequests
  Prefixes = TRUE
  MaxLoads = 2
  MaxBoots = 1
INVARIANTS
  CacheTellsDbc
  NothingOutlivesItsDbc
