SPECIFICATION Spec
CONSTANTS
  r1 = r1
  r2 = r2
  Rules = {r1, r2}
  MaxRules = 2
  Found <- MCFound
  WatchRows <- MCWatchRows
  MaxHandlers = 2
  MaxClicks = 2
  MaxFaults = 1
INVARIANTS
  RowActsOnItsRule
  LoadedIsObserved
PROPERTIES
  PageConverges
