SPECIFICATION Spec
CONSTANTS
  MaxRules = 2
  SeqModulus = 65536
  MaxStages = 3
  key1 = key1
  key2 = key2
  Keys <- MCKeys
  Ranges <- MCRanges
  Values <- MCValues
  Requests <- MCRequests
INVARIANTS
  OneRulePerIdentity
  ShadowMatchesTable
  AppliedInStageOrder
PROPERTIES
  RemovalTouchesOneRule
  ImplementsRuleSet
