SPECIFICATION Spec
CONSTANTS
  edition1 = edition1
  edition2 = edition2
  none = none
  MaxRules = 2
  Editions <- MCOneEdition
  Empty = none
  StageEnabled = {TRUE}
  ModeCommands = {"SingleShot"}
PROPERTIES
  ArmedRuleFires
