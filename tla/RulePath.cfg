SPECIFICATION Spec
CONSTANTS
  edition1 = edition1
  edition2 = edition2
  none = none
  MaxRules = 2
  Editions <- MCEditions
  Empty = none
  StageEnabled = {TRUE}
  ModeCommands = {"SingleShot"}
SYMMETRY Symmetry
INVARIANTS
  FrameSeesOneTable
  FiresOncePerArming
