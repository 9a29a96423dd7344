SPECIFICATION WebPagesSpec
CONSTANTS
  MaxCalls = 2
  MaxUserSteps <- MCUserSteps
  MaxId = 4
  MaxProfiles = 4
  MaxRules = 3
  MaxAlerts = 1
  Builders <- MCBuilders
  Files <- MCFiles
  XMin = 0
  XMax = 4
  XStep = 1
  LockMax = 2
  MaxPoints = 4
  SettingMax = 2
  Curves <- MCCurves
  TypedX <- MCTypedX
  TypedLock <- MCTypedLock
  TypedSettings <- MCTypedSettings
  DefaultSpeed <- MCDefaultSpeed
  DefaultThrottle <- MCDefaultThrottle
  DefaultLock <- MCDefaultLock
  SpeedMax = 3
  ThrottleMax = 3
  CellMax = 3
  Maps <- MCMaps
  MapNames = {"a", "b"}
  Texts <- MCTexts
  TypedCells <- MCTypedCells
  Inputs = {"speed", "rpm"}
  DecodedSignals = {"rpm"}
  FirmwareKey <- MCFirmwareKey
  OverrideKey <- MCOverrideKey
  TypedKeys = {"typed"}
  MaxSlots = 4
  Bases = {"base", "other"}
  NoQuery = "none"
  ByteBits = 2
  Bytes = 2
  FloatBits = 3
  Keys <- MCKeys
  Answers <- MCAnswers
  Ranges <- MCRanges
  Filters <- MCFilters
  MaxEdits = 3
INVARIANTS
  ReplaceMakesTheFrameShown
  TableShowsLatest
  BaseIsRemembered
  BackdropHasMenu
  SelectedSlotExists
  ProfileKeepsPage
  ProfilesAreSound
  SaveLosesNothing
  CurveIsShown
  MapTextRoundTrips
PROPERTIES
  PausedTableStands
  OnlyRacesGiveUp
  AlertsStay
  SettingsKeepOthers
  SavedAsIsShown
CHECK_DEADLOCK FALSE
