SPECIFICATION DeviceSpec
CONSTANTS
  NoValue = NoValue
  Unit = 10
  MaxAbs = 170
  Thresholds <- BothSides
  Raws <- MCRaws
  Pages = 2
  AlarmPage = 0
  Names = 1
  MaxAlarms = 2
  SummaryLimit = 2
  Day = 3
  NightLevel = 2
  Dim = 1
  Full = 4
  Items <- Shown
  Kind <- Kinds
  Judged = {"depth"}
  StaleAfter <- StaleTimes
  Messages <- Published
  States = 1
  Low = 0
  High = 2
  Displays <- OneEach
  Flags = {"signalk"}
  Night = TRUE
  WillDelay = 1
  HostFails = TRUE
INVARIANTS
  Agrees
  TilesTrue
  TouchTrue
PROPERTIES
  NoChatter
  AlarmsAndNight
  StaleBlanks
CHECK_DEADLOCK FALSE
