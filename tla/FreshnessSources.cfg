SPECIFICATION Spec
CONSTANTS
  depth = depth
  speed = speed
  anchor = anchor
  tank = tank
  Instruments = {}
  Notifications = {anchor}
  HaItems = {tank}
  Counted = {anchor, tank}
  Thresholds <- MCThresholds
  Absent <- SilenceIsOk
  Raws = {0}
  HaStates <- TankStates
  Unit = 10
  MaxAbs = 100
  StaleAfter = 3
  MinInterval = 2
  HaInterval = 1
  Heartbeat = 4
  TickInterval = 1
  Settle = 2
  ConnectTimeout = 1
  Resend = 1
  MaxTime = 5
CHECK_DEADLOCK FALSE
INVARIANTS
  SourcesTrue
