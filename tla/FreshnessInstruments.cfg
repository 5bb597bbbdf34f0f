SPECIFICATION Spec
CONSTANTS
  depth = depth
  speed = speed
  anchor = anchor
  tank = tank
  Instruments = {depth}
  Notifications = {}
  HaItems = {}
  Counted = {depth}
  Thresholds <- MCThresholds
  Absent <- SilenceIsOk
  Raws = {5, 26, 44, 101}
  HaStates = {}
  Unit = 10
  MaxAbs = 100
  StaleAfter = 8
  MinInterval = 1
  HaInterval = 2
  Heartbeat = 4
  TickInterval = 1
  Settle = 3
  ConnectTimeout = 1
  Resend = 1
  MaxTime = 11
CHECK_DEADLOCK FALSE
INVARIANTS
  NoLostChange
  StaleInTime
  BoardTrue
