SPECIFICATION PartSpec
CONSTANTS
  tank = tank
  door = door
  Entities = {tank}
  MaxControls = 6
  DrainLimit = 2
  Modes = {"events"}
  MaxSessions = 2
  MaxChanges = 1
CHECK_DEADLOCK FALSE
INVARIANTS
  ShownFresh
