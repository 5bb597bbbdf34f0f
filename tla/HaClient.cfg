SPECIFICATION PartSpec
CONSTANTS
  tank = tank
  door = door
  Entities = {tank, door}
  MaxControls = 2
  DrainLimit = 2
  Modes = {"entities", "events"}
  MaxSessions = 3
  MaxChanges = 2
CHECK_DEADLOCK FALSE
INVARIANTS
  MailboxTrue
  FreshUnlessEarly
PROPERTIES
  Settles
