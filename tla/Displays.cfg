SPECIFICATION DisplaysSpec
CONSTANTS
  Displays = {d1, d2}
  Commands = {c1, c2}
  MaxMade = 2
  MaxCrashes = 1
  Builders = {b1, b2}
  Absent = absent
  Placeholder = placeholder
  MaxCommands = 3
  MaxChanges = 1
  MaxKills = 2
SYMMETRY Symmetric
INVARIANTS
  InSync
  Untouched
  RevokedStaysOut
  PlainGone
  ImagesTrue
  CleanedUp
