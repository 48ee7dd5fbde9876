CONSTANTS
  CellValues = 4
  MaxRegions = 2
  Room = 2
  NameLengths = {0, 3}
  Headers <- MCHeaders
  Properties <- MCProperties
  NameOffset <- MCNameOffset
  Size = 40
SPECIFICATION Spec
INVARIANT FullMapAccepted
CHECK_DEADLOCK FALSE
