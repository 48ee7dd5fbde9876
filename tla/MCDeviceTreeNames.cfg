CONSTANTS
  CellValues = 4
  MaxRegions = 2
  Room = 2
  NameLengths = {0, 3}
  Headers <- MCGoodHeader
  Properties <- MCProperties
  NameOffset <- MCNameOffset
  Size = 48
SPECIFICATION Spec
INVARIANT NamesInStrings
CHECK_DEADLOCK FALSE
