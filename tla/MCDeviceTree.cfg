CONSTANTS
  CellValues = 4
  MaxRegions = 2
  Room = 2
  NameLengths = {0, 3}
  Headers <- MCHeaders
  Properties <- MCProperties
  NameOffset <- MCNameOffset
  Size = 104
SPECIFICATION FairSpec
INVARIANTS
  ReadsInBlob
  CursorInBounds
  ParserFollows
  RegionsAreDeclared
  WritesInHardwareInfo
PROPERTY ParsingEnds
CHECK_DEADLOCK FALSE
