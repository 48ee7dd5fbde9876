CONSTANTS
  Digits = 2
  MaxWords = 3
  RestartCall = 15
  PanicCall = 240
  Sessions <- MCSessions
  Commands <- MCCommands
SPECIFICATION Spec
INVARIANTS
  ConsoleTypeOK
  NothingStale
  
  NumbersRight
PROPERTIES
  ImplementsLineDiscipline
CHECK_DEADLOCK FALSE
