CONSTANTS
  FifoDepth = 1
  Freq = 4
  Hz = 3
  MaxTime = 1
  OtherIds = {5}
  MaxDepth = 3
  MsgLen = 2
  Boards = {"rpi"}
SPECIFICATION Spec
INVARIANTS
  ReturnsToInterrupted
  OnlyHandledReturn
  StopsAreDiagnosed
CHECK_DEADLOCK FALSE
