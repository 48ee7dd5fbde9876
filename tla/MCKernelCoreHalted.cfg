CONSTANTS
  FifoDepth = 1
  Freq = 2
  Hz = 2
  MaxTime = 1
  OtherIds = {5}
  MaxDepth = 1
  MsgLen = 1
  Boards = {"rpi"}
SPECIFICATION Spec
PROPERTY HaltedExecutesNothing
CHECK_DEADLOCK FALSE
