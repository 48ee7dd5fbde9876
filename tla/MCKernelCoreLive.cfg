CONSTANTS
  FifoDepth = 1
  Freq = 4
  Hz = 3
  MaxTime = 2
  OtherIds = {}
  MaxDepth = 2
  MsgLen = 1
  Boards = {"virt", "rpi"}
SPECIFICATION FairSpec
PROPERTIES
  TimerServed
  FatalReachesSleep
  RestartHappens
CHECK_DEADLOCK FALSE
