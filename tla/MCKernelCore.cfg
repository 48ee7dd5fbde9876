CONSTANTS
  FifoDepth = 1
  Freq = 4
  Hz = 3
  MaxTime = 2
  OtherIds = {5}
  MaxDepth = 2
  MsgLen = 2
  Boards = {"virt", "rpi"}
SPECIFICATION Spec
INVARIANTS
  IInv
  TypeOK
  NoOverrun
  SleepsDrained
  UnmaskedWhenReady
  NoInterruptLeftActive
  UptimeNeverAhead
PROPERTIES
  FatalIsFinal
  ImplementsLife
CHECK_DEADLOCK FALSE
