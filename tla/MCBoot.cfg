CONSTANTS
  Core = {0, 1, 2, 3}
  Layouts <- MCLayouts
SPECIFICATION FairSpec
INVARIANTS
  ClearedForC
  OnlyBssCleared
  StoresAligned
  OneKernel
  RegistersInEffect
  BootInv
PROPERTY KernelStarts
CHECK_DEADLOCK FALSE
