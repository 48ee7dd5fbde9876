CONSTANTS
  MaxDepth = 3
  CWords = 3
  Used = 2
SPECIFICATION Spec
INVARIANTS
  FrameFaithful
  ResumedIntact
CHECK_DEADLOCK FALSE
