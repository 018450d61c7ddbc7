SPECIFICATION Spec
CONSTANTS
  Images <- Pictures
  Scripts <- Uneven
  Restarts <- RestartKinds
  K = 4
  ZRL = 2
  MaxRefBits = 4
INVARIANTS RefinementBitsFit
CHECK_DEADLOCK FALSE
