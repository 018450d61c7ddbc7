SPECIFICATION Spec
CONSTANTS
  Images <- Pictures
  Scripts <- AllScripts
  Restarts <- RestartKinds
  K = 4
  ZRL = 2
  MaxRefBits = 4
INVARIANTS ScansDecode TokensFit
CHECK_DEADLOCK FALSE
