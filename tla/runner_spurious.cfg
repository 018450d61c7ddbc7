SPECIFICATION Spec
CONSTANTS
  NumWorkers = 2
  UInt32 = 12
  Ranges <- ShortRanges
  MaxRuns = 1
  MaxReentries = 0
  MaxSpurious = 1
INVARIANTS QuiescentOnReturn
