SPECIFICATION FairSpec
CONSTANTS
  NumWorkers = 0
  UInt32 = 12
  Ranges <- ShortRanges
  MaxRuns = 4
  MaxReentries = 0
  MaxSpurious = 0
PROPERTIES ImplementsContract
