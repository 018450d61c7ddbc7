SPECIFICATION FairSpec
CONSTANTS
  NumWorkers = 3
  UInt32 = 12
  Ranges <- ShortRanges
  MaxRuns = 2
  MaxReentries = 1
  MaxSpurious = 0
INVARIANTS IndInv NoStrayCall QuiescentOnReturn SuccessMeansAllSucceeded ReentryIsNeverForgotten
PROPERTIES ImplementsContract CallsReturn
