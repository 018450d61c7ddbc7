SPECIFICATION Spec
CONSTANTS
  NumWorkers = 2
  UInt32 = 64
  Ranges <- LongRanges
  MaxRuns = 1
  MaxReentries = 0
  MaxSpurious = 2
INVARIANTS RangeNeverRepeated
\* With spurious wakeups the barrier can miss its count and wait for ever, so
\* the behaviour may stop: deadlock is not this run's question.
CHECK_DEADLOCK FALSE
