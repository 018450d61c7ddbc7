SPECIFICATION Spec
CONSTANTS
  Images = 2
  Methods = 2
  HardwareThreads = 4
  ThreadArg = 3
  Modes = {"table", "details", "progress"}
  Generations = 0
  DecodeOnly = FALSE
  Outcomes <- AllOutcomes
  UnwritableReports <- Reports
INVARIANT ReportIsInOrder
INVARIANT ReturnsTheErrors
