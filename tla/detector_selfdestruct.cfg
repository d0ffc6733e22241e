\* Contracts may execute SELFDESTRUCT.
SPECIFICATION FullDetectorSpec
CONSTANTS
  FillsOnly = FALSE
  MaxDepth = 3
  MaxLogs = 4
INVARIANT CompleteMeansExited
CHECK_DEADLOCK FALSE
