CONSTANTS
  NumTests = 2
  MaxRuns = 2
  Modes = {"local", "pristine"}
SPECIFICATION FairSpec
INVARIANTS Graded  
PROPERTY RunnerReturns
CHECK_DEADLOCK FALSE
