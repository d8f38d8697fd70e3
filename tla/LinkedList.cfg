\* Three elements, so that the append to an empty list, to a list of one and
\* to a longer one all happen; four runs, so that each may follow a failure.
CONSTANTS
  Nodes = {n1, n2, n3}
  Null = Null
  NoLog = NoLog
  MaxRuns = 4
SPECIFICATION Spec
INVARIANTS ListConsistent CrashSafe
CHECK_DEADLOCK FALSE
