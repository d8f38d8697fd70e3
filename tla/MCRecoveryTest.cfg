CONSTANTS
  parent = parent
  child = child
  NUM_OP = 3
  ITERATION = 2
  Procs <- MCThreads
  Threads <- MCThreads
  ProcOf <- MCProcOf
  Keys <- MCKeys
  Values <- MCKeys
  Unreadable = {}
  None = None
SPECIFICATION FairTestSpec
INVARIANTS NoFalseAlarm RecoveredPrefix
PROPERTY TestEnds
CHECK_DEADLOCK FALSE
