CONSTANTS
  Objs = {o1, o2, o3}
  Null = Null
  Garbage = Garbage
  MaxRuns = 4
  MaxCrashes = 2
SPECIFICATION Spec
INVARIANTS Constructed NothingLeft 
CHECK_DEADLOCK FALSE
