CONSTANTS
  t1 = t1
  t2 = t2
  t3 = t3
  t4 = t4
  p1 = p1
  p2 = p2
  p3 = p3
  Nobody = Nobody
  Threads = {t1, t2, t3, t4}
  Procs = {p1, p2, p3}
  ProcOf <- MCProcOf
SPECIFICATION Spec
INVARIANTS TableExact NoOrphanLock SoleExclusion
