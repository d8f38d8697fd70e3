\* Three threads and three files, one mapping and one descriptor to share.
CONSTANTS
  Threads = {t1, t2, t3}
  Files = {f1, f2, f3}
  MaxMmaps = 1
  MaxOpenFiles = 1
  None = None
SPECIFICATION Spec
INVARIANTS Conserved WithinLimits
