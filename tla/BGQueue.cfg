\* Two callers and the background thread itself schedule up to four items.
CONSTANTS
  Callers = {c1, c2}
  BG = BG
  Nobody = Nobody
  MaxItems = 4
SPECIFICATION FairSpec
INVARIANTS OnceInOrder NoLostWakeup
PROPERTY AllRun
CHECK_DEADLOCK FALSE
