CONSTANTS
  kBufSize = 2
  MaxBytes = 5
  Lengths = {0, 3, 5}
  kBufferSize = 2
  MaxWrites = 2
SPECIFICATION FairStringSpec
INVARIANTS NothingLost InOrder SyncKept WriteOutcome ReadWhole
PROPERTY CallsReturn
