\* Twenty-five command lines, each from start to end; the clock moves in three.
CONSTANTS
  MaxThreads = 3
  Main = Main
  Nobody = Nobody
  Batch = 4
  MaxNow = 4
  kBucketLimit <- MCBucketLimit
  FlagSets <- MCFlagSets
SPECIFICATION RunSpec
INVARIANTS
  StoreOpenInMethod FillSeqExact ReadWriteRatio
  HistogramExact MergeExact  LatencyAccounting ReportTruthful
CHECK_DEADLOCK FALSE
