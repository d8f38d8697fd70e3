\* Up to three readers beside BGWriter, and the plain benchmarks on none to four
\* threads, called any number of times in any order.
CONSTANTS
  MaxThreads = 4
  Main = Main
  Nobody = Nobody
SPECIFICATION FairSpec
INVARIANTS
  NobodyRunsEarly
  NoUseAfterReturn
  WriterOutlastsReaders
PROPERTY RunBenchmarkReturns
CHECK_DEADLOCK FALSE
