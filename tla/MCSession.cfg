SPECIFICATION FairSpec
CONSTANTS
  MaxEdits = 2
  MaxSpawns = 2
  MaxEvicts = 1
  MaxFailures = 1
  Native <- MCNative
  Rustc <- MCRustc
  NativeVerdict = FALSE
INVARIANT OneAnalyzer NothingOutlives RestIsTruth
PROPERTY ComesToRest
CHECK_DEADLOCK FALSE
