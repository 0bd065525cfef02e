SPECIFICATION FairSpec
CONSTANTS
  ExitCodes <- MCExitCodes
  MaxWork = 2
  MaxThreadWork = 1
INVARIANTS
  TypeOK
  NoUncountedWork
  CountsAreBenchmark
  SuccessIsEarned
  NothingLeftBehind
PROPERTY
  BothEnd
