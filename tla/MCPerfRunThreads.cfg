SPECIFICATION FairSpec
CONSTANTS
  ExitCodes <- MCExitCodes
  MaxWork = 2
  MaxThreadWork = 5
INVARIANT
  WholeProcessCounted
