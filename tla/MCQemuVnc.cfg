SPECIFICATION FairSpec
CONSTANTS
  p1 = p1
  p2 = p2
  NoPid = NoPid
  Pids <- MCPids
  WaitTicks = 1
  StopTicks = 1
INVARIANTS
  AlwaysFindable
  OnlyQemuSignalled
  FsckOffline
  StopStops
  ImageIsWhole
PROPERTY
  CommandsReturn
