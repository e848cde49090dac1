SPECIFICATION FairSpec
CONSTANTS
  o1 = o1
  o2 = o2
  Objects = {o1, o2}
  NoConfig = NoConfig
  NoMessage = NoMessage
  Idle = Idle
  BufferSize = 1
  Settings <- MCSettings
  MaxEdits = 2
  MaxFaults = 1
CHECK_DEADLOCK FALSE
INVARIANT TypeOK
INVARIANT NothingLost
INVARIANT NobodyIsLeftOut
PROPERTY AppliedNeverGoesBack
PROPERTY EveryoneHears
