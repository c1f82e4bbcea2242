CONSTANTS
  SeqCount = 16
  WinBits = 4
  Window = 2
  EmitMax = 1
  Base = 13
  NoFrame = NoFrame
  NoThread = NoThread
  Rx = {r1, r2}
  NC = 2
  MaxN = 4
  MaxEpoch = 3
  Chunks <- TwoClasses
SPECIFICATION FairSpec
PROPERTIES CachedLeaves ResetEnds ReceiveReturns
CHECK_DEADLOCK FALSE
