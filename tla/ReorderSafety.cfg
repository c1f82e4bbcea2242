CONSTANTS
  SeqCount = 16
  WinBits = 4
  Window = 2
  EmitMax = 2
  Base = 13
  NoFrame = NoFrame
  NoThread = NoThread
  Rx = {r1, r2}
  NC = 1
  MaxN = 4
  MaxEpoch = 4
  Chunks <- OneClass
SPECIFICATION Spec
SYMMETRY RxSymmetry
INVARIANTS SlotsSound OneDeliverer ResetIsQuiet
PROPERTIES DeliveredInOrder FramesKept
CHECK_DEADLOCK FALSE
