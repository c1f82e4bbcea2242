CONSTANTS
  Links = {l1, l2}
  Packets <- ThreePackets
  Batches <- SomeBatches
  Base = 12
  Window = 2
  Ways = 1
  Ttl = 1
  GcEvery = 1
  None = None
  SeqCount = 16
  WinBits = 2
  MaxArrivals = 4
  MaxTime = 2
  MaxEpoch = 4
SPECIFICATION Spec
INVARIANTS RefsExact NoOldEntries LossExact
PROPERTY ChannelSpec
SYMMETRY Symmetry
CHECK_DEADLOCK FALSE
