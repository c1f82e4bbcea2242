CONSTANTS
  Threads = {t1, t2}
  Admins = {a}
  Nodes = {n1, n2}
  Slots = {s1}
  NC = 2
  Targets = {l1, l2}
  Chunks <- SomeChunks
  IdCount = 3
  MaxChunk = 2
  MaxEpoch = 6
  None = None
SPECIFICATION Spec
INVARIANTS NumberNamesOneFrame NobodyStuck
PROPERTIES LinksSeeOrder QuietWhileReset
SYMMETRY Symmetry
CHECK_DEADLOCK FALSE
