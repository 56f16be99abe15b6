SPECIFICATION Spec
CONSTANTS
  Threads = {ui, async, net}
  NoThread = NoThread
  MaxNest = 2
SYMMETRY ThreadSymmetry
INVARIANTS
  LockInv
  WriterExclusion
  SingleReaderSafe
