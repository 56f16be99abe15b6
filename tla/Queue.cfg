SPECIFICATION FairSpec
CONSTANTS
  UI = UI
  Async = Async
  Net = Net
  A = A
  B = B
  C = C
  Threads <- ClientThreads
  NoThread = NoThread
  Values <- SomeValues
  NoValue = NoValue
INVARIANTS
  TypeOK
  SizeAgrees
  OneConsumerSafe
PROPERTIES
  FifoHolds
  Delivered
