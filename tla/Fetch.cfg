SPECIFICATION FairSpec
CONSTANTS
  Bob = Bob
  Carol = Carol
  Lists <- UpToTwoConversations
  None = None
  MaxTime = 3
  MaxLogIns = 2
  MaxUpdates = 1
INVARIANTS
  TypeOK
  RepliesExpected
  InsertSucceeds
  BlockedWhileFetching
  OnlyIgnoredMissed
PROPERTIES
  ControlsReturn
