SPECIFICATION FairSpec
CONSTANTS
  Ann = Ann
  Bob = Bob
  Carol = Carol
  Letter = Letter
  None = None
  Changed = Changed
  Clients <- Three
  Files <- OneFile
  Size <- OneChunk
  Lists <- AmidOrNew
  MaxAsks = 2
  Growth = 1
INVARIANTS
  TypeOK
  SentAfterAcceptance
  OpenForItsJob
PROPERTIES
  DeliveryHolds
  ExchangeEnds
