SPECIFICATION Spec
CONSTANTS
  Ann = Ann
  Bob = Bob
  Carol = Carol
  Letter = Letter
  None = None
  Changed = Changed
  Clients <- Three
  Files <- OneFile
  Size <- OneChunk
  Lists <- Everyone
  MaxAsks = 2
  Growth = 1
INVARIANTS
  SentToAcceptor
