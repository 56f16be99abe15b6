SPECIFICATION FairSpec
CONSTANTS
  Clients = {alice, bob}
  None = None
  Newcomer = None
  First = None
  Knows <- AllKnown
  Budget <- TwoStartsOneFile
PROPERTIES
  SetUpEnds
  ControlsReturn
