SPECIFICATION Spec
CONSTANTS
  Clients = {alice, bob, carol}
  None = None
  Newcomer = carol
  First = alice
  Knows <- NewcomerUnknown
  Budget <- TwoStartsOneDeletion
INVARIANTS
  MatchInv
  ConversationsMatch
  InsertSucceeds
PROPERTIES
  AgreementHolds
