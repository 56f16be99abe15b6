SPECIFICATION Spec
CONSTANTS
  A = A
  B = B
  Me = Me
  NoUser = NoUser
  Registered <- TwoUsers
  TextSizes <- LongTexts
  MaxActs = 3
INVARIANTS
  TypeOK
  SentToShown
  ShowsStored
  CalmIsSafe
