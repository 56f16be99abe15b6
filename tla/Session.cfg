SPECIFICATION FairSpec
CONSTANTS
  Ann = Ann
  Bea = Bea
  None = None
  Credentials <- TwoCredentials
  MaxAttempts = 2
  MaxActs = 3
  MaxStarts = 2
INVARIANTS
  TypeOK
  ModulesAgree
  SecuredUnlessLeftOver
  RequestsAuthenticated
  DatabaseOwner
  LogInPossible
PROPERTIES
  ControlsReturn
  LeavingEnds
