SPECIFICATION Spec
CONSTANTS
  Ann = Ann
  Bea = Bea
  None = None
  Credentials <- TwoCredentials
  MaxAttempts = 1
  MaxActs = 1
  MaxStarts = 1
INVARIANTS
  DatabaseUnderSignInPassword
