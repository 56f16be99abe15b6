SPECIFICATION Spec
CONSTANTS
  A = A
  B = B
  M1 = M1
  M2 = M2
  Nobody = Nobody
  NoMachine = NoMachine
  Machines = {M1, M2}
  Accounts = {A, B}
  FirstFiles <- Files
  Spellings <- Few
INVARIANTS
  TypeOK
  RemembersLast
  StartsAgain
