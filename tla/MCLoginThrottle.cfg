CONSTANTS
  Clients = {c1, c2, c3}
  Addresses = {a1}
  Limit = 2
  Window = 3
  Base = 2
  MaxCooldown = 4
  Slots = 1
  Queue = 1
  MaxTime = 5
  MaxDelay = 1
  MaxAborts = 1
  Account = Account
  Nothing = Nothing
SPECIFICATION Spec
SYMMETRY ClientSymmetry
INVARIANTS
  VerifierHolds
  GuessesBounded
  RightsAreCurrent
CHECK_DEADLOCK FALSE
