CONSTANTS
  Slots = {s1, s2}
  Tokens = {t1}
  NoToken = NoToken
  MaxAttempts = 2
  MaxEdits = 1
SPECIFICATION FairSpec
INVARIANTS
  OneOpenAttempt
  AppliedToItsText
PROPERTIES
  KeepsFairPromise
CHECK_DEADLOCK FALSE
