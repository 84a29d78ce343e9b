CONSTANTS
  Workers = {w1, w2}
  MaxRuns = 2
  MaxAttempts = 2
  MaxIncidents = 2
  Contents = {"document"}
  Nothing = Nothing
  Urls = {1, 2, 3}
  MaxRedirects = 1
  MaxBytes = 2
  Undeclared = Undeclared
SPECIFICATION FairSpec
INVARIANTS
  KeptIsThere
  HiddenByAnotherRun
  FetchesAreBounded
PROPERTIES
  JobsEnd
CHECK_DEADLOCK FALSE
