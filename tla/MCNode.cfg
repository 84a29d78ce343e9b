CONSTANTS
  Requests = {r1}
  Calls = {c1, c2}
  Skew = 2
  MaxTtl = 4
  Ttl = 2
  Patience = 7
  ProviderLimit = 2
  PostLimit = 2
  Offsets <- MCOffsets
  Installed <- MCInstalled
  LastSign = 3
  MaxTime = 14
  MaxRestarts = 1
SPECIFICATION FairNodeSpec
INVARIANTS
  ClassifiedOnce
  SignaturesLast
  MainStoresWhatIsMeant
PROPERTIES
  AcceptedEnds
CHECK_DEADLOCK FALSE
