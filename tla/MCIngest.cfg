CONSTANTS
  i1 = i1
  i2 = i2
  u1 = u1
  u2 = u2
  Requests <- FewRequests
  Handlers = {h1, h2}
  Uploads = {u1}
  NoFile = NoFile
  Nothing = Nothing
  Collectors = {c1, c2}
  Copies = {n1}
  Temp = Temp
  Quota = 1
  MaxIncidents = 1
SYMMETRY Interchangeable
SPECIFICATION FairIngestSpec
INVARIANTS
  AttachedIsKept
  CompletedIsKept
PROPERTIES
  KeepsPromise
CHECK_DEADLOCK FALSE
