CONSTANTS
  Events = {e1, e2}
  Invalid = {e2}
  Publishers = {p1, p2}
  None = None
  Consumers = {c1, c2}
  MaxDeliver = 2
  MaxMessages = 3
  MaxIncidents = 1
SPECIFICATION FairSpec
INVARIANTS
  AppliedOnce
  NoReplayLost
PROPERTIES
  EventsEnd
CHECK_DEADLOCK FALSE
