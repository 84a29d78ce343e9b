CONSTANTS
  Readers = {u1}
  Workers = {w1}
  Free = Free
  Accepted = {3}
  MaxRevision = 4
  Incidents = {"edit", "catalog", "trouble", "lost_reply", "lost_lock", "reindex"}
  MaxIncidents = 1
  Slugs = {"lenta", "portal"}
  Axes = {"topic"}
  Values = {"sport", "science"}
  Sizes = {0, 1, 2, 3, 4}
SPECIFICATION FairSpec
INVARIANTS
  RoutesAgree
  IndexIsCurrent
PROPERTIES
  FeedTellsTheTruth
  AnnouncedIsShown
CHECK_DEADLOCK FALSE
