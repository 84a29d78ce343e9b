CONSTANTS
  News = {1, 2}
  Values = {1, 2}
  Classifiers = {1}
  Policies <- MCPolicies
  FirstPolicy <- MCFirstPolicy
  Confidences = {0, 1}
  Given <- MCGiven
  Workers = {w1, w2}
  Batch = 1
  MaxWrites = 2
  MaxChanges = 1
  MaxIncidents = 1
  None = None
  Dimensions = {urgency}
  Top = 3
  NoScore = NoScore
SPECIFICATION FairLabelsSpec
INVARIANTS
  StaleIsScheduled
  ManualHolds
  ScoresAgree
  ExamplesAreRight
CHECK_DEADLOCK FALSE
PROPERTIES
  Converges
