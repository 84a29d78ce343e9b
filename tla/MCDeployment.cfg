CONSTANTS
  ai = ai
  regex = regex
  Nodes = {ai, regex}
  Stores = {db, broker}
  Database = db
  Core = api
  Plans <- MCPlans
  Early = {ai}
  MaxDeploys = 2
  MaxIncidents = 2
  Nothing = Nothing
  Torn = Torn
SPECIFICATION FairSpec
INVARIANTS
  SecretsAgree
  CallbacksUnderstood
PROPERTIES
  ComesUp
CHECK_DEADLOCK FALSE
