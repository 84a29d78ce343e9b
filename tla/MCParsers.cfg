CONSTANTS
  Sources = {1, 2}
  Length = 3
  Filed <- SecondFiled
  Broken <- LastBroken
  Invalid <- FirstInvalid
  UploadQuota = 1
  MaxUploads = 3
  MaxMishaps = 3
  NoRequest = NoRequest
SPECIFICATION FairParsersSpec
INVARIANTS
  SeenIsTaken
PROPERTIES
  ItemsArrive
CHECK_DEADLOCK FALSE
