CONSTANTS
  Runs = {r1, r2}
  NoRun = NoRun
  Attachments = {a1}
  Classifiers = {c1}
SPECIFICATION FairSpec
INVARIANTS
  NobodyForgotten
PROPERTIES
  AutoPublishedIsComplete
  NewsLeavesPipeline
