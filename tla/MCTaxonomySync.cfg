CONSTANTS
  Tools = {t1, t2}
  Facets = {axis1, axis2, axis3}
  Values = {value1, value2, value3, value4}
  Sources = {source1}
  axis1 = axis1
  axis2 = axis2
  axis3 = axis3
  value1 = value1
  value2 = value2
  value3 = value3
  value4 = value4
  source1 = source1
  FacetOf <- MCFacetOf
  File <- MCFile
  Starts <- MCStarts
  Kinds = {"single", "multi"}
  MaxEdits = 1
  MaxFaults = 1
  Absent = Absent
SPECIFICATION FairSyncSpec
INVARIANTS
  ToolsAreRight
PROPERTIES
  EditsSurvive
  Converges
CHECK_DEADLOCK FALSE
