SPECIFICATION ScratchSpec
CONSTANTS
  p1 = p1
  p2 = p2
  p3 = p3
  s1 = s1
  s2 = s2
  s3 = s3
  Shells = {p1, p2, p3}
  SessionIds = {s1, s2, s3}
  Dirs = {"d1", "d2", "d3"}
  MaxArtifacts = 0
  Cap = 1
  Scenarios <- MCScenarios
CHECK_DEADLOCK FALSE
PROPERTIES
  RecordedScratchHeld
