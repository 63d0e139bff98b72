SPECIFICATION Spec
CONSTANTS
  s1 = s1
  s2 = s2
  s3 = s3
  s4 = s4
  None = None
  Scans = {s1, s2, s3, s4}
  Contents = {"A", "B", "C", "D"}
  WithThumb <- Thumbs
  MaxTargets = 2
  Scenarios <- AllScenarios
INVARIANTS
  RefsResolve
  RetentionHolds
  JobsEnd
PROPERTIES
  PruneKeepsNewest
  ChangesVersusPrevious
