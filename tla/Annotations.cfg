SPECIFICATION FairSpec
CONSTANTS
  t1 = t1
  t2 = t2
  s1 = s1
  s2 = s2
  Node = Node
  Null = Null
  Targets = {t1, t2}
  Snapshots = {s1, s2}
  Collections = {"c1"}
  Notes = {"n1"}
  Views = {"v1"}
  TargetOf <- TwoOfOne
  Newer <- SecondNewer
  Adds = {"a1"}
  Rescans = {"r1", "r2"}
  MaxConns = 2
  Retention = 1
  TrashRetention = 1
  Scenarios <- AllScenarios
INVARIANTS
  RefsResolve
PROPERTIES
  OnlyTrashVanishes
  RescansEnd
