SPECIFICATION FairSpec
CONSTANTS
  r1 = r1
  r2 = r2
  s1 = s1
  s2 = s2
  Reports <- MCReports
  Snapshots <- MCSnapshots
  SnapshotOf <- MCSnapshotOf
  WaitFor <- MCWaitFor
  MaxConcurrency = 1
  RenderTimeout = 2
  EnrichmentWait = 3
  MaxAge = 2
  Faults = {"db", "render"}
PROPERTIES
  ImplementsJobQueue
  PendingServed
  RestartEnds
