SPECIFICATION FairSpec
CONSTANTS
  j1 = j1
  j2 = j2
  h1 = h1
  h2 = h2
  Jobs <- MCJobs
  Hosts <- MCHosts
  HostOf <- MCHostOf
  MaxConcurrency = 1
  Faults = {"timeout", "db", "run"}
PROPERTIES
  ImplementsJobQueue
  PendingServed
  StopCompletes
  RestartEnds
