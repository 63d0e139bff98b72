SPECIFICATION SchedulerFairSpec
CONSTANTS
  a = a
  b = b
  c = c
  Hosts <- MCHosts
  Selected <- MCHosts
  Changing <- MCChanging
  Limit = 2
  Encodable <- Lenient
  MaxUser = 1
INVARIANT OneScheduledJob
PROPERTY StaleRescanned
