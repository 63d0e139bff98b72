SPECIFICATION SchedulerFairSpec
CONSTANTS
  a = a
  b = b
  c = c
  Hosts <- MCHosts
  Selected <- MCHosts
  Changing <- MCChanging
  Limit = 2
  Encodable <- Pgx
  MaxUser = 1
PROPERTY StaleRescanned
