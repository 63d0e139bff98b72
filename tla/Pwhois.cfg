SPECIFICATION PwhoisFairSpec
CONSTANTS
  s1 = s1
  s2 = s2
  pub = pub
  other = other
  Snapshots = {s1, s2}
  Addresses = {pub, other}
  Routable = {{pub}, {pub, other}}
  maxRetries = 1
  Limits = {1, 2}
PROPERTIES
  TodayKept
  EventuallyLookedUp
