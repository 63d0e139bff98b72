SPECIFICATION SpecInstallation
CONSTANTS
  u1 = u1  u2 = u2  k1 = k1  k2 = k2  h1 = h1  h2 = h2  q1 = q1  q2 = q2
  None = None
  Users = {u1, u2}
  Admin = u1
  Codes = {"c1"}
  Tokens = {k1, k2}
  Challenges = {h1, h2}
  Tabs = {q1, q2}
  MaxCodeAttempts = 2
  Scenarios <- AllScenarios
  TargetIds = {"t1", "t2"}
  HostOf <- MCHostOf
  Sources <- MCSources
  Destinations <- MCDestinations
  Later <- MCLater
  MaxChanges = 2
SYMMETRY Symmetry
INVARIANTS
  GuessesBounded
  LiveCodesUncounted
  AnswersFitChallenges
  RoundTrip
  SkipKeeps
  SnapshotsFollow
  MembersFollow
  WholeBundlesImport
CHECK_DEADLOCK FALSE
