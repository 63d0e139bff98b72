SPECIFICATION FairSpec
CONSTANTS
  q1 = q1
  q2 = q2
  h1 = h1
  h2 = h2
  none = none
  Requests = {q1, q2}
  RuleSets <- MCRuleSets
  DefaultRules <- MCDefaultRules
  Keys = {"k1", "k2"}
  Hooks = {h1, h2}
  Slots = {1}
  Cases <- MCCases
INVARIANT ReaderKnows
PROPERTIES
  EntriesAreDifferences
  SecretsSurvive
  LoneRequestsAgree
  AskedForReaches
CHECK_DEADLOCK FALSE
