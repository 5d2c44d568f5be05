SPECIFICATION Spec
CONSTANTS
  Identities = {1}
  Contents <- PlainAndCompiler
  NoRule = NoRule
  RuleType <- BinaryRules
  Resolutions <- Demote
  Digests = {d1}
  PageSize = 1
  LateRequests = 0
  None = None
INVARIANT
  TransitiveRulesHaveAuthority
CHECK_DEADLOCK TRUE
