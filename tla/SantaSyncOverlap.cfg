SPECIFICATION Spec
CONSTANTS
  Identities = {1}
  Contents <- PlainAndBlock
  NoRule = NoRule
  RuleType <- BinaryRules
  Resolutions <- Flip
  Digests = {d1}
  PageSize = 1
  LateRequests = 1
  None = None
INVARIANT
  ConfirmedIsApplied
CHECK_DEADLOCK TRUE
