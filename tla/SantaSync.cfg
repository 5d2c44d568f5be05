SPECIFICATION FairSpec
CONSTANTS
  Identities = {1, 2}
  Contents <- AllContents
  NoRule = NoRule
  RuleType <- BinaryRules
  Resolutions <- FewRuleSets
  Digests = {d1, d2}
  PageSize = 1
  LateRequests = 0
  None = None
INVARIANTS
  TypeOK
  ConfirmedIsApplied
  NormalStartsFromApplied
  DownloadIsWholePayload
PROPERTIES
  Convergence
  AuthorityDroppedOnPromote
  ImplementsTransfer
CHECK_DEADLOCK TRUE
