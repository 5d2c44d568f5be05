SPECIFICATION Spec
CONSTANTS
  Hosts = {h1}
  PolicyIds = {p1}
  Labels = {"l"}
  Movers = {}
  Mutations <- Retargets
  NoScript = NoScript
  ExitCodes = {0}
  MaxRevision = 2
  MaxIssues = 2
  MaxRuns = 1
  MaxLosses = 1
  LateRequests = 1
  None = None
PROPERTY
  AnswersLatestIssue
