SPECIFICATION Spec
CONSTANTS
  Hosts = {h1}
  PolicyIds = {p1}
  Labels = {"l"}
  Movers = {}
  Mutations <- Edits
  NoScript = NoScript
  ExitCodes = {0}
  MaxRevision = 2
  MaxIssues = 2
  MaxRuns = 1
  MaxLosses = 1
  LateRequests = 0
  None = None
PROPERTY
  RunsAreNotRedelivered
