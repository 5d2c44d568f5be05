SPECIFICATION Spec
CONSTANTS
  Hosts = {h1}
  PolicyIds = {p1, p2}
  Labels = {"l"}
  Movers = {}
  Mutations <- Unremediated
  NoScript = NoScript
  ExitCodes = {0}
  MaxRevision = 3
  MaxIssues = 2
  MaxRuns = 0
  MaxLosses = 1
  LateRequests = 1
  None = None
PROPERTIES
  AnswersLatestIssue
  CurrentAnswersAreRecorded
