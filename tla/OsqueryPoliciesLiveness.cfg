SPECIFICATION FairSpec
CONSTANTS
  Hosts = {h1}
  PolicyIds = {p1}
  Labels = {"l"}
  Movers = {h1}
  Mutations <- Few
  NoScript = NoScript
  ExitCodes = {0}
  MaxRevision = 2
  MaxIssues = 3
  MaxRuns = 1
  MaxLosses = 1
  LateRequests = 1
  None = None
PROPERTIES
  EvaluationsSettle
  RunsFinish
  ImplementsRemediation
