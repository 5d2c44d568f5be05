SPECIFICATION Spec
CONSTANTS
  Hosts = {h1}
  PolicyIds = {p1}
  Labels = {"l"}
  Movers = {h1}
  Mutations <- Edits
  NoScript = NoScript
  ExitCodes = {0, 1}
  MaxRevision = 3
  MaxIssues = 3
  MaxRuns = 2
  MaxLosses = 1
  LateRequests = 1
  None = None
INVARIANTS
  TypeOK
  StatusAnswersCurrentQuery
PROPERTIES
  OneAutomaticRunPerFailure
  StartedRunsAreCurrent
  PendingRunIsNotRequeued
  FirstReportStands
