\* One run on two hosts: two requests and the reads of its stream overlap.
CONSTANTS
  Hosts = {h1, h2}
  Ids = {q1}
  Requests = {r1, r2}
  Timeout = 1
  Retention = 0
  MaxClock = 1
  None = None
SPECIFICATION FairSpec
INVARIANT CompletedStreamsToldAll
PROPERTIES
  ImplementsRuns
  StreamsEnd
CHECK_DEADLOCK FALSE
