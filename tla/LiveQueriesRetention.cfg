\* Two runs on one host: starting one deletes the other while it is read.
CONSTANTS
  Hosts = {h1}
  Ids = {q1, q2}
  Requests = {r1}
  Timeout = 1
  Retention = 0
  MaxClock = 3
  None = None
SYMMETRY Symmetry
CONSTRAINT AtMostTwo
SPECIFICATION Spec
INVARIANT TypeOK
PROPERTY ImplementsRuns
CHECK_DEADLOCK FALSE
