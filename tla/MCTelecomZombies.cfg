\* What the loop of onLastCallEnded leaves behind.
SPECIFICATION Spec
CONSTANTS
  Calls = {c1, c2}
  NoId = NoId
  MaxReports = 2
  MaxRequests = 3
  MaxConnections = 4
INVARIANTS
  LastCallEndsConnections
CHECK_DEADLOCK FALSE
