\* Three calls, each reported up to twice, and a telecom that answers late: a
\* connection left over from a call that is over may be given to a later one.
SPECIFICATION Spec
CONSTANTS
  Calls = {c1, c2, c3}
  NoId = NoId
  MaxReports = 2
  MaxRequests = 2
  MaxConnections = 3
SYMMETRY MCSymmetry
INVARIANTS
  TypeOK
  StreamingIsActive
PROPERTIES
  LiveCallKeepsConnection
CHECK_DEADLOCK FALSE
