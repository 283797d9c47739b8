\* One call, made or received, under fair delivery.
SPECIFICATION Spec
CONSTANTS
  Ids = {i1}
  Directions = {{}, {i1}}
  Strays = {}
  MaxObjects = 1
  MaxPending = 1
  MaxRequests = 1
  MaxEvents = 1
  ForceDisposition = TRUE
  NoCall = NoCall
  NoUuid = NoUuid
INVARIANTS
  TypeOK
PROPERTIES
  EndedCallsLeaveCallKit
  RemovedCallsEnd
