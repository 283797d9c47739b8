\* A call made, a call received, and a push whose call never comes.
SPECIFICATION Spec
CONSTANTS
  Ids = {i1, i2}
  Directions = {{i2}}
  Strays = {x1}
  MaxObjects = 2
  MaxPending = 1
  MaxRequests = 1
  MaxEvents = 1
  ForceDisposition = FALSE
  NoCall = NoCall
  NoUuid = NoUuid
INVARIANTS
  NamedCallIsKnown
