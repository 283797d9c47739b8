\* A call made and a call received, pushed or not, and the system's screen beside
\* the app's.
SPECIFICATION Spec
CONSTANTS
  Ids = {i1, i2}
  Directions = {{i2}}
  Strays = {}
  MaxObjects = 2
  MaxPending = 1
  MaxRequests = 1
  MaxEvents = 1
  ForceDisposition = FALSE
  NoCall = NoCall
  NoUuid = NoUuid
INVARIANTS
  NoCallUnseen
  ShownStateIsCurrent
  SystemAnswerCounts
