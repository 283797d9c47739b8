\* One call; MainActivity resumes and is recreated, which doubles the events.
SPECIFICATION Spec
CONSTANTS
  Ids = {i1}
  MaxObjects = 6
  MaxPending = 1
  MaxEvents = 2
  MaxResumes = 1
  MaxActivities = 2
  ForceDisposition = FALSE
  NoCall = NoCall
  NoUuid = NoUuid
PROPERTIES
  EndedCallsAreRemoved
  RemovedCallsEnd
INVARIANTS
  TypeOK
  EndedCallLeaves
