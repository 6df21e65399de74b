CONSTANTS
  Ids = {i1}
  NoId = NoId
  Collections = {c1, c2}
  Any = Any
  MaxOps = 2
  MaxFrames = 2
  MaxSent = 4
  MaxEvents = 3
  Buffer = 2
SPECIFICATION LiveSpec
INVARIANTS RunningIsReachable StreamsAreClean
PROPERTIES SilentOnceUnregistered CancelledStops
CHECK_DEADLOCK FALSE
