CONSTANTS
  Ids = {i1}
  NoId = NoId
  Collections = {c1}
  Any = Any
  MaxOps = 1
  MaxFrames = 3
  MaxSent = 4
  MaxEvents = 1
  Buffer = 1
SPECIFICATION Spec
INVARIANT CloseStopsAll
CHECK_DEADLOCK FALSE
