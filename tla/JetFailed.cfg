CONSTANTS
  Commits = {1, 2}
  Malformed = {}
  LoadMayFail = FALSE
  StopsCleanly = FALSE
  MaxEvents = 3
  MaxConns = 2
  MaxStarts = 2
  Buffer = 2
SPECIFICATION Spec
INVARIANTS CursorCoversApplied
CHECK_DEADLOCK FALSE
