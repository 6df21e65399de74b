CONSTANTS
  Commits = {1, 3}
  Malformed = {2}
  LoadMayFail = TRUE
  StopsCleanly = TRUE
  MaxEvents = 4
  MaxConns = 2
  MaxStarts = 2
  Buffer = 2
SPECIFICATION Spec
INVARIANTS CursorCoversAttempted ConnectionLeavesNoGap
CHECK_DEADLOCK FALSE
