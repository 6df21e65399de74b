CONSTANTS
  Workers = {p1, p2}
  Malformed = {3}
  MaxEvents = 3
  MaxFaults = 3
SPECIFICATION FairSpec
INVARIANTS CursorCoversLabels
PROPERTIES FatalIsSticky CursorOnlyAdvances StoredOrReported AheadIsReported
CHECK_DEADLOCK FALSE
