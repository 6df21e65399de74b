SPECIFICATION FairSpec
CONSTANTS
  Uris = {1, 2, 3, 4}
  Keys = {1, 2}
  Postgres = FALSE
  Fields = {"indexed_at", "record_created_at", "timeline", "search"}
  PageSize = 2
  Undecodable = {3}
  Matching = {1, 2, 3}
  MaxWrites = 1
INVARIANTS UnchangedOnceInOrder NothingLeftBehind
PROPERTIES WalkEnds
CHECK_DEADLOCK FALSE
