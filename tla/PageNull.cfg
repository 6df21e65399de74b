SPECIFICATION FairSpec
CONSTANTS
  Uris = {1, 2, 3}
  Keys = {1, 2}
  Postgres = TRUE
  Fields = {"json"}
  PageSize = 1
  Undecodable = {}
  Matching = {1, 2, 3}
  MaxWrites = 0
INVARIANTS NothingLeftBehind
CHECK_DEADLOCK FALSE
