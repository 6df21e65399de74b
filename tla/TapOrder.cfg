CONSTANTS
  r1 = r1  r2 = r2  u1 = u1  u2 = u2  b1 = b1  b2 = b2  s1 = s1  s2 = s2  h1 = h1  h2 = h2
  Uris = {u1, u2}
  Bodies = {b1, b2}
  Dated = {b1}
  Snapshots = {s1}
  Disabled = Disabled
  Covered <- MCCovered
  Verdict <- MCVerdict
  NoBody = NoBody  NoCID = NoCID  NoHash = NoHash  NoRow = NoRow
  Repos = {r1}
  Handles = {}
  RepoOf <- OneRepo
  Events <- OrderEvents
  NoEvent = NoEvent  NoActor = NoActor  NoHandle = NoHandle
  AdminOps = {}
  HistoryMaySwitchOff = FALSE
  DisableAcks = FALSE
  TapHealthy = FALSE
  Rank <- MCRank
  LastRank = 2
  BatchSize = 1
  MaxEvents = 2
  MaxInbox = 2
SPECIFICATION Spec
INVARIANTS OrphanHistoryIsOwed HistoryCoversCurrent NoDuplicateTypedDelete
PROPERTIES DeleteRemovesHistory PublishedBeforeAck ImplementsIndexLog
CHECK_DEADLOCK FALSE
