CONSTANTS
  r1 = r1
  r2 = r2
  c1 = c1
  c2 = c2
  NoCid = NoCid
  Repos <- MCRepos
  Collections <- MCCollections
  Uris <- MCUris
  Edited <- MCEdited
  PDSOf <- MCPDSOf
  Actor = r1
  Cids = {k1, k2}
  FullRuns = {f1}
  ActorRuns = {a1}
  MaxHTTPConcurrent = 1
  MaxPDSWorkers = 1
  MaxConcurrentPerPDS = 2
  MaxConcurrentRepos = 2
  PanicsAt = {"write"}
  MaxCommits = 1
SPECIFICATION FairSpec
INVARIANTS CleanRunIsComplete RepairsFindTheirRows ChangesAreReal
PROPERTY RunsEnd
CHECK_DEADLOCK FALSE
