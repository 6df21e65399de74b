CONSTANTS
  r1 = r1
  r2 = r2
  c1 = c1
  c2 = c2
  NoCid = NoCid
  Repos <- MCRepos
  Collections <- MCCollections
  Uris <- MCUris
  Edited <- MCEdited
  PDSOf <- MCPDSOf
  Actor = r1
  Cids = {k1, k2}
  FullRuns = {f1}
  ActorRuns = {}
  MaxHTTPConcurrent = 1
  MaxPDSWorkers = 1
  MaxConcurrentPerPDS = 2
  MaxConcurrentRepos = 2
  PanicsAt = {"fetch"}
  MaxCommits = 0
SPECIFICATION FairSpec
PROPERTY OthersAreProcessed
CHECK_DEADLOCK FALSE
