CONSTANTS
  p1 = p1
  p2 = p2
  w1 = w1
  w2 = w2
  w3 = w3
  a = a
  b = b
  s = s
  u1 = u1
  u2 = u2
  Processes = {p1, p2}
  Workers = {w1, w2, w3}
  ProcessOf <- MCProcessOf
  LexiconIds = {a, b}
  DefNames = {"main"}
  Documents <- MCDocuments
  NoDocument = NoDocument
  NoWorker = NoWorker
  Clashes <- MCClashes
  Filesystem <- MCFilesystem
  MaxUpload = 2
  Users = {admin, other}
  Nobody = nobody
  AdminDIDs = {admin}
  Subjects = {s}
  Vals = {"spam", "new"}
  SeededVals = {"spam"}
  URLs = {u1, u2}
  NotStored = NotStored
  OldLabels <- MCOldLabels
  OldReports <- MCOldReports
  PageSize = 1
  MaxRequests = 2
  MaxReports = 2
SPECIFICATION Spec
SYMMETRY MCSymmetry
INVARIANTS
  ResolvedIsLabelled
  WalkIsComplete
  SnapshotAlwaysLoads
PROPERTIES
  RegistrationReplacesNothing
  RemovalsUndoneOnlyByOverlap
CHECK_DEADLOCK FALSE
