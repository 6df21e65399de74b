CONSTANTS
  DIDs = {1, 2, 3, 4}
  NotADID = 0
  Roots = {1}
  Awards <- MCAwards
  Badges <- MCBadges
  Responses <- MCResponses
  Anyone = Anyone
  RequireValid = TRUE
  MaxDegree = 3
  MaxVia = 2
  Caps = {2, 4}
  BatchSize = 1
  PageSize = 2
  MaxChanges = 2
  MaxPages = 2
SPECIFICATION ClosureSpec
INVARIANTS
  ClosureIsBetween
  PagesAreTheClosure
CHECK_DEADLOCK FALSE
