CONSTANTS
  Workers = {w1, w2}
  Clients = {c1, c2}
  Users = {u1}
  Terms = {t1}
  NoUser = NoUser
  NoGrant = NoGrant
  MaxSessions = 1
  MaxIds = 3
  MaxTime = 1
  RequestLife = 0
  AccessLife = 0
  RefreshLife = 1
  Interval = 1
SYMMETRY Symmetric
SPECIFICATION Spec
INVARIANTS TokensCarryGrant ReturnFindsRequest
CHECK_DEADLOCK FALSE
