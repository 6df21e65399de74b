CONSTANTS
  Handlers = {w1, w2}
  Proofs = {p1, p2}
  p1 = p1
  p2 = p2
  IssuedAt <- MCIssuedAt
  NoProof = NoProof
  MaxAge = 2
  Skew = 1
  Deadline = 1
  Retention = 3
  MaxClock = 7
SPECIFICATION DPoPSpec
INVARIANTS ProofAcceptedOnce
PROPERTIES JTIsAreForgotten
