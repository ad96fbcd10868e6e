SPECIFICATION Spec
CONSTANTS
  Guardian = {g1, g2}
  Genesis = g1
  Tx = {t1, t2}
  Request = {r1, r2}
  None = None
  MaxAttempts = 2
  MaxStalls = 1
SYMMETRY Symmetry
CONSTRAINTS ToAnother OneQueueRuns ThrowsOrStalls
INVARIANTS
  TypeOK
  AnsweredTransferIsQueued
  CredentialsFollowClaims
PROPERTY ImplementsLedger
CHECK_DEADLOCK FALSE
