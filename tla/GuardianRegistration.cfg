SPECIFICATION FairSpec
CONSTANTS
  Request = {r1, r2}
  Tx = {registration, other}
  Registration = registration
  MaxRestarts = 1
  MaxAttempts = 1
  MaxStalls = 1
CONSTRAINTS OneQueueRuns
INVARIANTS
  OnlyConfirmedIsSynced
  PictureBeforeSignup
PROPERTY EveryRequestIsAnswered
CHECK_DEADLOCK FALSE
