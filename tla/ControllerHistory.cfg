SPECIFICATION FairHistorySpec
CONSTANTS
  Guardian = {g1, g2}
  Genesis = g1
  Tx = {t1, t2}
  Request = {r1}
  Query = {q1}
  PageLimit = 2
  None = None
  MaxAttempts = 1
  MaxStalls = 1
CONSTRAINT ChainAndRequests
INVARIANT AnswersAreTrue
PROPERTY EveryRequestIsAnswered
CHECK_DEADLOCK FALSE
