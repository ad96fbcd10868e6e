SPECIFICATION ChallengeSpec
CONSTANTS
  Address = {w1, w2}
  Challenge = {c1, c2, c3, c4}
  LoginRequest = {r1, r2, r3}
  Null = Null
  ChallengeTtl = 2
  MaxTime = 4
SYMMETRY Symmetry
INVARIANT ChallengeTypeOK
PROPERTY OnlyFreshChallengeIsTried
CHECK_DEADLOCK FALSE
