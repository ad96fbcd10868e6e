SPECIFICATION EmailSpec
CONSTANTS
  EmailRequest = {r1, r2}
  None = None
  CodeTtl = 2
  MaxNow = 0
  MaxSends = 1
  MaxWrong = 4
  MaxAttempts = 1
  MaxStalls = 0
SYMMETRY Symmetry
INVARIANT MaxThreeAttempts
CHECK_DEADLOCK FALSE
