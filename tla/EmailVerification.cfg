SPECIFICATION EmailSpec
CONSTANTS
  EmailRequest = {r1, r2}
  None = None
  CodeTtl = 2
  MaxNow = 3
  MaxSends = 2
  MaxWrong = 4
  MaxAttempts = 1
  MaxStalls = 0
SYMMETRY Symmetry
INVARIANTS
  EmailTypeOK
  AttemptsAreGuesses
  ReturnedCodeIsCounted
CHECK_DEADLOCK FALSE
