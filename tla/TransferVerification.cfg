SPECIFICATION VerifySpec
CONSTANTS
  Image = {i1, i2}
  VerifyRequest = {r1, r2, r3}
  Null = Null
  Production = FALSE
  MaxAttempts = 2
  MaxStalls = 1
SYMMETRY Symmetry
INVARIANTS
  VerifyTypeOK
  ProofHasPicture
CHECK_DEADLOCK FALSE
