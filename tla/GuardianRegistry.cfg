SPECIFICATION Spec
CONSTANTS
  Wallet = {g1, admin}
  Deployer = admin
  AdminSigner = admin
  Pet = {p1, p2}
  Declared = {3}
  Transaction = {t1, t2}
  Request = {r1, r2}
  None = None
SYMMETRY Symmetry
INVARIANTS
  RollIsExact
  LevelFollowsProof
  SuccessIsMined
CONSTRAINT Bounds
PROPERTIES
  ImplementsBook
  UnlinkTakesItsPet
CHECK_DEADLOCK FALSE
