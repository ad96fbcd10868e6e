SPECIFICATION Spec
CONSTANTS
  nose = nose
  photo = photo
  Images <- NoseAndPhoto
  Did = {d1, d2}
  Tx = {t1, t2}
  Form <- Forms
  Request = {r1, r2}
  None = None
  MaxAttempts = 2
  MaxStalls = 1
INVARIANTS
  TypeOK
  NoImageLost
  SyncAfterImages
  NothingBeforeChain
CONSTRAINTS PlainTogether SameOrOther OneRunsAgain OnlyNamedMove
SYMMETRY Symmetry
CHECK_DEADLOCK FALSE
