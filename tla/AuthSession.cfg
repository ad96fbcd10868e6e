SPECIFICATION Spec
CONSTANTS
  Wallet = {w1, w2}
  Token = {t1, t2}
  Req = {r1, r2}
  None = None
  AccessTtl = 1
  BlockTtl = 1
  MaxNow = 1
  MaxRefresh = 1
  MaxExpiry = 2
  SameSecond = FALSE
  Ops = {"login", "refresh", "logout", "logoutAll", "spring", "did"}
SYMMETRY Symmetry
CONSTRAINTS LoginsSign OneVpSession OneBrought DidAlone
INVARIANTS
  RevokedStaysBlocked
  VerifiedHadVp
  
PROPERTIES
  NoAdmissionAfterRevocation
  
