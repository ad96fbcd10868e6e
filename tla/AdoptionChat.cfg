CONSTANTS
  w1 = w1
  r1 = r1
  r2 = r2
  s1 = s1
  c1 = c1
  c2 = c2
  m1 = m1
  a1 = a1
  q1 = q1
  q2 = q2
  NoWallet = NoWallet
  Wallet = {w1}
  Room = {r1, r2}
  Socket = {s1}
  Call = {c1, c2}
  Msg = {m1}
  Adoption = {a1}
  Request = {q1, q2}
  Step = {"SIGNED"}
SPECIFICATION Spec
INVARIANTS TypeOK NoMessageMissed NewsIsTrue
SYMMETRY Symmetry
CONSTRAINT TwoHandlers
