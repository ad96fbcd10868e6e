CONSTANTS
  i1 = i1
  i2 = i2
  r1 = r1
  r2 = r2
  Image = {i1, i2}
  MaxImages = 2
  Request = {r1, r2}
  Status = {404, 502}
SPECIFICATION Spec
INVARIANTS PostsShowImages AnswersAreTrue
PROPERTY NoImageLost
SYMMETRY Symmetry
CHECK_DEADLOCK FALSE
