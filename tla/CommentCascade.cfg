SPECIFICATION Spec
CONSTANTS
  u1 = u1
  p1 = p1
  Users = {u1, u2}
  Posts = {p1}
  Comments = {c1, c2, c3}
  Handlers = {h1}
  MaxFailures = 0
  None = None
  Author <- MCAuthor
SYMMETRY Symmetry
INVARIANT RemovalCorrectsCounter
CHECK_DEADLOCK FALSE
