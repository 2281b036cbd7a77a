SPECIFICATION Spec
CONSTANTS
  Users = {u1, u2}
  Handlers = {h1, h2}
  RowIds = {r1, r2}
  None = None
SYMMETRY Symmetry
INVARIANT BlockTearsDown
