SPECIFICATION Spec
CONSTANTS
  Passwords = {p1, p2}
  Tokens = {t1, t2}
  ResetTokens = {k1, k2}
  Handlers = {h1, h2}
  None = None
SYMMETRY Symmetry
INVARIANT ResetRevokesAllSessions
CHECK_DEADLOCK FALSE
