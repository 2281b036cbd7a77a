SPECIFICATION Spec
CONSTANTS
  Passwords = {p1, p2}
  Tokens = {t1, t2, t3}
  ResetTokens = {k1}
  Handlers = {h1, h2}
  None = None
CONSTRAINT FewSideShows
SYMMETRY Symmetry
INVARIANTS SessionsUseCurrentPassword RotationSpendsTokens
           ResetTokensWorkOnce
PROPERTY RegisteredOnce
CHECK_DEADLOCK FALSE
