SPECIFICATION Spec
CONSTANTS
  u1 = u1
  p1 = p1
  Users = {u1, u2}
  Posts = {p1, p2}
  Comments = {c1, c2}
  Handlers = {h1, h2}
  MaxFailures = 1
  None = None
  Author <- MCAuthor
CONSTRAINT OtherPostsOnlyHoldComments
SYMMETRY Symmetry
INVARIANTS TypeOK LikesMatchReactions FlatCommentsCounted RepliesHaveTheirParent AuthorsAreTold
CHECK_DEADLOCK FALSE
