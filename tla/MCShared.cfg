SPECIFICATION SharedSpec
CONSTANTS
  None = None
  Counters = {k1}
  Calls = {c1, c2, c3}
  Budget = 2
  MaxWindows = 2
  MaxHits = 5
  PoolSize = 3
  MaxLinks = 3
  Media = {f1, f2}
  Uploaders = {u1}
  Workers = {w1, w2}
  r1 = r1
  r2 = r2
  r3 = r3
  me = me
  friend = friend
  star = star
  Rows = {r1, r2, r3}
  Members = {me, friend, star}
  Viewer = me
  Author <- MCAuthor
  Following = {star}
  Times = {1, 2}
  Asked <- MCAsked
  DefaultLimit = 2
  MaxLimit = 2
  ResultWindow = 3
  MaxChanges = 2
  Sections = {s1}
  Owners = {o1}
  Editors = {e1, e2}
  Dates = {1, 2}
CONSTRAINT PagesAtStake
INVARIANTS
  SharedTypes
  LimiterKeepsItsWindows
  ConnectionIsManaged
  ObjectsMatchRows
  WalksCoverTheList
  PeriodsMakeSense
CHECK_DEADLOCK FALSE
