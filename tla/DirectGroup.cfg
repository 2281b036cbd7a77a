SPECIFICATION MCSpec
CONSTANTS
  Users = {u1, u2}
  Events = {m1}
  Notes = {1}
  Consumers = {k1}
  Readers = {h1}
  Asked <- MCAsked
  MaxCopies = 1
  MaxRuns = 1
  Conversations = {1, 2}
  Messages = {m1}
  Chats = {h1}
  Contents = {1}
  None = None
INVARIANT DirectIsNotAGroup
CHECK_DEADLOCK FALSE
