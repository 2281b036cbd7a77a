SPECIFICATION MCSpec
CONSTANTS
  Users = {u1, u2, u3}
  Events = {m1, x1}
  Notes = {1, 2, 3}
  Consumers = {k1, k2}
  Readers = {h1, h2}
  Asked <- MCAsked
  MaxCopies = 2
  MaxRuns = 2
  Conversations = {1, 2}
  Messages = {m1}
  Chats = {h1, h2}
  Contents = {1, 2}
  None = None
SYMMETRY Symmetry
CONSTRAINTS KeysInOrder ChatsInTurn NoticesInTurn
INVARIANTS
  MessagingTypes
  UnreadCountFollows
  RecipientsAreNotified
  DirectConversationsAreKept
  MessagesAreAnnounced
PROPERTY MessagesBelongToTheirSender
CHECK_DEADLOCK FALSE
