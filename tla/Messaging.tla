------------------------------- MODULE Messaging -------------------------------
(***************************************************************************)
(* messaging-service: conversations and their participants, messages and   *)
(* read marks; message.sent goes to the notification-service.              *)
(*                                                                         *)
(* A request is a sequence of statements; requests interleave between      *)
(* them.  Participants are stored by one statement and never change, so    *)
(* a message's recipients are read together with its publish.              *)
(***************************************************************************)
EXTENDS NotificationService, SequencesExt

CONSTANTS Conversations, Messages,   \* keys of conversations and messages
          Chats,                     \* requests in progress
          Contents

ASSUME MessagingAssumption ==
  /\ IsFiniteSet(Users)
  /\ Messages \subseteq Events
  /\ None \notin Conversations \cup Messages \cup Contents

VARIABLES conversation,   \* the conversations table
          participants,   \* conversation_participants, by conversation
          lastReadAt,     \* conversation_participants.last_read_at
          message,        \* the messages table
          chat,           \* requests in progress
          opened,         \* answers to requests for a direct conversation
          crossed,        \* history: pairs two requests opened a conversation for at once
          unsent          \* history: messages whose message.sent was not published, or
                          \* was before there was a queue for it

chatVars == <<conversation, participants, lastReadAt, message, chat, opened, crossed, unsent>>
-----------------------------------------------------------------------------
\* lastMessageAt and lastReadAt count the messages sent until then.
ConversationRow == [isGroup : BOOLEAN, lastMessageAt : Nat]
ParticipantTable == [Conversations -> SUBSET Users]
ReadMarks == [Conversations -> [Users -> Nat]]
MessageRow == [conversation : Conversations, sender : Users, content : Contents,
               isEdited : BOOLEAN, deleted : BOOLEAN]

Pairs == {p \in SUBSET Users : Cardinality(p) = 2}
ChatState ==
  [pc : {"create.insert"}, members : SUBSET Users, isGroup : BOOLEAN]
  \cup [pc : {"create.join"}, members : SUBSET Users, isGroup : BOOLEAN, id : Conversations]
  \cup [pc : {"read.write"}, user : Users, id : Conversations]
  \cup [pc : {"send.insert"}, user : Users, id : Conversations, content : Contents]
  \cup [pc : {"send.bump", "send.publish"}, user : Users, id : Conversations, message : Messages]
  \cup [pc : {"message.write"}, user : Users, message : Messages, copy : MessageRow,
        changes : [content : Contents \cup {None}, deleted : BOOLEAN]]

ASSUME ChatRowAssumption == None \notin ConversationRow \cup MessageRow \cup ChatState

ChatTypeOK ==
  /\ conversation \in [Conversations -> ConversationRow \cup {None}]
  /\ participants \in ParticipantTable
  /\ lastReadAt \in ReadMarks
  /\ message \in [Messages -> MessageRow \cup {None}]
  /\ chat \in [Chats -> ChatState \cup {None}]
  /\ opened \subseteq Pairs \X Conversations
  /\ crossed \subseteq Pairs
  /\ unsent \subseteq Messages

ChatAt(h, pc) == chat[h] # None /\ chat[h].pc = pc
StartChat(h, state) == chat[h] = None /\ chat' = [chat EXCEPT ![h] = state]
MoveChat(h, pc) == chat' = [chat EXCEPT ![h].pc = pc]
EndChat(h) == chat' = [chat EXCEPT ![h] = None]
Now == Cardinality({m \in Messages : message[m] # None})

Direct(members, isGroup) == ~isGroup /\ Cardinality(members) = 2
\* Requests that open a direct conversation of these members.
Opening(members) == {h \in Chats : /\ chat[h] # None
                                   /\ chat[h].pc \in {"create.insert", "create.join"}
                                   /\ chat[h].members = members /\ ~chat[h].isGroup}
-----------------------------------------------------------------------------
(* conversation.service.ts *)

\* Mutant of DirectConversations: a conversation with both is one of them.
WithBoth(pair) == {c \in Conversations : pair \subseteq participants[c]}

\* findDirectConversationId returns the first it meets of these.
DirectConversations(pair) == {c \in Conversations : participants[c] = pair}

\* create, up to the lookup: the members are the creator and those it names, without
\* repetition, and it may say whether that is a group.
CreateLookup(h, members, asked) ==
  LET isGroup == IF asked = None THEN Cardinality(members) > 2 ELSE asked
      found == IF Direct(members, isGroup) THEN DirectConversations(members) ELSE {}
  IN  /\ chat[h] = None
      /\ IF found # {}
         THEN /\ \E c \in found : opened' = opened \cup {<<members, c>>}
              /\ UNCHANGED <<chat, crossed>>
         ELSE /\ StartChat(h, [pc |-> "create.insert", members |-> members, isGroup |-> isGroup])
              /\ crossed' = IF Direct(members, isGroup) /\ Opening(members) # {}
                            THEN crossed \cup {members} ELSE crossed
              /\ UNCHANGED opened
  /\ UNCHANGED <<noticeVars, conversation, participants, lastReadAt, message, unsent>>

NewConversation(isGroup) == [isGroup |-> isGroup, lastMessageAt |-> 0]

CreateInsert(h, c) ==
  /\ ChatAt(h, "create.insert")
  /\ conversation[c] = None
  /\ conversation' = [conversation EXCEPT ![c] = NewConversation(chat[h].isGroup)]
  /\ chat' = [chat EXCEPT ![h] = [pc |-> "create.join", members |-> @.members,
                                  isGroup |-> @.isGroup, id |-> c]]
  /\ UNCHANGED <<noticeVars, participants, lastReadAt, message, opened, crossed, unsent>>

\* bulkCreate, one statement.
CreateJoin(h) ==
  /\ ChatAt(h, "create.join")
  /\ participants' = [participants EXCEPT ![chat[h].id] = chat[h].members]
  /\ opened' = IF Direct(chat[h].members, chat[h].isGroup)
               THEN opened \cup {<<chat[h].members, chat[h].id>>} ELSE opened
  /\ EndChat(h)
  /\ UNCHANGED <<noticeVars, conversation, lastReadAt, message, crossed, unsent>>

\* assertParticipant
IsParticipant(c, u) == u \in participants[c]

\* markRead loads the participant's row, then updates its last_read_at.
MarkReadFind(h, c, u) ==
  /\ IsParticipant(c, u)                                   \* else 403
  /\ StartChat(h, [pc |-> "read.write", user |-> u, id |-> c])
  /\ UNCHANGED <<noticeVars, conversation, participants, lastReadAt, message, opened, crossed, unsent>>

MarkReadWrite(h) ==
  /\ ChatAt(h, "read.write")
  /\ lastReadAt' = [lastReadAt EXCEPT ![chat[h].id][chat[h].user] = Now]
  /\ EndChat(h)
  /\ UNCHANGED <<noticeVars, conversation, participants, message, opened, crossed, unsent>>
-----------------------------------------------------------------------------
(* message.service.ts *)

SendStart(h, u, c, content) ==
  /\ IsParticipant(c, u)                                   \* else 403
  /\ StartChat(h, [pc |-> "send.insert", user |-> u, id |-> c, content |-> content])
  /\ UNCHANGED <<noticeVars, conversation, participants, lastReadAt, message, opened, crossed, unsent>>

NewMessage(u, c, content) ==
  [conversation |-> c, sender |-> u, content |-> content, isEdited |-> FALSE, deleted |-> FALSE]

SendInsert(h, m) ==
  /\ ChatAt(h, "send.insert")
  /\ message[m] = None
  /\ message' = [message EXCEPT ![m] = NewMessage(chat[h].user, chat[h].id, chat[h].content)]
  /\ chat' = [chat EXCEPT ![h] = [pc |-> "send.bump", user |-> @.user, id |-> @.id, message |-> m]]
  /\ UNCHANGED <<noticeVars, conversation, participants, lastReadAt, opened, crossed, unsent>>

SendBump(h) ==
  /\ ChatAt(h, "send.bump")
  /\ conversation' = [conversation EXCEPT ![chat[h].id].lastMessageAt = Now]
  /\ MoveChat(h, "send.publish")
  /\ UNCHANGED <<noticeVars, participants, lastReadAt, message, opened, crossed, unsent>>

\* Mutant of SendPublish: the participants are told, the sender too.
SendPublishToAll(h) ==
  /\ ChatAt(h, "send.publish")
  /\ LET c == chat[h].id IN
     \E order \in SetToSeqs(participants[c]) :
       Enqueue(chat[h].message, MessageSent(order))
  /\ EndChat(h)
  /\ UNCHANGED <<notification, preference, unread, consumer, reader, outdated,
                 conversation, participants, lastReadAt, message, opened, crossed, unsent>>

\* publishSent: the participants, in the order of the table, but the sender.
SendPublish(h) ==
  /\ ChatAt(h, "send.publish")
  /\ LET c == chat[h].id IN
     \E order \in SetToSeqs(participants[c] \ {chat[h].user}) :
       Enqueue(chat[h].message, MessageSent(order))
  /\ EndChat(h)
  /\ UNCHANGED <<notification, preference, unread, consumer, reader, outdated,
                 conversation, participants, lastReadAt, message, opened, crossed, unsent>>

\* getOrThrow and the sender's check, for edit and remove.
MessageFind(h, u, m, changes) ==
  /\ message[m] # None /\ ~message[m].deleted              \* else 404
  /\ message[m].sender = u                                 \* else 403
  /\ StartChat(h, [pc |-> "message.write", user |-> u, message |-> m, copy |-> message[m],
                   changes |-> changes])
  /\ UNCHANGED <<noticeVars, conversation, participants, lastReadAt, message, opened, crossed, unsent>>

\* edit writes the content and is_edited, remove writes deleted_at; row.update
\* leaves out a content that equals the loaded one.
Written(row, copy, changes) ==
  IF changes.deleted THEN [row EXCEPT !.deleted = TRUE]
  ELSE [row EXCEPT !.isEdited = TRUE,
                   !.content = IF changes.content = copy.content THEN @ ELSE changes.content]

\* Mutant of MessageWrite: the loaded row is written back as a whole.
MessageWriteAll(h) ==
  /\ ChatAt(h, "message.write")
  /\ message' = [message EXCEPT ![chat[h].message] =
                   Written(chat[h].copy, chat[h].copy, chat[h].changes)]
  /\ EndChat(h)
  /\ UNCHANGED <<noticeVars, conversation, participants, lastReadAt, opened, crossed, unsent>>

MessageWrite(h) ==
  /\ ChatAt(h, "message.write")
  /\ message' = [message EXCEPT ![chat[h].message] = Written(@, chat[h].copy, chat[h].changes)]
  /\ EndChat(h)
  /\ UNCHANGED <<noticeVars, conversation, participants, lastReadAt, opened, crossed, unsent>>

\* A statement fails or the process dies.  A publish that fails is only logged; one
\* before the queue was first bound returns and leaves the same, a message unsent.
ChatFail(h) ==
  /\ chat[h] # None
  /\ unsent' = IF chat[h].pc \in {"send.bump", "send.publish"}
               THEN unsent \cup {chat[h].message} ELSE unsent
  /\ EndChat(h)
  /\ UNCHANGED <<noticeVars, conversation, participants, lastReadAt, message, opened, crossed>>
-----------------------------------------------------------------------------
\* The tables start empty.
ChatInit ==
  /\ conversation = [c \in Conversations |-> None]
  /\ participants = [c \in Conversations |-> {}]
  /\ lastReadAt = [c \in Conversations |-> [u \in Users |-> 0]]
  /\ message = [m \in Messages |-> None]
  /\ chat = [h \in Chats |-> None]
  /\ opened = {} /\ crossed = {} /\ unsent = {}

ConversationRoutes(h) ==
  \/ \E members \in SUBSET Users \ {{}}, asked \in BOOLEAN \cup {None} :
       CreateLookup(h, members, asked)
  \/ \E c \in Conversations, u \in Users : MarkReadFind(h, c, u)
MessageRoutes(h) ==
  \E u \in Users :
    \/ \E c \in Conversations, content \in Contents : SendStart(h, u, c, content)
    \/ \E m \in Messages :
         \/ \E content \in Contents :
              MessageFind(h, u, m, [content |-> content, deleted |-> FALSE])
         \/ MessageFind(h, u, m, [content |-> None, deleted |-> TRUE])
ChatProceeds(h) ==
  \/ \E c \in Conversations : CreateInsert(h, c)
  \/ \E m \in Messages : SendInsert(h, m)
  \/ CreateJoin(h) \/ MarkReadWrite(h)
  \/ SendBump(h) \/ SendPublish(h) \/ MessageWrite(h) \/ ChatFail(h)

ChatNext == \E h \in Chats : ConversationRoutes(h) \/ MessageRoutes(h) \/ ChatProceeds(h)

MessagingInit == NoticeInit /\ ChatInit
MessagingNext ==
  \/ ChatNext
  \/ NoticeNext /\ UNCHANGED chatVars
  \/ (\E e \in Events \ Messages : OtherServices(e)) /\ UNCHANGED chatVars
MessagingSpec == MessagingInit /\ [][MessagingNext]_<<noticeVars, chatVars>>
-----------------------------------------------------------------------------
\* A request for a direct conversation is answered with one whose participants are
\* the two and nobody else, and two people have one such conversation, whatever
\* else they are in and however often they ask, unless two requests crossed.
DirectConversationsAreKept ==
  /\ \A o \in opened : participants[o[2]] = o[1]
  /\ \A p \in Pairs \ crossed :
       Cardinality({c \in DirectConversations(p) : ~conversation[c].isGroup}) <= 1

\* What participant.repository.ts says of the lookup: "Find an existing non-group
\* conversation whose participant set is EXACTLY the two given users".
DirectIsNotAGroup == \A o \in opened : ~conversation[o[2]].isGroup

\* A message changes only by a request of its sender, stays in its conversation, and
\* once deleted stays deleted, whichever edits were under way.
MessagesBelongToTheirSender ==
  [][\A m \in Messages : message[m] # None =>
       /\ message'[m].sender = message[m].sender
       /\ message'[m].conversation = message[m].conversation
       /\ message[m].deleted => message'[m].deleted
       /\ message'[m] # message[m] =>
            \E h \in Chats : /\ ChatAt(h, "message.write")
                             /\ chat[h].message = m /\ chat[h].user = message[m].sender]_
    <<noticeVars, chatVars>>

\* message.sent names the participants but the sender, so that those and nobody
\* else are notified of a message; every message that was stored and not about to
\* be announced was announced, unless a statement or the publish failed.
MessagesAreAnnounced ==
  \A m \in Messages :
    LET busy == {h \in Chats : /\ chat[h] # None /\ chat[h].pc \in {"send.bump", "send.publish"}
                               /\ chat[h].message = m}
    IN  /\ message[m] = None => event[m] = None
        /\ (message[m] # None /\ busy = {} /\ m \notin unsent) => event[m] # None
        /\ event[m] # None =>
             /\ RecipientsOf(m) = participants[message[m].conversation] \ {message[m].sender}
             /\ \A u \in Users \ RecipientsOf(m) : Rows(m, u) = {}
=============================================================================
