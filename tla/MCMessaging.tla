------------------------------ MODULE MCMessaging ------------------------------
(***************************************************************************)
(* TLC instance of messaging-service with the notification-service that    *)
(* its events, and one of another service, go to.                          *)
(***************************************************************************)
EXTENDS Messaging, TLC

MCAsked == {[f \in {"messages"} |-> FALSE], [f \in {"inApp", "messages"} |-> TRUE]}

\* The two services meet in the queue only: one of them runs at a time, and no
\* message is sent any more once there are notifications.
ChatsIdle == \A h \in Chats : chat[h] = None
NoticesStarted == \/ \E n \in Notes : notification[n] # None
                  \/ \E e \in Events : event[e] # None /\ event[e].runs > 0
                  \/ \E r \in Readers : reader[r] # None
                  \/ \E u \in Users : unread[u] # None
MCNext ==
  \/ ~NoticesStarted /\ ChatNext
  \/ ChatsIdle /\ NoticeNext /\ UNCHANGED chatVars
  \/ ChatsIdle /\ (\E e \in Events \ Messages : OtherServices(e)) /\ UNCHANGED chatVars
MCSpec == MessagingInit /\ [][MCNext]_<<noticeVars, chatVars>>

\* Tables, messages and requests of the two services have their types.
MessagingTypes == NoticeTypeOK /\ ChatTypeOK

\* Requests of the two services never run at once and share their names.
Symmetry == Permutations(Users) \cup Permutations(Consumers) \cup Permutations(Chats)

\* Keys are unlike the users not distinguished by anything: they are given out in
\* order.
InOrder(keys, used) == \A n \in used : \A i \in keys : i < n => i \in used
KeysInOrder ==
  /\ InOrder(Notes, {n \in Notes : notification[n] # None})
  /\ InOrder(Conversations, {c \in Conversations : conversation[c] # None})

\* What the run leaves out: messages beside a conversation being created or beside
\* another conversation; read marks of more than one participant, or other requests
\* once one is written.
Creating == \E h \in Chats : ChatAt(h, "create.insert") \/ ChatAt(h, "create.join")
Sending == \/ \E m \in Messages : message[m] # None
           \/ \E h \in Chats : ChatAt(h, "send.insert")
ChatsInTurn ==
  /\ Sending => /\ ~Creating /\ crossed = {}
                /\ \A c \in Conversations : conversation[c] # None =>
                     c = 1 /\ conversation[c].isGroup = (participants[c] = Users)
  /\ Cardinality({x \in Conversations \X Users : lastReadAt[x[1]][x[2]] # 0}) =< 1
  /\ (\E c \in Conversations, u \in Users : lastReadAt[c][u] # 0) => ChatsIdle

\* Notifications are explored for one event at a time: of another service's, one kind,
\* with what its recipient reads and marks; of a message to two, with no more of its
\* conversation, and what one recipient prefers.
Reading(u) == unread[u] # None \/ \E r \in Readers : reader[r] # None /\ reader[r].user = u
Preferring == {r \in Readers : reader[r] # None
                                /\ reader[r].pc \in {"preference.create", "preference.write"}}
Open == {e \in Events : event[e] # None}
NoticesInTurn ==
  /\ Cardinality(Open) <= 1
  /\ ~(Open \subseteq Messages) => \A c \in Conversations : conversation[c] = None
  /\ ~(Open \subseteq Messages) => ChatsIdle
  /\ \A e \in Open \ Messages : event[e].runs > 0 => event[e].category = "connections"
  /\ \A u \in Users :
       /\ Reading(u) => \A e \in Open : u \in RecipientsOf(e)
       /\ preference[u] # None => Open \subseteq Messages /\ \A v \in Users \ {u} : ~Reading(v)
       /\ unread[u] # None => Open \subseteq Events \ Messages
  /\ Open \cap Messages # {} =>
       /\ Cardinality(Preferring) <= 1
       /\ \A r \in Readers : reader[r] # None => r \in Preferring
  /\ NoticesStarted =>
       \A c \in Conversations : conversation[c] # None => Open # {} /\ Open \subseteq Messages
  /\ (NoticesStarted \/ \E u \in Users : preference[u] # None) =>
       /\ unsent = {} /\ Cardinality({h \in Chats : chat[h] # None}) <= 1
       /\ \A c \in Conversations : conversation[c] # None =>
            /\ c = 1 /\ participants[c] \in {{}, Users}
            /\ lastReadAt[c] = [u \in Users |-> 0]
            /\ \A n \in Notes : notification[n] # None => ~notification[n].isRead
       /\ \A m \in Messages : message[m] # None =>
            message[m] = NewMessage(message[m].sender, 1, 1)
=============================================================================
